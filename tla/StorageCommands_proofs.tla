----------------------- MODULE StorageCommands_proofs -----------------------
(***************************************************************************)
(* The commands of the storage device, for every number of slots and of    *)
(* streams, every sector size and all files: handles and the streams they  *)
(* stand for go together, and a read moves on by the count it answers.     *)
(***************************************************************************)
EXTENDS StorageCommands, SequenceTheorems, WellFoundedInduction, TLAPS

\* An open stream has a file to read from, and has not moved past the bytes in
\* its buffer.
StreamsAreRead ==
  \A s \in Streams : stream[s] # Null =>
    IF stream[s].buffer = Absent
    THEN /\ stream[s].pos = 0
         /\ stream[s].writing \/ content[stream[s].file] # Absent
    ELSE /\ stream[s].pos <= Len(stream[s].buffer)
         /\ stream[s].writing => stream[s].buffer = <<>>

Types ==
  /\ content \in [Files -> Seq(Nat) \cup {Absent}]
  /\ stream \in [Streams -> OpenStream \cup {Null}]
  /\ file_handles \in [Slots -> Streams \cup {Null}]

IInv == Types /\ StreamsAreRead /\ SlotsHoldOpenStreams

\* A set of natural numbers that is not empty has a least one.
LEMMA LeastOfNats ==
  ASSUME NEW S \in SUBSET Nat, S # {}
  PROVE  \E x \in S : \A y \in S : x <= y
<1>1. PICK x \in S : \A y \in S : ~(<<y, x>> \in OpToRel(<, Nat))
  BY NatLessThanWellFounded, WFMin, Zenon
<1>2. \A y \in S : ~(y < x)
  <2> SUFFICES ASSUME NEW y \in S, y < x PROVE FALSE
    OBVIOUS
  <2>1. <<y, x>> \in OpToRel(<, Nat)
    BY Zenon DEF OpToRel
  <2> QED
    BY <1>1, <2>1, Zenon
<1> QED
  BY <1>2

\* The lowest of some natural numbers is one of them.
LEMMA LowestIsIn ==
  ASSUME NEW S \in SUBSET Nat, S # {} PROVE Lowest(S) \in S
BY LeastOfNats DEF Lowest

\* What a read of an open stream takes is the bytes that follow its position.
LEMMA UpcomingBytes ==
  ASSUME IInv, NEW s \in Streams, stream[s] # Null, NEW n \in Nat
  PROVE  LET next == Upcoming(s, n)
         IN  /\ Readable(s) \in Seq(Nat) /\ next \in Seq(Nat) /\ Len(next) <= n
             /\ stream[s].pos + Len(next) <= Len(Readable(s))
             /\ next = SubSeq(Readable(s), stream[s].pos + 1, stream[s].pos + Len(next))
<1> DEFINE from == stream[s].pos
           all  == Readable(s)
           to   == IF from + n <= Len(all) THEN from + n ELSE Len(all)
<1>1. stream[s] \in OpenStream
  BY DEF IInv, Types
<1>2. all \in Seq(Nat) /\ from \in Nat /\ from <= Len(all)
  <2>1. from \in Nat /\ stream[s].file \in Files /\ stream[s].writing \in BOOLEAN
    BY <1>1 DEF OpenStream
  <2>2. stream[s].buffer \in Seq(Nat) \cup {Absent}
    BY <1>1 DEF OpenStream
  <2>3. CASE stream[s].buffer = Absent
    BY <2>1, <2>3 DEF IInv, StreamsAreRead, Types, Readable
  <2>4. CASE stream[s].buffer # Absent
    BY <2>1, <2>2, <2>4 DEF IInv, StreamsAreRead, Readable
  <2> QED
    BY <2>3, <2>4
<1> HIDE DEF all, from
<1>3. Len(all) \in Nat /\ to \in Nat /\ from <= to /\ to <= Len(all) /\ to <= from + n
  BY <1>2, LenProperties
<1>4. \A i \in from + 1 .. to : all[i] \in Nat
  BY <1>2, <1>3, ElementOfSeq
<1>5. /\ SubSeq(all, from + 1, to) \in Seq(Nat)
      /\ Len(SubSeq(all, from + 1, to)) = to - from
  <2> HIDE DEF to
  <2>1. from + 1 \in Int /\ to \in Int
    BY <1>2, <1>3
  <2> QED
    BY <1>2, <1>3, <1>4, <2>1, SubSeqProperties
<1>6. Upcoming(s, n) = SubSeq(all, from + 1, to)
  BY DEF Upcoming, all, from
<1> HIDE DEF to
<1>7. from + Len(Upcoming(s, n)) = to /\ Len(Upcoming(s, n)) <= n
  BY <1>2, <1>3, <1>5, <1>6
<1> QED
  BY <1>2, <1>3, <1>5, <1>6, <1>7 DEF all, from

\* What Consume makes of an open stream.
LEMMA ReadStream ==
  ASSUME NEW r \in OpenStream, NEW b \in Seq(Nat), NEW p \in Nat
  PROVE  LET q == [r EXCEPT !.buffer = b, !.pos = @ + p]
         IN  /\ q \in OpenStream /\ q.buffer = b
             /\ q.pos = r.pos + p /\ q.writing = r.writing
<1>1. r.pos + p \in Nat
  BY DEF OpenStream
<1>2. \A x \in Nat : [r EXCEPT !.buffer = b, !.pos = x] \in OpenStream
  BY Zenon DEF OpenStream
<1>3. [r EXCEPT !.buffer = b, !.pos = @ + p] \in OpenStream
  BY <1>1, <1>2
<1> QED
  BY <1>3 DEF OpenStream

\* A read leaves the stream open, at a position within the bytes it read from.
LEMMA ConsumeIsTyped ==
  ASSUME IInv, NEW h \in Slots, file_handles[h] # Null, NEW n \in Nat,
         Consume(file_handles[h], Len(Upcoming(file_handles[h], n))),
         UNCHANGED <<content, file_handles>>
  PROVE  IInv'
<1> DEFINE s    == file_handles[h]
           next == Upcoming(s, n)
           read == [stream[s] EXCEPT !.buffer = Readable(s), !.pos = @ + Len(next)]
<1>1. s \in Streams /\ stream[s] # Null /\ stream[s] \in OpenStream
  BY DEF IInv, Types, SlotsHoldOpenStreams
<1>2. /\ Readable(s) \in Seq(Nat) /\ next \in Seq(Nat)
      /\ stream[s].pos + Len(next) <= Len(Readable(s))
  BY <1>1, UpcomingBytes
<1>3. stream' = [stream EXCEPT ![s] = read]
  BY DEF Consume
<1>4. /\ read \in OpenStream /\ read.buffer = Readable(s)
      /\ read.pos = stream[s].pos + Len(next) /\ read.writing = stream[s].writing
  <2> HIDE DEF next, s
  <2>1. Len(next) \in Nat /\ stream[s].pos \in Nat
    BY <1>1, <1>2, LenProperties DEF OpenStream
  <2>2. \A b \in Seq(Nat), p \in Nat :
          LET q == [stream[s] EXCEPT !.buffer = b, !.pos = @ + p]
          IN  /\ q \in OpenStream /\ q.buffer = b
              /\ q.pos = stream[s].pos + p /\ q.writing = stream[s].writing
    BY <1>1, ReadStream
  <2> QED
    BY <1>2, <2>1, <2>2, Zenon
<1>5. read # Null
  BY <1>4, NullAssumption
<1>6. read.buffer # Absent
  BY <1>2, <1>4, CommandAssumption
<1>7. read.pos <= Len(read.buffer)
  BY <1>2, <1>4
<1>8. read.writing => read.buffer = <<>>
  BY <1>4 DEF Readable
<1> HIDE DEF s, next, read
<1>9. /\ \A t \in Streams : stream'[t] = IF t = s THEN read ELSE stream[t]
      /\ stream' \in [Streams -> OpenStream \cup {Null}]
  BY <1>1, <1>3, <1>4 DEF IInv, Types
<1>10. Types'
  BY <1>9 DEF IInv, Types
<1>11. StreamsAreRead'
  BY <1>6, <1>7, <1>8, <1>9 DEF IInv, StreamsAreRead
<1>12. SlotsHoldOpenStreams'
  BY <1>5, <1>9 DEF IInv, Types, SlotsHoldOpenStreams
<1> QED
  BY <1>10, <1>11, <1>12 DEF IInv

\* An open takes a stream that no slot held.
LEMMA OpenKeepsIInv ==
  ASSUME IInv, NEW w \in BOOLEAN, NEW f \in Files, cmd_storage_open(w, f)
  PROVE  IInv'
<1>1. CASE ~CanOpen \/ (content[f] = Absent /\ ~w)
  BY <1>1 DEF cmd_storage_open, IInv, Types, StreamsAreRead, SlotsHoldOpenStreams
<1>2. CASE CanOpen /\ (content[f] # Absent \/ w)
  <2> DEFINE s   == Lowest({t \in Streams : stream[t] = Null})
             i   == Lowest(FreeSlots(file_handles))
             opened == [file |-> f, writing |-> w, buffer |-> Absent, pos |-> 0]
  <2>1. s \in Streams /\ stream[s] = Null
    <3>1. {t \in Streams : stream[t] = Null} \in SUBSET Nat
      BY CommandAssumption DEF Streams
    <3> QED
      BY <1>2, <3>1, LowestIsIn DEF CanOpen
  <2>2. FreeSlots(file_handles) # {} => i \in Slots /\ file_handles[i] = Null
    <3>1. FreeSlots(file_handles) \in SUBSET Nat
      BY CommandAssumption DEF Slots, FreeSlots
    <3> QED
      BY <3>1, LowestIsIn DEF FreeSlots
  <2>3. opened \in OpenStream /\ opened # Null
    BY NullAssumption DEF OpenStream
  <2>4. /\ content' = IF w THEN [content EXCEPT ![f] = <<>>] ELSE content
        /\ stream' = [stream EXCEPT ![s] = opened]
        /\ file_handles' = IF FreeSlots(file_handles) # {}
                           THEN [file_handles EXCEPT ![i] = s] ELSE file_handles
    BY <1>2 DEF cmd_storage_open
  <2>5. opened.buffer = Absent /\ opened.pos = 0 /\ opened.writing = w /\ opened.file = f
    OBVIOUS
  <2> HIDE DEF s, i, opened
  <2>6. /\ \A t \in Streams : stream'[t] = IF t = s THEN opened ELSE stream[t]
        /\ stream' \in [Streams -> OpenStream \cup {Null}]
    BY <2>1, <2>3, <2>4 DEF IInv, Types
  <2>7. /\ content' \in [Files -> Seq(Nat) \cup {Absent}]
        /\ \A g \in Files : content[g] # Absent => content'[g] # Absent
        /\ w => content'[f] # Absent
    <3>1. <<>> \in Seq(Nat)
      OBVIOUS
    <3>2. <<>> # Absent
      BY <3>1, CommandAssumption
    <3> QED
      BY <2>4, <3>1, <3>2 DEF IInv, Types
  <2>8. Types'
    BY <2>1, <2>2, <2>4, <2>6, <2>7 DEF IInv, Types
  <2>9. StreamsAreRead'
    <3> SUFFICES ASSUME NEW t \in Streams, stream'[t] # Null
                 PROVE  IF stream'[t].buffer = Absent
                        THEN /\ stream'[t].pos = 0
                             /\ stream'[t].writing \/ content'[stream'[t].file] # Absent
                        ELSE /\ stream'[t].pos <= Len(stream'[t].buffer)
                             /\ stream'[t].writing => stream'[t].buffer = <<>>
      BY DEF StreamsAreRead
    <3>1. CASE t = s
      BY <1>2, <2>4, <2>5, <2>6, <2>7, <3>1
    <3>2. CASE t # s
      <4>1. stream[t] \in OpenStream /\ stream'[t] = stream[t]
        BY <2>6, <3>2 DEF IInv, Types
      <4>2. stream[t].file \in Files
        BY <4>1 DEF OpenStream
      <4> QED
        BY <2>7, <4>1, <4>2 DEF IInv, StreamsAreRead
    <3> QED
      BY <3>1, <3>2
  <2>10. SlotsHoldOpenStreams'
    BY <2>1, <2>2, <2>3, <2>4, <2>6 DEF IInv, Types, SlotsHoldOpenStreams
  <2> QED
    BY <2>8, <2>9, <2>10 DEF IInv
<1> QED
  BY <1>1, <1>2

\* A close takes the stream from the one slot that holds it.
LEMMA CloseKeepsIInv ==
  ASSUME IInv, NEW h \in Handles, cmd_storage_close(h)
  PROVE  IInv'
<1>1. CASE get_file_handle(h) = Null
  BY <1>1 DEF cmd_storage_close, IInv, Types, StreamsAreRead, SlotsHoldOpenStreams
<1>2. CASE get_file_handle(h) # Null
  <2>1. h \in Slots /\ file_handles[h] # Null
    BY <1>2 DEF get_file_handle
  <2>2. /\ stream' = [stream EXCEPT ![file_handles[h]] = Null]
        /\ file_handles' = [file_handles EXCEPT ![h] = Null]
        /\ content' = content
    BY <1>2 DEF cmd_storage_close
  <2>3. file_handles[h] \in Streams
    BY <2>1 DEF IInv, Types
  <2>4. Types'
    BY <2>1, <2>2, <2>3 DEF IInv, Types
  <2>5. StreamsAreRead'
    BY <2>2, <2>3 DEF IInv, Types, StreamsAreRead
  <2>6. SlotsHoldOpenStreams'
    BY <2>1, <2>2, <2>3 DEF IInv, Types, SlotsHoldOpenStreams
  <2> QED
    BY <2>4, <2>5, <2>6 DEF IInv
<1> QED
  BY <1>1, <1>2

\* Nothing is open at first.
LEMMA InitIInv == Init => IInv
  BY CommandAssumption DEF Init, IInv, Types, StreamsAreRead, SlotsHoldOpenStreams

\* Every command keeps the invariant.
LEMMA NextIInv == IInv /\ [Next]_vars => IInv'
<1> SUFFICES ASSUME IInv, [Next]_vars PROVE IInv'
  OBVIOUS
<1>1. ASSUME NEW w \in BOOLEAN, NEW f \in Files, cmd_storage_open(w, f)
      PROVE  IInv'
  BY <1>1, OpenKeepsIInv
<1>2. ASSUME NEW h \in Handles, cmd_storage_close(h) PROVE IInv'
  BY <1>2, CloseKeepsIInv
<1>3. ASSUME UNCHANGED <<content, stream, file_handles>> PROVE IInv'
  BY <1>3 DEF IInv, Types, StreamsAreRead, SlotsHoldOpenStreams
<1>4. ASSUME NEW h \in Handles, cmd_read_byte(h) PROVE IInv'
  <2>1. CASE get_file_handle(h) = Null
    BY <1>3, <1>4, <2>1 DEF cmd_read_byte
  <2>2. CASE get_file_handle(h) # Null
    <3>1. h \in Slots /\ file_handles[h] # Null
      BY <2>2 DEF get_file_handle
    <3>2. /\ Consume(file_handles[h], Len(Upcoming(file_handles[h], 1)))
          /\ UNCHANGED <<content, file_handles>>
      BY <1>4, <2>2 DEF cmd_read_byte
    <3> QED
      BY <3>1, <3>2, ConsumeIsTyped, 1 \in Nat
  <2> QED
    BY <2>1, <2>2
<1>5. ASSUME NEW h \in Handles, cmd_read_sector(h) PROVE IInv'
  <2>1. CASE get_file_handle(h) = Null
    BY <1>3, <1>5, <2>1 DEF cmd_read_sector
  <2>2. CASE get_file_handle(h) # Null
    <3>1. h \in Slots /\ file_handles[h] # Null
      BY <2>2 DEF get_file_handle
    <3>2. /\ Consume(file_handles[h], Len(Upcoming(file_handles[h], SectorSize)))
          /\ UNCHANGED <<content, file_handles>>
      BY <1>5, <2>2 DEF cmd_read_sector
    <3> QED
      BY <3>1, <3>2, ConsumeIsTyped, CommandAssumption
  <2> QED
    BY <2>1, <2>2
<1>6. ASSUME NEW m \in Modes, NEW d \in Dirs, cmd_read_dir(m, d) PROVE IInv'
  BY <1>3, <1>6 DEF cmd_read_dir
<1>7. ASSUME NEW h \in Handles, NEW x \in Indexes, cmd_get_dir_entry(h, x) PROVE IInv'
  BY <1>3, <1>7 DEF cmd_get_dir_entry
<1>8. ASSUME NEW h \in Handles, cmd_close_dir(h) PROVE IInv'
  BY <1>3, <1>8 DEF cmd_close_dir
<1>9. CASE UNCHANGED vars
  BY <1>3, <1>9 DEF vars
<1> QED
  BY <1>1, <1>2, <1>4, <1>5, <1>6, <1>7, <1>8, <1>9 DEF Next

\* Every stream a slot holds is open and held by no other slot, for every table
\* size, every limit on streams and every sequence of commands.
THEOREM SlotsHoldOpen == Spec => []SlotsHoldOpenStreams
<1>1. IInv => SlotsHoldOpenStreams
  BY DEF IInv
<1> QED
  BY <1>1, InitIInv, NextIInv, PTL DEF Spec

\* A guest that decodes the count of a read as the driver does reads each byte
\* of a file once and in order, for every sector size, whatever is read of the
\* other streams in between.
THEOREM ReadsMove == Spec => ReadsMoveByTheirCount
<1> DEFINE Moves(h) ==
      LET s == file_handles[h]
          n == DecodedCount(last'[1], ret'.data)
      IN  /\ stream'[s].pos = stream[s].pos + n
          /\ SubSeq(Readable(s), stream[s].pos + 1, stream[s].pos + n)
               = (IF last'[1] = "byte" THEN ret'.data ELSE Tail(ret'.data))
          /\ \A t \in Streams \ {s} : stream'[t] = stream[t]
<1>1. ASSUME IInv, Next, NEW h \in Slots, file_handles[h] # Null,
             last' \in {<<"byte", h>>, <<"sector", h>>}, ret'.code = RET_SUCCESS
      PROVE  Moves(h)
  <2> DEFINE s == file_handles[h]
  <2>1. s \in Streams /\ stream[s] # Null /\ h \in Handles /\ get_file_handle(h) = s
    BY <1>1, CommandAssumption
       DEF IInv, Types, SlotsHoldOpenStreams, get_file_handle, Slots, Handles
  <2>2. stream[s] \in OpenStream /\ stream[s].pos \in Nat
    BY <1>1, <2>1 DEF IInv, Types, OpenStream
  <2>3. cmd_read_byte(h) \/ cmd_read_sector(h)
    <3>1. ASSUME NEW w \in BOOLEAN, NEW f \in Files, cmd_storage_open(w, f) PROVE FALSE
      <4>1. last' = <<"open", f>>
        BY <3>1 DEF cmd_storage_open
      <4> QED
        BY <1>1, <4>1
    <3>2. ASSUME NEW k \in Handles, cmd_storage_close(k) PROVE FALSE
      <4>1. last' = <<"close", k>>
        BY <3>2 DEF cmd_storage_close
      <4> QED
        BY <1>1, <4>1
    <3>3. ASSUME NEW m \in Modes, NEW d \in Dirs, cmd_read_dir(m, d) PROVE FALSE
      <4>1. last' = <<"dir_open", m, d>>
        BY <3>3 DEF cmd_read_dir
      <4> QED
        BY <1>1, <4>1
    <3>4. ASSUME NEW k \in Handles, NEW x \in Indexes, cmd_get_dir_entry(k, x) PROVE FALSE
      <4>1. last' = <<"dir_entry", k, x>>
        BY <3>4 DEF cmd_get_dir_entry
      <4> QED
        BY <1>1, <4>1
    <3>5. ASSUME NEW k \in Handles, cmd_close_dir(k) PROVE FALSE
      <4>1. last' = <<"dir_close", k>>
        BY <3>5 DEF cmd_close_dir
      <4> QED
        BY <1>1, <4>1
    <3>6. ASSUME NEW k \in Handles, cmd_read_byte(k) PROVE k = h
      <4>1. last' = <<"byte", k>>
        BY <3>6 DEF cmd_read_byte
      <4> QED
        BY <1>1, <4>1
    <3>7. ASSUME NEW k \in Handles, cmd_read_sector(k) PROVE k = h
      <4>1. last' = <<"sector", k>>
        BY <3>7 DEF cmd_read_sector
      <4> QED
        BY <1>1, <4>1
    <3> QED
      BY <1>1, <3>1, <3>2, <3>3, <3>4, <3>5, <3>6, <3>7 DEF Next
  <2>4. ASSUME NEW n \in Nat, Consume(s, n)
        PROVE  /\ stream'[s].pos = stream[s].pos + n
               /\ \A t \in Streams \ {s} : stream'[t] = stream[t]
    BY <1>1, <2>1, <2>2, <2>4 DEF Consume, IInv, Types, OpenStream
  <2>5. CASE cmd_read_byte(h)
    <3> DEFINE next == Upcoming(s, 1)
    <3>1. /\ next \in Seq(Nat) /\ Len(next) <= 1
          /\ next = SubSeq(Readable(s), stream[s].pos + 1, stream[s].pos + Len(next))
      BY <1>1, <2>1, UpcomingBytes
    <3>2. /\ last'[1] = "byte" /\ Consume(s, Len(next))
          /\ IF next = <<>> THEN Fail(ERR_EOF) ELSE Answer(2, RET_SUCCESS, next)
      BY <1>1, <2>1, <2>5 DEF cmd_read_byte
    <3>3. next # <<>> /\ ret'.data = next
      BY <1>1, <3>2 DEF Fail, Answer, RET_SUCCESS, ERR_EOF
    <3> HIDE DEF next, s
    <3>4. Len(next) = 1
      <4>1. Len(next) \in Nat \ {0}
        BY <3>1, <3>3, EmptySeq, Zenon
      <4>2. Len(next) <= 1
        BY <3>1, Zenon
      <4>3. \A k \in Nat \ {0} : k <= 1 => k = 1
        OBVIOUS
      <4> QED
        BY <4>1, <4>2, <4>3, Zenon
    <3>5. DecodedCount(last'[1], ret'.data) = Len(next)
      BY <3>2, <3>4 DEF DecodedCount
    <3> QED
      BY <2>4, <3>1, <3>2, <3>3, <3>4, <3>5 DEF s
  <2>6. CASE cmd_read_sector(h)
    <3> DEFINE next == Upcoming(s, SectorSize)
               count == Len(next) % SectorSize
    <3>1. /\ next \in Seq(Nat) /\ Len(next) <= SectorSize
          /\ next = SubSeq(Readable(s), stream[s].pos + 1, stream[s].pos + Len(next))
      BY <1>1, <2>1, UpcomingBytes, CommandAssumption
    <3>2. /\ last'[1] = "sector" /\ Consume(s, Len(next))
          /\ IF Len(next) > 0 THEN Answer(3, RET_SUCCESS, <<count>> \o next)
             ELSE Fail(IF stream[s].writing THEN ERR_IO ELSE ERR_EOF)
      BY <1>1, <2>1, <2>6 DEF cmd_read_sector
    <3>3. Len(next) > 0 /\ ret'.data = <<count>> \o next
      BY <1>1, <3>2 DEF Fail, Answer, RET_SUCCESS, ERR_EOF, ERR_IO
    <3> HIDE DEF next, s
    <3>4. Len(next) \in 1 .. SectorSize
      BY <3>1, <3>3, LenProperties
    <3>5. \/ Len(next) = SectorSize /\ count = 0
          \/ count = Len(next) /\ count # 0
      <4> DEFINE n == Len(next)
      <4> HIDE DEF n
      <4>1. SectorSize \in Nat \ {0} /\ n \in 1 .. SectorSize
        BY <3>4, CommandAssumption DEF n
      <4>2. n = SectorSize => n % SectorSize = 0
        BY <4>1
      <4>3. n < SectorSize => n % SectorSize = n
        BY <4>1
      <4> QED
        BY <4>1, <4>2, <4>3 DEF n
    <3>6. count \in Nat
      BY <3>4, <3>5
    <3> HIDE DEF count
    <3>7. /\ (<<count>> \o next)[1] = count
          /\ Tail(<<count>> \o next) = next
      <4>1. /\ <<count>> \o next \in Seq(Nat) /\ <<count>> \o next # <<>>
            /\ Len(<<count>> \o next) = 1 + Len(next)
            /\ \A i \in 1 .. 1 + Len(next) :
                 (<<count>> \o next)[i] = IF i <= 1 THEN count ELSE next[i - 1]
        BY <3>1, <3>4, <3>6
      <4> DEFINE all == <<count>> \o next
      <4> HIDE DEF all
      <4>2. /\ Tail(all) \in Seq(Nat) /\ Len(Tail(all)) = Len(all) - 1
            /\ \A i \in 1 .. Len(Tail(all)) : Tail(all)[i] = all[i + 1]
        BY <4>1, HeadTailProperties DEF all
      <4>3. Len(Tail(all)) = Len(next) /\ \A i \in 1 .. Len(next) : Tail(all)[i] = next[i]
        BY <3>4, <4>1, <4>2 DEF all
      <4>4. Tail(all) = next
        BY <3>1, <4>2, <4>3, SeqEqual
      <4> QED
        BY <3>4, <4>1, <4>4 DEF all
    <3>8. DecodedCount(last'[1], ret'.data) = Len(next)
      BY <3>2, <3>3, <3>5, <3>7 DEF DecodedCount
    <3>9. Len(next) \in Nat
      BY <3>4
    <3> QED
      BY <2>4, <3>1, <3>2, <3>3, <3>7, <3>8, <3>9 DEF s
  <2> QED
    BY <2>3, <2>5, <2>6
<1>2. IInv /\ [Next]_vars
        => [\A h \in Slots :
              /\ last' \in {<<"byte", h>>, <<"sector", h>>}
              /\ ret'.code = RET_SUCCESS /\ file_handles[h] # Null
              => Moves(h)]_vars
  BY <1>1
<1> QED
  BY <1>2, InitIInv, NextIInv, PTL DEF Spec, ReadsMoveByTheirCount

\* dir_handles is a table of the slots.
DirTable == dir_handles = [i \in Slots |-> dir_handles[i]]

\* A command changes the table of directories by an open in a free slot or by a
\* close of the slot it names.
LEMMA DirStep ==
  ASSUME DirTable, Next
  PROVE  /\ DirTable'
         /\ \A i \in Slots : dir_handles'[i] # dir_handles[i]
              => dir_handles[i] = Null \/ last' = <<"dir_close", i>>
<1>1. ASSUME UNCHANGED dir_handles
      PROVE  /\ DirTable'
             /\ \A i \in Slots : dir_handles'[i] = dir_handles[i]
  BY <1>1 DEF DirTable
<1>2. ASSUME NEW m \in Modes, NEW d \in Dirs, cmd_read_dir(m, d),
             FreeSlots(dir_handles) # {}, ~UNCHANGED dir_handles
      PROVE  \E i \in Slots : \E entries :
               /\ dir_handles[i] = Null
               /\ dir_handles' = [dir_handles EXCEPT ![i] = entries]
  <2> DEFINE i == Lowest(FreeSlots(dir_handles))
  <2>1. FreeSlots(dir_handles) \in SUBSET Nat
    BY CommandAssumption DEF Slots, FreeSlots
  <2>2. i \in Slots /\ dir_handles[i] = Null
    BY <1>2, <2>1, LowestIsIn DEF FreeSlots
  <2>3. \E entries : dir_handles' = [dir_handles EXCEPT ![i] = entries]
    BY <1>2 DEF cmd_read_dir
  <2> QED
    BY <2>2, <2>3
<1>3. ASSUME NEW m \in Modes, NEW d \in Dirs, cmd_read_dir(m, d)
      PROVE  /\ DirTable'
             /\ \A i \in Slots : dir_handles'[i] # dir_handles[i] => dir_handles[i] = Null
  <2>1. CASE UNCHANGED dir_handles
    BY <1>1, <2>1
  <2>2. CASE FreeSlots(dir_handles) # {} /\ ~UNCHANGED dir_handles
    <3>1. PICK i \in Slots : \E entries :
            /\ dir_handles[i] = Null
            /\ dir_handles' = [dir_handles EXCEPT ![i] = entries]
      BY <1>2, <1>3, <2>2
    <3> QED
      BY <3>1 DEF DirTable
  <2> QED
    BY <1>3, <2>1, <2>2 DEF cmd_read_dir
<1>4. ASSUME NEW h \in Handles, cmd_close_dir(h)
      PROVE  /\ DirTable'
             /\ \A i \in Slots : dir_handles'[i] # dir_handles[i]
                  => last' = <<"dir_close", i>>
  <2>1. CASE UNCHANGED dir_handles
    BY <1>1, <2>1
  <2>2. CASE ~UNCHANGED dir_handles
    <3>1. h \in Slots /\ dir_handles' = [dir_handles EXCEPT ![h] = Freed]
      BY <1>4, <2>2 DEF cmd_close_dir, ReadsBeyond
    <3>2. last' = <<"dir_close", h>>
      BY <1>4 DEF cmd_close_dir
    <3> QED
      BY <3>1, <3>2 DEF DirTable
  <2> QED
    BY <2>1, <2>2
<1>5. ASSUME \/ \E w \in BOOLEAN, f \in Files : cmd_storage_open(w, f)
             \/ \E h \in Handles : \/ cmd_storage_close(h) \/ cmd_read_byte(h)
                                   \/ cmd_read_sector(h)
             \/ \E h \in Handles, x \in Indexes : cmd_get_dir_entry(h, x)
      PROVE  UNCHANGED dir_handles
  BY <1>5 DEF cmd_storage_open, cmd_storage_close, cmd_read_byte, cmd_read_sector,
              cmd_get_dir_entry
<1> QED
  BY <1>1, <1>3, <1>4, <1>5 DEF Next

\* A command changes the table of files by an open in a free slot or by a close,
\* and loses a stream only if every slot is taken.
LEMMA FileStep ==
  ASSUME IInv, Next
  PROVE  /\ \A i \in Slots : file_handles'[i] # file_handles[i] =>
              \/ /\ last'[1] = "open" /\ file_handles[i] = Null
                 /\ ret'.code = RET_SUCCESS /\ ret'.data = <<i>>
              \/ last' = <<"close", i>> /\ file_handles'[i] = Null
         /\ \A s \in Streams : ~Lost(s) /\ Lost(s)' => FreeSlots(file_handles) = {}
<1> DEFINE Goal ==
      /\ \A i \in Slots : file_handles'[i] # file_handles[i] =>
           \/ /\ last'[1] = "open" /\ file_handles[i] = Null
              /\ ret'.code = RET_SUCCESS /\ ret'.data = <<i>>
           \/ last' = <<"close", i>> /\ file_handles'[i] = Null
      /\ \A s \in Streams : ~Lost(s) /\ Lost(s)' => FreeSlots(file_handles) = {}
<1> SUFFICES Goal
  OBVIOUS
<1>1. ASSUME UNCHANGED file_handles,
             \A s \in Streams : stream'[s] = Null <=> stream[s] = Null
      PROVE  Goal
  BY <1>1 DEF Lost
<1>2. ASSUME NEW w \in BOOLEAN, NEW f \in Files, cmd_storage_open(w, f) PROVE Goal
  <2>1. CASE ~CanOpen \/ (content[f] = Absent /\ ~w)
    BY <1>1, <1>2, <2>1 DEF cmd_storage_open
  <2>2. CASE CanOpen /\ (content[f] # Absent \/ w)
    <3> DEFINE s   == Lowest({t \in Streams : stream[t] = Null})
               i   == Lowest(FreeSlots(file_handles))
               opened == [file |-> f, writing |-> w, buffer |-> Absent, pos |-> 0]
    <3>1. s \in Streams /\ stream[s] = Null
      <4>1. {t \in Streams : stream[t] = Null} \in SUBSET Nat
        BY CommandAssumption DEF Streams
      <4> QED
        BY <2>2, <4>1, LowestIsIn DEF CanOpen
    <3>2. FreeSlots(file_handles) # {} => i \in Slots /\ file_handles[i] = Null
      <4>1. FreeSlots(file_handles) \in SUBSET Nat
        BY CommandAssumption DEF Slots, FreeSlots
      <4> QED
        BY <4>1, LowestIsIn DEF FreeSlots
    <3>3. /\ stream' = [stream EXCEPT ![s] = opened]
          /\ IF FreeSlots(file_handles) # {}
             THEN /\ file_handles' = [file_handles EXCEPT ![i] = s]
                  /\ ret' = [length |-> 2, code |-> RET_SUCCESS, data |-> <<i>>]
             ELSE UNCHANGED file_handles
          /\ last' = <<"open", f>>
      BY <1>2, <2>2 DEF cmd_storage_open, Answer
    <3>4. last'[1] = "open"
      BY <3>3
    <3> HIDE DEF s, i, opened
    <3>5. \A k \in Slots : file_handles'[k] # file_handles[k] =>
            /\ file_handles[k] = Null
            /\ ret'.code = RET_SUCCESS /\ ret'.data = <<k>>
      BY <3>2, <3>3 DEF IInv, Types
    <3>6. ASSUME NEW t \in Streams, ~Lost(t), Lost(t)', FreeSlots(file_handles) # {}
          PROVE  FALSE
      <4>1. CASE t = s
        BY <3>2, <3>3, <3>6, <4>1 DEF Lost, IInv, Types
      <4>2. CASE t # s
        <5>1. stream'[t] = stream[t]
          BY <3>3, <4>2 DEF IInv, Types
        <5>2. PICK k \in Slots : file_handles[k] = t
          BY <3>6, <5>1 DEF Lost
        <5>3. file_handles'[k] = t
          BY <3>2, <3>3, <5>2, NullAssumption DEF IInv, Types
        <5> QED
          BY <3>6, <5>3 DEF Lost
      <4> QED
        BY <4>1, <4>2
    <3> QED
      BY <3>4, <3>5, <3>6
  <2> QED
    BY <2>1, <2>2
<1>3. ASSUME NEW h \in Handles, cmd_storage_close(h) PROVE Goal
  <2>1. CASE get_file_handle(h) = Null
    BY <1>1, <1>3, <2>1 DEF cmd_storage_close
  <2>2. CASE get_file_handle(h) # Null
    <3>1. /\ h \in Slots /\ file_handles[h] # Null
          /\ stream' = [stream EXCEPT ![file_handles[h]] = Null]
          /\ file_handles' = [file_handles EXCEPT ![h] = Null]
          /\ last' = <<"close", h>>
      BY <1>3, <2>2 DEF cmd_storage_close, get_file_handle
    <3>2. ASSUME NEW t \in Streams, ~Lost(t), Lost(t)' PROVE FALSE
      <4>1. stream'[t] # Null /\ t # file_handles[h] /\ stream[t] # Null
        BY <3>1, <3>2 DEF Lost, IInv, Types
      <4>2. PICK k \in Slots : file_handles[k] = t
        BY <3>2, <4>1 DEF Lost
      <4>3. file_handles'[k] = t
        BY <3>1, <4>1, <4>2 DEF IInv, Types
      <4> QED
        BY <3>2, <4>3 DEF Lost
    <3> QED
      BY <3>1, <3>2 DEF IInv, Types
  <2> QED
    BY <2>1, <2>2
<1>4. ASSUME NEW h \in Slots, file_handles[h] # Null, NEW n \in Nat,
             Consume(file_handles[h], Len(Upcoming(file_handles[h], n))),
             UNCHANGED <<content, file_handles>>
      PROVE  Goal
  <2>1. IInv'
    BY <1>4, ConsumeIsTyped
  <2>2. file_handles[h] \in Streams /\ stream[file_handles[h]] # Null
    BY <1>4 DEF IInv, Types, SlotsHoldOpenStreams
  <2>3. stream'[file_handles[h]] # Null
    BY <1>4, <2>1 DEF IInv, SlotsHoldOpenStreams
  <2>4. \A t \in Streams \ {file_handles[h]} : stream'[t] = stream[t]
    BY <1>4 DEF Consume, IInv, Types
  <2> QED
    BY <1>1, <1>4, <2>2, <2>3, <2>4
<1>5. ASSUME NEW h \in Handles, cmd_read_byte(h) \/ cmd_read_sector(h) PROVE Goal
  <2>1. CASE get_file_handle(h) = Null
    BY <1>1, <1>5, <2>1 DEF cmd_read_byte, cmd_read_sector
  <2>2. CASE get_file_handle(h) # Null
    <3>1. h \in Slots /\ file_handles[h] # Null
      BY <2>2 DEF get_file_handle
    <3>2. \E n \in Nat : /\ Consume(file_handles[h], Len(Upcoming(file_handles[h], n)))
                         /\ UNCHANGED <<content, file_handles>>
      BY <1>5, <2>2, CommandAssumption DEF cmd_read_byte, cmd_read_sector
    <3> QED
      BY <1>4, <3>1, <3>2
  <2> QED
    BY <2>1, <2>2
<1>6. ASSUME \/ \E m \in Modes, d \in Dirs : cmd_read_dir(m, d)
             \/ \E h \in Handles, x \in Indexes : cmd_get_dir_entry(h, x)
             \/ \E h \in Handles : cmd_close_dir(h)
      PROVE  UNCHANGED <<stream, file_handles>>
  BY <1>6 DEF cmd_read_dir, cmd_get_dir_entry, cmd_close_dir
<1> QED
  BY <1>1, <1>2, <1>3, <1>5, <1>6 DEF Next

\* A handle keeps its stream or its list until its guest closes it, an open
\* answers with a slot that was free, and only a full table loses a stream.
THEOREM HandlesStay == Spec => HandlesStayPut
<1>1. Init => DirTable
  BY DEF Init, DirTable
<1>2. DirTable /\ [Next]_vars => DirTable'
  <2>1. DirTable /\ UNCHANGED vars => DirTable'
    BY DEF DirTable, vars
  <2> QED
    BY <2>1, DirStep
<1>3. IInv /\ DirTable /\ [Next]_vars =>
        [/\ \A i \in Slots :
              /\ file_handles'[i] # file_handles[i] =>
                   \/ /\ last'[1] = "open" /\ file_handles[i] = Null
                      /\ ret'.code = RET_SUCCESS /\ ret'.data = <<i>>
                   \/ last' = <<"close", i>> /\ file_handles'[i] = Null
              /\ dir_handles'[i] # dir_handles[i] =>
                   dir_handles[i] = Null \/ last' = <<"dir_close", i>>
         /\ \A s \in Streams : ~Lost(s) /\ Lost(s)' => FreeSlots(file_handles) = {}]_vars
  BY FileStep, DirStep
<1> QED
  BY <1>1, <1>2, <1>3, InitIInv, NextIInv, PTL DEF Spec, HandlesStayPut
-----------------------------------------------------------------------------
(* The listings *)

\* What one more position adds to the elements that were picked.
PickNext(list, positions, f, k) ==
  IF k = 0 THEN <<>>
  ELSE IF k \in positions THEN Append(f[k - 1], list[k])
  ELSE f[k - 1]

\* s has the elements of the list at the positions up to n, in their order.
PickedUpTo(s, list, positions, n) ==
  /\ s \in Seq(Entry)
  /\ \A j \in 1 .. Len(s) : \E i \in 1 .. n : i \in positions /\ s[j] = list[i]
  /\ \A i \in 1 .. n : i \in positions => \E j \in 1 .. Len(s) : s[j] = list[i]
  /\ \A j, k \in 1 .. Len(s), a, b \in 1 .. Len(list) :
       j < k /\ s[j] = list[a] /\ s[k] = list[b] => a < b

\* No element comes twice.
Distinct(list) == \A i, j \in 1 .. Len(list) : list[i] = list[j] => i = j

\* The recursive function of Picked exists, up to any position.
LEMMA PicksExist ==
  ASSUME NEW list, NEW positions, NEW n \in Nat
  PROVE  \E f : f = [k \in 0 .. n |-> PickNext(list, positions, f, k)]
<1> DEFINE Picks(f, m) == f = [k \in 0 .. m |-> PickNext(list, positions, f, k)]
           Without == {m \in Nat : ~ \E f : Picks(f, m)}
<1>1. ASSUME Without # {} PROVE FALSE
  <2>1. PICK m \in Without : \A y \in Without : m <= y
    <3>1. Without \in SUBSET Nat
      OBVIOUS
    <3> HIDE DEF Without
    <3> QED
      BY <1>1, <3>1, LeastOfNats
  <2>2. m # 0
    <3>1. Picks([k \in 0 .. 0 |-> <<>>], 0)
      BY DEF PickNext
    <3> QED
      BY <3>1, <2>1
  <2>3. m \in Nat /\ m - 1 \in Nat
    BY <2>1, <2>2
  <2>4. PICK f : Picks(f, m - 1)
    <3> HIDE DEF Picks
    <3>1. m - 1 \notin Without
      BY <2>3, <2>1
    <3> QED
      BY <2>3, <3>1
  <2> DEFINE g == [k \in 0 .. m |-> IF k = m THEN PickNext(list, positions, f, k) ELSE f[k]]
  <2>5. \A k \in 0 .. m : g[k] = PickNext(list, positions, g, k)
    <3> SUFFICES ASSUME NEW k \in 0 .. m PROVE g[k] = PickNext(list, positions, g, k)
      OBVIOUS
    <3>1. k # 0 => g[k - 1] = f[k - 1]
      <4>1. k # 0 => k - 1 \in 0 .. m /\ k - 1 # m
        BY <2>3
      <4> QED
        BY <4>1
    <3>2. PickNext(list, positions, g, k) = PickNext(list, positions, f, k)
      <4> HIDE DEF g
      <4> QED
        BY <3>1, Zenon DEF PickNext
    <3>3. k # m => f[k] = PickNext(list, positions, f, k)
      <4>1. k # m => k \in 0 .. m - 1
        BY <2>3
      <4> QED
        BY <2>4, <4>1
    <3>4. g[k] = IF k = m THEN PickNext(list, positions, f, k) ELSE f[k]
      OBVIOUS
    <3> HIDE DEF g
    <3> QED
      BY <3>2, <3>3, <3>4, Zenon
  <2>6. Picks(g, m)
    BY <2>5
  <2> QED
    BY <2>6, <2>1
<1> QED
  BY <1>1

\* One more position keeps the picked elements in order.
LEMMA PickNextInOrder ==
  ASSUME NEW list \in Seq(Entry), Distinct(list), NEW positions,
         NEW n \in 1 .. Len(list), NEW s, PickedUpTo(s, list, positions, n - 1)
  PROVE  PickedUpTo(IF n \in positions THEN Append(s, list[n]) ELSE s, list, positions, n)
<1>1. /\ Len(list) \in Nat /\ n \in Nat /\ n >= 1 /\ n <= Len(list) /\ list[n] \in Entry
      /\ s \in Seq(Entry) /\ Len(s) \in Nat
  BY LenProperties, ElementOfSeq DEF PickedUpTo
<1>2. \A i \in 1 .. n : i \in 1 .. n - 1 \/ i = n
  BY <1>1
<1>3. \A i \in 1 .. n - 1 : i \in 1 .. n /\ i \in 1 .. Len(list) /\ i < n
  BY <1>1
<1>4. CASE n \notin positions
  BY <1>2, <1>3, <1>4, Zenon DEF PickedUpTo
<1>5. CASE n \in positions
  <2> DEFINE t == Append(s, list[n])
  <2>1. /\ t \in Seq(Entry) /\ Len(t) = Len(s) + 1 /\ t[Len(s) + 1] = list[n]
        /\ \A j \in 1 .. Len(s) : t[j] = s[j]
    BY <1>1, AppendProperties
  <2> HIDE DEF t
  <2>2. /\ Len(s) + 1 \in 1 .. Len(t)
        /\ \A j \in 1 .. Len(s) : j \in 1 .. Len(t)
        /\ \A j \in 1 .. Len(t) : j \in 1 .. Len(s) \/ j = Len(s) + 1
    BY <1>1, <2>1
  <2>3. ASSUME NEW j \in 1 .. Len(t)
        PROVE  \E i \in 1 .. n : i \in positions /\ t[j] = list[i]
    <3>1. CASE j \in 1 .. Len(s)
      <4>1. PICK i \in 1 .. n - 1 : i \in positions /\ s[j] = list[i]
        BY <3>1 DEF PickedUpTo
      <4> QED
        BY <1>3, <2>1, <3>1, <4>1, Zenon
    <3>2. CASE j = Len(s) + 1
      BY <1>1, <1>5, <2>1, <3>2
    <3> QED
      BY <2>2, <3>1, <3>2
  <2>4. ASSUME NEW i \in 1 .. n, i \in positions
        PROVE  \E j \in 1 .. Len(t) : t[j] = list[i]
    <3>1. CASE i = n
      BY <2>1, <2>2, <3>1, Zenon
    <3>2. CASE i \in 1 .. n - 1
      <4>1. PICK j \in 1 .. Len(s) : s[j] = list[i]
        BY <2>4, <3>2 DEF PickedUpTo
      <4> QED
        BY <2>1, <2>2, <4>1, Zenon
    <3> QED
      BY <1>2, <3>1, <3>2, Zenon
  <2>5. ASSUME NEW j \in 1 .. Len(t), NEW k \in 1 .. Len(t),
               NEW a \in 1 .. Len(list), NEW b \in 1 .. Len(list),
               j < k, t[j] = list[a], t[k] = list[b]
        PROVE  a < b
    <3>1. j \in 1 .. Len(s)
      BY <1>1, <2>1, <2>5
    <3>2. s[j] = list[a]
      BY <2>1, <2>5, <3>1, Zenon
    <3>3. CASE k \in 1 .. Len(s)
      <4>1. s[k] = list[b]
        BY <2>1, <2>5, <3>3, Zenon
      <4> QED
        BY <2>5, <3>1, <3>2, <3>3, <4>1, Zenon DEF PickedUpTo
    <3>4. CASE k = Len(s) + 1
      <4>1. list[b] = list[n]
        BY <2>1, <2>5, <3>4, Zenon
      <4>2. b = n
        BY <4>1, Zenon DEF Distinct
      <4>3. PICK i \in 1 .. n - 1 : s[j] = list[i]
        BY <3>1 DEF PickedUpTo
      <4>4. a = i
        BY <1>3, <3>2, <4>3, Zenon DEF Distinct
      <4> QED
        BY <1>3, <4>2, <4>3, <4>4, Zenon
    <3> QED
      BY <2>2, <3>3, <3>4, Zenon
  <2>6. PickedUpTo(t, list, positions, n)
    BY <2>1, <2>3, <2>4, <2>5, Zenon DEF PickedUpTo
  <2> QED
    BY <1>5, <2>6, Zenon DEF t
<1> QED
  BY <1>4, <1>5

\* Picked has the elements at the positions, in their order.
LEMMA PickedInOrder ==
  ASSUME NEW list \in Seq(Entry), Distinct(list), NEW positions
  PROVE  PickedUpTo(Picked(list, positions), list, positions, Len(list))
<1>1. PICK n \in Nat : n = Len(list)
  BY LenProperties
<1> DEFINE upTo == CHOOSE f : f = [k \in 0 .. n |-> PickNext(list, positions, f, k)]
<1>2. upTo = [k \in 0 .. n |-> PickNext(list, positions, upTo, k)]
  BY PicksExist, Zenon
<1>3. Picked(list, positions) = upTo[n]
  BY <1>1, Zenon DEF Picked, PickNext
<1> HIDE DEF upTo
<1>4. upTo[0] = <<>>
  <2>1. upTo[0] = PickNext(list, positions, upTo, 0)
    <3>1. 0 \in 0 .. n
      OBVIOUS
    <3> QED
      BY <1>2, <3>1
  <2> QED
    BY <2>1, Zenon DEF PickNext
<1>5. \A k \in 1 .. n :
        upTo[k] = IF k \in positions THEN Append(upTo[k - 1], list[k]) ELSE upTo[k - 1]
  <2> SUFFICES ASSUME NEW k \in 1 .. n
               PROVE  upTo[k] = IF k \in positions THEN Append(upTo[k - 1], list[k])
                                ELSE upTo[k - 1]
    OBVIOUS
  <2>1. k \in 0 .. n /\ k # 0
    OBVIOUS
  <2>2. upTo[k] = PickNext(list, positions, upTo, k)
    BY <1>2, <2>1
  <2> QED
    BY <2>1, <2>2, Zenon DEF PickNext
<1> DEFINE Wrong == {k \in 0 .. n : ~PickedUpTo(upTo[k], list, positions, k)}
<1>6. ASSUME Wrong # {} PROVE FALSE
  <2>1. PICK m \in Wrong : \A y \in Wrong : m <= y
    <3>1. Wrong \in SUBSET Nat
      OBVIOUS
    <3> HIDE DEF Wrong
    <3> QED
      BY <1>6, <3>1, LeastOfNats
  <2>2. m \in 0 .. n /\ ~PickedUpTo(upTo[m], list, positions, m)
    BY <2>1
  <2>3. m # 0
    <3>1. <<>> \in Seq(Entry) /\ Len(<<>>) = 0
      BY EmptySeq
    <3>2. 1 .. 0 = {}
      OBVIOUS
    <3>3. PickedUpTo(<<>>, list, positions, 0)
      BY <3>1, <3>2 DEF PickedUpTo
    <3> QED
      BY <1>4, <2>2, <3>3
  <2>4. m \in 1 .. n /\ m - 1 \in 0 .. n /\ ~(m <= m - 1)
    BY <2>2, <2>3
  <2>5. PickedUpTo(upTo[m - 1], list, positions, m - 1)
    BY <2>1, <2>4
  <2>6. PickedUpTo(IF m \in positions THEN Append(upTo[m - 1], list[m]) ELSE upTo[m - 1],
                   list, positions, m)
    BY <1>1, <2>4, <2>5, PickNextInOrder
  <2> QED
    BY <1>5, <2>2, <2>4, <2>6, Zenon
<1> QED
  BY <1>1, <1>3, <1>6

\* The list has the kept ones of all entries, the directories first when the
\* mode asks for it, and each kind in the order of scandir.
InOrder(list, all, mode, d) ==
  /\ list \in Seq(Entry) /\ all \in Seq(Entry) /\ Distinct(all)
  /\ \A j \in 1 .. Len(list) : \E i \in 1 .. Len(all) : list[j] = all[i]
  /\ \A i \in 1 .. Len(all) :
       Kept(mode, d, all[i]) <=> \E j \in 1 .. Len(list) : list[j] = all[i]
  /\ \A i, j \in 1 .. Len(list) :
       i < j => /\ mode = 0 => (list[j].is_dir => list[i].is_dir)
                /\ list[i].is_dir = list[j].is_dir =>
                     \A a, b \in 1 .. Len(all) :
                       list[i] = all[a] /\ list[j] = all[b] => a < b

\* What an open lists is in order.
LEMMA EntriesInOrder ==
  ASSUME NEW mode \in Modes, NEW d \in Dirs, Listing[d] # Absent
  PROVE  InOrder(Entries(mode, d), Listing[d], mode, d)
<1> DEFINE all   == Listing[d]
           list  == Entries(mode, d)
           kept  == KeptOf(mode, d)
           dirs  == DirsOf(mode, d)
           files == kept \ dirs
<1>1. all \in Seq(Entry) /\ Distinct(all) /\ DOMAIN all = 1 .. Len(all) /\ Len(all) \in Nat
  BY ListingAssumption, LenProperties DEF Distinct
<1>2. /\ \A i \in 1 .. Len(all) : i \in kept <=> Kept(mode, d, all[i])
      /\ \A i \in 1 .. Len(all) : i \in dirs <=> i \in kept /\ all[i].is_dir
  BY <1>1, Zenon DEF KeptOf, DirsOf
<1> HIDE DEF kept, dirs
<1>3. CASE mode % 4 # 0
  <2>1. list = Picked(all, kept)
    BY <1>3, Zenon DEF Entries, kept
  <2>2. PickedUpTo(list, all, kept, Len(all))
    BY <1>1, <2>1, PickedInOrder, Zenon
  <2>3. mode # 0
    BY <1>3
  <2> HIDE DEF all, list
  <2>4. ASSUME NEW i \in 1 .. Len(all)
        PROVE  i \in kept <=> \E j \in 1 .. Len(list) : list[j] = all[i]
    <3>1. i \in kept => \E j \in 1 .. Len(list) : list[j] = all[i]
      BY <2>2, Zenon DEF PickedUpTo
    <3>2. ASSUME NEW j \in 1 .. Len(list), list[j] = all[i] PROVE i \in kept
      <4>1. PICK k \in 1 .. Len(all) : k \in kept /\ list[j] = all[k]
        BY <2>2, Zenon DEF PickedUpTo
      <4> QED
        BY <1>1, <3>2, <4>1, Zenon DEF Distinct
    <3> QED
      BY <3>1, <3>2, Zenon
  <2>5. \A j \in 1 .. Len(list) : \E i \in 1 .. Len(all) : list[j] = all[i]
    BY <2>2, Zenon DEF PickedUpTo
  <2> QED
    <3>1. \A i, j \in 1 .. Len(list), a, b \in 1 .. Len(all) :
            i < j /\ list[i] = all[a] /\ list[j] = all[b] => a < b
      BY <2>2, Zenon DEF PickedUpTo
    <3>2. list \in Seq(Entry)
      BY <2>2, Zenon DEF PickedUpTo
    <3>3. InOrder(list, all, mode, d)
      BY <1>1, <1>2, <2>3, <2>4, <2>5, <3>1, <3>2, Zenon DEF InOrder
    <3> QED
      BY <3>3 DEF list, all
<1>4. CASE mode % 4 = 0
  <2> DEFINE first == Picked(all, dirs)
             rest  == Picked(all, files)
             f     == Len(first)
             r     == Len(rest)
  <2>1. list = first \o rest
    BY <1>4, Zenon DEF Entries, kept, dirs
  <2>2. PickedUpTo(first, all, dirs, Len(all)) /\ PickedUpTo(rest, all, files, Len(all))
    BY <1>1, PickedInOrder, Zenon
  <2> HIDE DEF first, rest, list, all, files
  <2>3. first \in Seq(Entry) /\ rest \in Seq(Entry) /\ f \in Nat /\ r \in Nat
    BY <2>2, LenProperties DEF PickedUpTo
  <2>4. /\ list \in Seq(Entry) /\ Len(list) = f + r
        /\ \A j \in 1 .. f + r : list[j] = IF j <= f THEN first[j] ELSE rest[j - f]
    BY <2>1, <2>3, ConcatProperties
  <2> HIDE DEF f, r
  <2>5. /\ \A j \in 1 .. f : j \in 1 .. f + r /\ list[j] = first[j]
        /\ \A j \in 1 .. r : f + j \in 1 .. f + r /\ list[f + j] = rest[j]
        /\ \A j \in 1 .. f + r : j \in 1 .. f \/ \E k \in 1 .. r : j = f + k
    <3>1. ASSUME NEW j \in 1 .. f PROVE j \in 1 .. f + r /\ list[j] = first[j]
      BY <2>3, <2>4
    <3>2. ASSUME NEW j \in 1 .. r PROVE f + j \in 1 .. f + r /\ list[f + j] = rest[j]
      <4>1. f + j \in 1 .. f + r /\ ~(f + j <= f) /\ (f + j) - f = j
        BY <2>3
      <4> QED
        BY <2>4, <4>1
    <3>3. ASSUME NEW j \in 1 .. f + r, j \notin 1 .. f PROVE \E k \in 1 .. r : j = f + k
      <4>1. j - f \in 1 .. r /\ j = f + (j - f)
        BY <2>3, <3>3
      <4> QED
        BY <4>1, Zenon
    <3> QED
      BY <3>1, <3>2, <3>3, Zenon
  <2>6. /\ \A j \in 1 .. f : list[j].is_dir /\ \E i \in 1 .. Len(all) : i \in dirs /\ list[j] = all[i]
        /\ \A j \in 1 .. r : /\ ~list[f + j].is_dir
                             /\ \E i \in 1 .. Len(all) : i \in files /\ list[f + j] = all[i]
    <3>1. ASSUME NEW j \in 1 .. f
          PROVE  list[j].is_dir /\ \E i \in 1 .. Len(all) : i \in dirs /\ list[j] = all[i]
      <4>1. PICK i \in 1 .. Len(all) : i \in dirs /\ first[j] = all[i]
        BY <2>2, Zenon DEF PickedUpTo, f
      <4> QED
        BY <1>2, <2>5, <4>1, Zenon
    <3>2. ASSUME NEW j \in 1 .. r
          PROVE  /\ ~list[f + j].is_dir
                 /\ \E i \in 1 .. Len(all) : i \in files /\ list[f + j] = all[i]
      <4>1. PICK i \in 1 .. Len(all) : i \in files /\ rest[j] = all[i]
        BY <2>2, Zenon DEF PickedUpTo, r
      <4> QED
        BY <1>2, <2>5, <4>1, Zenon DEF files
    <3> QED
      BY <3>1, <3>2, Zenon
  <2>7. ASSUME NEW i \in 1 .. Len(all)
        PROVE  i \in kept <=> \E j \in 1 .. f + r : list[j] = all[i]
    <3>1. ASSUME i \in kept PROVE \E j \in 1 .. f + r : list[j] = all[i]
      <4>1. CASE i \in dirs
        <5>1. PICK j \in 1 .. f : first[j] = all[i]
          BY <2>2, <4>1, Zenon DEF PickedUpTo, f
        <5> QED
          BY <2>5, <5>1, Zenon
      <4>2. CASE i \in files
        <5>1. PICK j \in 1 .. r : rest[j] = all[i]
          BY <2>2, <4>2, Zenon DEF PickedUpTo, r
        <5> QED
          BY <2>5, <5>1, Zenon
      <4> QED
        BY <3>1, <4>1, <4>2 DEF files
    <3>2. ASSUME NEW j \in 1 .. f + r, list[j] = all[i] PROVE i \in kept
      <4>1. PICK k \in 1 .. Len(all) : k \in kept /\ list[j] = all[k]
        <5>1. CASE j \in 1 .. f
          BY <1>2, <2>6, <5>1, Zenon
        <5>2. CASE \E k \in 1 .. r : j = f + k
          BY <2>6, <5>2, Zenon DEF files
        <5> QED
          BY <2>5, <5>1, <5>2, Zenon
      <4> QED
        BY <1>1, <3>2, <4>1, Zenon DEF Distinct
    <3> QED
      BY <3>1, <3>2, Zenon
  <2>8. ASSUME NEW i \in 1 .. f + r, NEW j \in 1 .. f + r, i < j
        PROVE  /\ list[j].is_dir => list[i].is_dir
               /\ list[i].is_dir = list[j].is_dir =>
                    \A a, b \in 1 .. Len(all) : list[i] = all[a] /\ list[j] = all[b] => a < b
    <3>1. CASE i \in 1 .. f /\ j \in 1 .. f
      <4>1. ASSUME NEW a \in 1 .. Len(all), NEW b \in 1 .. Len(all),
                   list[i] = all[a], list[j] = all[b]
            PROVE  a < b
        <5>1. first[i] = all[a] /\ first[j] = all[b] /\ i \in 1 .. Len(first) /\ j \in 1 .. Len(first)
          BY <2>5, <3>1, <4>1, Zenon DEF f
        <5>2. \A g, h \in 1 .. Len(first), b1, b2 \in 1 .. Len(all) :
                g < h /\ first[g] = all[b1] /\ first[h] = all[b2] => b1 < b2
          BY <2>2, Zenon DEF PickedUpTo
        <5> QED
          BY <2>8, <5>1, <5>2
      <4> QED
        BY <2>6, <3>1, <4>1, Zenon
    <3>2. CASE i \in 1 .. f /\ \E k \in 1 .. r : j = f + k
      BY <2>6, <3>2, Zenon
    <3>3. ASSUME NEW k \in 1 .. r, i = f + k PROVE \E m \in 1 .. r : j = f + m /\ k < m
      <4>1. j - f \in 1 .. r /\ j = f + (j - f) /\ k < j - f
        BY <2>3, <2>8, <3>3
      <4> QED
        BY <4>1, Zenon
    <3>4. CASE \E k \in 1 .. r : i = f + k
      <4>1. PICK k \in 1 .. r, m \in 1 .. r : i = f + k /\ j = f + m /\ k < m
        BY <3>3, <3>4, Zenon
      <4>2. ASSUME NEW a \in 1 .. Len(all), NEW b \in 1 .. Len(all),
                   list[i] = all[a], list[j] = all[b]
            PROVE  a < b
        <5>1. rest[k] = all[a] /\ rest[m] = all[b] /\ k \in 1 .. Len(rest) /\ m \in 1 .. Len(rest)
          BY <2>5, <4>1, <4>2, Zenon DEF r
        <5>2. \A g, h \in 1 .. Len(rest), b1, b2 \in 1 .. Len(all) :
                g < h /\ rest[g] = all[b1] /\ rest[h] = all[b2] => b1 < b2
          BY <2>2, Zenon DEF PickedUpTo
        <5> QED
          BY <4>1, <5>1, <5>2
      <4> QED
        BY <2>6, <4>1, <4>2, Zenon
    <3> QED
      BY <2>5, <3>1, <3>2, <3>4, Zenon
  <2>9. ASSUME NEW j \in 1 .. f + r PROVE \E i \in 1 .. Len(all) : list[j] = all[i]
    <3>1. CASE j \in 1 .. f
      BY <2>6, <3>1, Zenon
    <3>2. CASE \E k \in 1 .. r : j = f + k
      BY <2>6, <3>2, Zenon
    <3> QED
      BY <2>5, <3>1, <3>2, Zenon
  <2> QED
    <3>1. InOrder(list, all, mode, d)
      <4>1. 1 .. Len(list) = 1 .. f + r /\ list \in Seq(Entry)
        BY <2>4
      <4>2. \A i \in 1 .. Len(all) :
              Kept(mode, d, all[i]) <=> \E j \in 1 .. Len(list) : list[j] = all[i]
        BY <1>2, <2>7, <4>1, Zenon
      <4>3. \A j \in 1 .. Len(list) : \E i \in 1 .. Len(all) : list[j] = all[i]
        BY <2>9, <4>1, Zenon
      <4>4. \A i, j \in 1 .. Len(list) :
              i < j => /\ list[j].is_dir => list[i].is_dir
                       /\ list[i].is_dir = list[j].is_dir =>
                            \A a, b \in 1 .. Len(all) :
                              list[i] = all[a] /\ list[j] = all[b] => a < b
        BY <2>8, <4>1, Zenon
      <4> QED
        BY <1>1, <4>1, <4>2, <4>3, <4>4, Zenon DEF InOrder
    <3> QED
      BY <3>1 DEF list, all
<1> QED
  BY <1>3, <1>4

\* The table has the entries of the directory that was opened last.
OpenedIsListed ==
  Opened =>
    /\ last[2] \in Modes /\ last[3] \in Dirs /\ Listing[last[3]] # Absent
    /\ dir_handles[ret.data[1]] = Entries(last[2], last[3])
    /\ ret.data[2] = Len(Entries(last[2], last[3]))

\* An open that has just been answered has its listing in its slot.
LEMMA OpenedStep ==
  ASSUME DirTable, Next PROVE OpenedIsListed'
<1>1. ASSUME NEW m \in Modes, NEW d \in Dirs, cmd_read_dir(m, d) PROVE OpenedIsListed'
  <2> SUFFICES ASSUME Opened' PROVE OpenedIsListed'
    BY DEF OpenedIsListed
  <2> DEFINE i       == Lowest(FreeSlots(dir_handles))
             fails   == Listing[d] = Absent \/ ~CanOpen
             entries == IF fails THEN <<>> ELSE Entries(m, d)
  <2>1. last' = <<"dir_open", m, d>>
    BY <1>1 DEF cmd_read_dir
  <2>2. FreeSlots(dir_handles) # {}
    <3> SUFFICES ASSUME FreeSlots(dir_handles) = {} PROVE FALSE
      OBVIOUS
    <3>1. ret' = [length |-> 1, code |-> ERR_TOO_MANY_OPEN_FILES, data |-> <<>>]
      BY <1>1, Zenon DEF cmd_read_dir, Fail, Answer
    <3>2. ret'.code = ERR_TOO_MANY_OPEN_FILES
      BY <3>1
    <3>3. ret'.code = RET_SUCCESS
      BY Zenon DEF Opened, RET_SUCCESS
    <3> QED
      BY <3>2, <3>3 DEF RET_SUCCESS, ERR_TOO_MANY_OPEN_FILES
  <2>3. /\ dir_handles' = (IF entries = <<>> THEN dir_handles
                           ELSE [dir_handles EXCEPT ![i] = entries])
        /\ ret' = [length |-> 4, code |-> RET_SUCCESS, data |-> <<i, Len(entries)>>]
    BY <1>1, <2>2, Zenon DEF cmd_read_dir, Answer
  <2>4. i \in Slots
    <3>1. FreeSlots(dir_handles) \in SUBSET Nat
      BY CommandAssumption DEF Slots, FreeSlots
    <3> QED
      BY <2>2, <3>1, LowestIsIn DEF FreeSlots
  <2> HIDE DEF i, entries
  <2>5. ret'.data[1] = i /\ ret'.data[2] = Len(entries)
    BY <2>3
  <2>6. Len(entries) > 0
    BY <2>5 DEF Opened
  <2>7. entries # <<>>
    BY <2>6
  <2>8. ~fails /\ entries = Entries(m, d)
    BY <2>7, Zenon DEF entries
  <2>9. dir_handles'[i] = entries
    BY <2>3, <2>4, <2>7 DEF DirTable
  <2>10. last'[2] = m /\ last'[3] = d
    BY <2>1
  <2> QED
    BY <2>5, <2>8, <2>9, <2>10, Zenon DEF OpenedIsListed
<1>2. ASSUME last'[1] # "dir_open" PROVE OpenedIsListed'
  BY <1>2 DEF OpenedIsListed, Opened
<1>3. ASSUME NEW w \in BOOLEAN, NEW f \in Files, cmd_storage_open(w, f)
      PROVE  last'[1] # "dir_open"
  BY <1>3 DEF cmd_storage_open
<1>4. ASSUME NEW h \in Handles, cmd_storage_close(h) \/ cmd_close_dir(h)
      PROVE  last'[1] # "dir_open"
  BY <1>4 DEF cmd_storage_close, cmd_close_dir
<1>5. ASSUME NEW h \in Handles, cmd_read_byte(h) \/ cmd_read_sector(h)
      PROVE  last'[1] # "dir_open"
  <2>1. last' = <<"byte", h>> \/ last' = <<"sector", h>>
    BY <1>5, Zenon DEF cmd_read_byte, cmd_read_sector
  <2> QED
    BY <2>1
<1>6. ASSUME NEW h \in Handles, NEW x \in Indexes, cmd_get_dir_entry(h, x)
      PROVE  last'[1] # "dir_open"
  <2>1. last' = <<"dir_entry", h, x>>
    BY <1>6, Zenon DEF cmd_get_dir_entry
  <2> QED
    BY <2>1
<1> QED
  BY <1>1, <1>2, <1>3, <1>4, <1>5, <1>6 DEF Next

\* The same, with the position of an entry as the property has it.
LEMMA PositionsInOrder ==
  ASSUME NEW mode, NEW d, NEW all, NEW list, InOrder(list, all, mode, d)
  PROVE  LET At(e) == CHOOSE i \in DOMAIN all : all[i] = e
         IN  /\ \A i \in DOMAIN all :
                  Kept(mode, d, all[i]) <=> \E j \in DOMAIN list : list[j] = all[i]
             /\ \A i, j \in DOMAIN list :
                  i < j => /\ mode = 0 => (list[j].is_dir => list[i].is_dir)
                           /\ list[i].is_dir = list[j].is_dir => At(list[i]) < At(list[j])
<1> DEFINE At(e) == CHOOSE i \in DOMAIN all : all[i] = e
<1>1. /\ list \in Seq(Entry) /\ all \in Seq(Entry) /\ Distinct(all)
      /\ \A j \in 1 .. Len(list) : \E i \in 1 .. Len(all) : list[j] = all[i]
      /\ \A i \in 1 .. Len(all) :
           Kept(mode, d, all[i]) <=> \E j \in 1 .. Len(list) : list[j] = all[i]
      /\ \A i, j \in 1 .. Len(list) :
           i < j => /\ mode = 0 => (list[j].is_dir => list[i].is_dir)
                    /\ list[i].is_dir = list[j].is_dir =>
                         \A a, b \in 1 .. Len(all) :
                           list[i] = all[a] /\ list[j] = all[b] => a < b
  BY Zenon DEF InOrder
<1>2. DOMAIN all = 1 .. Len(all) /\ DOMAIN list = 1 .. Len(list)
  BY <1>1, LenProperties
<1>3. ASSUME NEW a \in DOMAIN all PROVE At(all[a]) = a
  <2>1. \A i \in DOMAIN all : all[i] = all[a] => i = a
    BY <1>1, <1>2, Zenon DEF Distinct
  <2> QED
    BY <2>1, Zenon
<1>4. ASSUME NEW i \in DOMAIN list, NEW j \in DOMAIN list, i < j,
             list[i].is_dir = list[j].is_dir
      PROVE  At(list[i]) < At(list[j])
  <2>1. PICK a \in DOMAIN all, b \in DOMAIN all : list[i] = all[a] /\ list[j] = all[b]
    <3>1. \A k \in DOMAIN list : \E a \in DOMAIN all : list[k] = all[a]
      BY <1>1, <1>2, Zenon
    <3> QED
      BY <3>1, Zenon
  <2>2. a < b
    BY <1>1, <1>2, <1>4, <2>1, Zenon
  <2>3. At(list[i]) = a /\ At(list[j]) = b
    <3> HIDE DEF At
    <3> QED
      BY <1>3, <2>1, Zenon
  <2> QED
    BY <2>2, <2>3, Zenon
<1> HIDE DEF At
<1> QED
  BY <1>1, <1>2, <1>4, Zenon DEF At

\* A listing has the kept entries of the directory, as many as the answer says,
\* with the directories first when no mode bit is set and each kind in
\* alphabetical order.
THEOREM ListingsAreOrdered == Spec => []ListingIsOrdered
<1>1. Init => DirTable /\ OpenedIsListed
  BY DEF Init, DirTable, OpenedIsListed, Opened
<1>2. DirTable /\ OpenedIsListed /\ [Next]_vars => DirTable' /\ OpenedIsListed'
  <2>1. DirTable /\ OpenedIsListed /\ UNCHANGED vars => DirTable' /\ OpenedIsListed'
    BY DEF DirTable, OpenedIsListed, Opened, vars
  <2> QED
    BY <2>1, DirStep, OpenedStep
<1>3. OpenedIsListed => ListingIsOrdered
  <2> SUFFICES ASSUME OpenedIsListed, Opened PROVE ListingIsOrdered
    BY Zenon DEF ListingIsOrdered
  <2> DEFINE list == dir_handles[ret.data[1]]
  <2>1. /\ last[2] \in Modes /\ last[3] \in Dirs /\ Listing[last[3]] # Absent
        /\ list = Entries(last[2], last[3]) /\ Len(list) = ret.data[2]
    BY Zenon DEF OpenedIsListed
  <2>2. InOrder(list, Listing[last[3]], last[2], last[3])
    <3> HIDE DEF list
    <3> QED
      BY <2>1, EntriesInOrder, Zenon
  <2> DEFINE all == Listing[last[3]]
             At(e) == CHOOSE i \in DOMAIN all : all[i] = e
  <2>3. /\ \A i \in DOMAIN all :
             Kept(last[2], last[3], all[i]) <=> \E j \in DOMAIN list : list[j] = all[i]
        /\ \A i, j \in DOMAIN list :
             i < j => /\ last[2] = 0 => (list[j].is_dir => list[i].is_dir)
                      /\ list[i].is_dir = list[j].is_dir => At(list[i]) < At(list[j])
    <3>1. InOrder(list, all, last[2], last[3])
      BY <2>2
    <3> HIDE DEF list, all
    <3> QED
      BY <3>1, PositionsInOrder, SMTT(30)
  <2> QED
    BY <2>1, <2>3, Zenon DEF ListingIsOrdered
<1> QED
  BY <1>1, <1>2, <1>3, PTL DEF Spec
=============================================================================
