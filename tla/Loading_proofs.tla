--------------------------- MODULE Loading_proofs ---------------------------
(***************************************************************************)
(* The two ways to load a program, for all sizes of sectors, blocks, rings *)
(* and files: a block read stores the bytes it was asked for, and an       *)
(* upload those of the file, through one FIFO for both directions.         *)
(***************************************************************************)
EXTENDS Loading, SequenceTheorems, TLAPS

-----------------------------------------------------------------------------
(* The block read *)

\* The stream has moved on by the bytes that were stored; what was asked for
\* is what was read and what is left of SIZE, and at the end what was asked for
\* or the rest of the file.
DiskInv ==
  /\ length \in Nat /\ start \in 0 .. length /\ asked \in Nat
  /\ pos \in start .. length /\ SIZE \in Nat
  /\ pc \in {"read_next_block", "done"}
  /\ ROS4 = pos - start
  /\ dest = [i \in 1 .. pos - start |-> start + i]
  /\ pc = "read_next_block" => SIZE + ROS4 = asked
  /\ pc = "done" =>
       /\ pos = start + Disk!Available
       /\ X = Disk!SUCCESS => SIZE = ROS4
       /\ X # Disk!SUCCESS => SIZE + ROS4 = asked

\* The bytes of the file up to a position, and some more.
LEMMA BytesGoOn ==
  ASSUME NEW a \in Nat, NEW b \in Nat, NEW n \in Nat, a <= b
  PROVE  [i \in 1 .. b - a |-> a + i] \o [i \in 1 .. n |-> b + i]
           = [i \in 1 .. (b + n) - a |-> a + i]
<1> DEFINE s == [i \in 1 .. b - a |-> a + i]
           t == [i \in 1 .. n |-> b + i]
           u == [i \in 1 .. (b + n) - a |-> a + i]
<1>1. s \in Seq(Nat) /\ Len(s) = b - a
  <2>1. b - a \in Nat /\ \A i \in 1 .. b - a : a + i \in Nat
    OBVIOUS
  <2> QED
    BY <2>1, IsASeq, LenProperties
<1>2. t \in Seq(Nat) /\ Len(t) = n
  <2>1. \A i \in 1 .. n : b + i \in Nat
    OBVIOUS
  <2> QED
    BY <2>1, IsASeq, LenProperties
<1>3. u \in Seq(Nat) /\ Len(u) = (b + n) - a
  <2>1. (b + n) - a \in Nat /\ \A i \in 1 .. (b + n) - a : a + i \in Nat
    OBVIOUS
  <2> QED
    BY <2>1, IsASeq, LenProperties
<1>4. s \o t \in Seq(Nat) /\ Len(s \o t) = Len(s) + Len(t)
  BY <1>1, <1>2, ConcatProperties
<1>5. \A i \in 1 .. Len(s) + Len(t) :
        (s \o t)[i] = IF i <= Len(s) THEN s[i] ELSE t[i - Len(s)]
  BY <1>1, <1>2, ConcatProperties
<1>6. \A i \in 1 .. Len(u) : (s \o t)[i] = u[i]
  <2> SUFFICES ASSUME NEW i \in 1 .. (b + n) - a
               PROVE  (s \o t)[i] = a + i
    BY <1>3
  <2>1. i \in 1 .. Len(s) + Len(t)
    BY <1>1, <1>2
  <2>2. CASE i <= b - a
    BY <1>1, <1>5, <2>1, <2>2
  <2>3. CASE ~(i <= b - a)
    <3>1. i - (b - a) \in 1 .. n /\ b + (i - (b - a)) = a + i
      BY <2>3
    <3> QED
      BY <1>1, <1>5, <2>1, <2>3, <3>1
  <2> QED
    BY <2>2, <2>3
<1>7. Len(s \o t) = Len(u)
  BY <1>1, <1>2, <1>3, <1>4
<1> HIDE DEF s, t, u
<1>8. s \o t = u
  BY <1>3, <1>4, <1>6, <1>7, SeqEqual
<1> QED
  BY <1>8 DEF s, t, u

\* A sector that is answered as empty is a whole one, and any other has the
\* rest of the file.
LEMMA SectorAnswer ==
  ASSUME DiskInv, Disk!SectorBytes > 0
  PROVE  /\ Disk!SectorBytes \in 1 .. Sector
         /\ pos + Disk!SectorBytes \in start .. length
         /\ IF Disk!SectorBytes % Sector = 0
            THEN Disk!SectorBytes = Sector
            ELSE /\ Disk!SectorBytes % Sector = Disk!SectorBytes
                 /\ pos + Disk!SectorBytes = length /\ Disk!SectorBytes < Sector
<1>1. Sector \in Nat /\ Sector > 0
  BY LoadingAssumption DEF Disk!BlockConstants
<1>2. length \in Nat /\ start \in Nat /\ pos \in Nat /\ start <= pos /\ pos <= length
  BY DEF DiskInv
<1>3. Disk!SectorBytes = IF length - pos < Sector THEN length - pos ELSE Sector
  BY DEF Disk!SectorBytes
<1>4. \A n \in 1 .. Sector : n % Sector = IF n = Sector THEN 0 ELSE n
  BY <1>1
<1> QED
  BY <1>1, <1>2, <1>3, <1>4

\* The guest has bytes left to read, by sectors or by bytes.
LEMMA HighByteIsSector ==
  ASSUME NEW n \in Nat PROVE Disk!HighByte(n) # 0 <=> n >= Sector
<1>1. Sector \in Nat /\ Sector > 0
  BY LoadingAssumption DEF Disk!BlockConstants
<1>2. PICK q \in Int, r \in 0 .. Sector - 1 : n = Sector * q + r /\ q = n \div Sector
  <2>1. n = Sector * (n \div Sector) + (n % Sector) /\ n \div Sector \in Int
    BY <1>1
  <2>2. n % Sector \in 0 .. Sector - 1
    BY <1>1
  <2> QED
    BY <2>1, <2>2
<1>3. q = 0 => n < Sector
  BY <1>1, <1>2
<1>4. q >= 1 => n >= Sector
  <2>1. q >= 1 => Sector * q >= Sector
    BY <1>1, <1>2
  <2> QED
    BY <1>1, <1>2, <2>1
<1>5. ~(q < 0)
  <2>1. q < 0 => Sector * q <= -Sector
    BY <1>1, <1>2
  <2> QED
    BY <1>1, <1>2, <2>1
<1> QED
  BY <1>1, <1>2, <1>3, <1>4, <1>5 DEF Disk!HighByte

\* A read that was asked for stores nothing yet.
LEMMA DiskInit == Disk!Init => DiskInv
<1> SUFFICES ASSUME Disk!Init PROVE DiskInv
  OBVIOUS
<1>1. /\ length \in Nat /\ start \in 0 .. length /\ asked \in Nat
      /\ pos = start /\ SIZE = asked /\ ROS4 = 0 /\ pc = "read_next_block" /\ dest = <<>>
  BY LoadingAssumption DEF Disk!Init, Disk!BlockConstants
<1>2. [i \in 1 .. pos - start |-> start + i] = <<>>
  BY <1>1
<1> QED
  BY <1>1, <1>2 DEF DiskInv

\* A sector and a single byte both go on with the bytes that were stored.
LEMMA StoredBytes ==
  ASSUME DiskInv, NEW n \in Nat, pos + n <= length, pc = "read_next_block",
         UNCHANGED Disk!call, pos' = pos + n, dest' = dest \o Disk!Bytes(n),
         ROS4' = ROS4 + n
  PROVE  /\ length' = length /\ start' = start /\ asked' = asked
         /\ length' \in Nat /\ start' \in 0 .. length' /\ asked' \in Nat
         /\ pos' \in start' .. length'
         /\ ROS4' = pos' - start'
         /\ dest' = [i \in 1 .. pos' - start' |-> start' + i]
<1>1. /\ length \in Nat /\ start \in Nat /\ pos \in Nat /\ asked \in Nat
      /\ start <= pos /\ pos <= length /\ ROS4 = pos - start
      /\ dest = [i \in 1 .. pos - start |-> start + i]
  BY DEF DiskInv
<1>2. length' = length /\ start' = start /\ asked' = asked
  BY DEF Disk!call
<1>3. dest' = [i \in 1 .. (pos + n) - start |-> start + i]
  BY <1>1, BytesGoOn DEF Disk!Bytes
<1>4. pos' - start' = (pos + n) - start
  BY <1>2
<1>5. dest' = [i \in 1 .. pos' - start' |-> start' + i]
  BY <1>2, <1>3, <1>4, Zenon
<1>6. pos' \in start .. length /\ ROS4' = pos' - start
  BY <1>1
<1> QED
  BY <1>1, <1>2, <1>5, <1>6, Zenon DEF DiskInv

\* One turn of the loop of the block read.
LEMMA DiskStep == DiskInv /\ Disk!Next => DiskInv'
<1> SUFFICES ASSUME DiskInv, Disk!Next PROVE DiskInv'
  OBVIOUS
<1>1. Sector \in Nat /\ Sector > 0
  BY LoadingAssumption DEF Disk!BlockConstants
<1>2. /\ length \in Nat /\ start \in Nat /\ pos \in Nat /\ asked \in Nat /\ SIZE \in Nat
      /\ start <= pos /\ pos <= length /\ ROS4 = pos - start
  BY DEF DiskInv
<1>3. CASE Disk!copy_block
  <2> DEFINE n == Disk!SectorBytes
  <2>1. pc = "read_next_block" /\ n > 0 /\ SIZE >= Sector /\ SIZE + ROS4 = asked
    BY <1>2, <1>3, HighByteIsSector DEF Disk!copy_block, DiskInv
  <2>2. /\ n \in 1 .. Sector /\ pos + n <= length
        /\ n % Sector = 0 => n = Sector
        /\ n % Sector # 0 => n % Sector = n /\ pos + n = length /\ n < Sector
    BY <1>2, <2>1, SectorAnswer
  <2>3. /\ UNCHANGED Disk!call /\ pos' = pos + n
        /\ dest' = dest \o Disk!Bytes(n) /\ ROS4' = ROS4 + n
        /\ IF n % Sector = 0
           THEN SIZE' = SIZE - n /\ UNCHANGED pc
           ELSE SIZE' = ROS4' /\ X' = Disk!SUCCESS /\ pc' = "done"
    <3> HIDE DEF n
    <3> DEFINE answered == n % Sector
               ROS2 == IF answered = 0 THEN Sector ELSE answered
    <3>1. ROS2 = n
      BY <2>2
    <3>2. /\ UNCHANGED Disk!call /\ pos' = pos + n
          /\ dest' = dest \o Disk!Bytes(ROS2) /\ ROS4' = ROS4 + ROS2
          /\ IF answered = 0
             THEN SIZE' = SIZE - ROS2 /\ UNCHANGED pc
             ELSE SIZE' = ROS4' /\ X' = Disk!SUCCESS /\ pc' = "done"
      BY <1>3, Zenon DEF Disk!copy_block, n
    <3> HIDE DEF ROS2
    <3> QED
      BY <3>1, <3>2, Zenon
  <2>4. n \in Nat
    BY <1>1, <2>2
  <2> HIDE DEF n
  <2>5. /\ length' = length /\ start' = start /\ asked' = asked
        /\ length' \in Nat /\ start' \in 0 .. length' /\ asked' \in Nat
        /\ pos' \in start' .. length'
        /\ ROS4' = pos' - start'
        /\ dest' = [i \in 1 .. pos' - start' |-> start' + i]
    BY <2>1, <2>2, <2>3, <2>4, StoredBytes
  <2>6. CASE n % Sector = 0
    <3>1. SIZE' = SIZE - n /\ pc' = "read_next_block" /\ n = Sector
      BY <2>1, <2>2, <2>3, <2>6
    <3>2. SIZE' \in Nat /\ SIZE' + ROS4' = asked'
      BY <1>1, <1>2, <2>1, <2>3, <2>5, <3>1
    <3> QED
      BY <2>5, <3>1, <3>2 DEF DiskInv
  <2>7. CASE n % Sector # 0
    <3>1. length - start < asked /\ Disk!Available' = length - start
      BY <1>1, <1>2, <2>1, <2>2, <2>4, <2>5, <2>7 DEF Disk!Available
    <3>2. pos' = start + (length - start) /\ SIZE' \in Nat
      BY <1>2, <2>2, <2>3, <2>5, <2>7
    <3> QED
      BY <2>3, <2>5, <2>7, <3>1, <3>2 DEF DiskInv
  <2> QED
    BY <2>6, <2>7
<1>4. CASE Disk!sector_fails
  <2>1. /\ pc = "read_next_block" /\ SIZE >= Sector /\ SIZE + ROS4 = asked
        /\ X' = Disk!EOF /\ pc' = "done" /\ UNCHANGED <<Disk!call, pos, SIZE, ROS4, dest>>
        /\ Disk!SectorBytes = 0
    BY <1>2, <1>4, HighByteIsSector DEF Disk!sector_fails, DiskInv
  <2>2. pos = length
    BY <1>1, <1>2, <2>1 DEF Disk!SectorBytes
  <2>3. UNCHANGED <<length, start, asked>>
    BY <2>1 DEF Disk!call
  <2>4. Disk!Available' = length - start
    BY <1>1, <1>2, <2>1, <2>2, <2>3 DEF Disk!Available
  <2>5. Disk!EOF # Disk!SUCCESS /\ pos = start + (length - start)
    BY <1>2, <2>2 DEF Disk!EOF, Disk!SUCCESS
  <2> QED
    BY <2>1, <2>3, <2>4, <2>5 DEF DiskInv, Disk!SUCCESS
<1>5. CASE Disk!read_next_byte
  <2>1. /\ pc = "read_next_block" /\ SIZE > 0 /\ pos < length /\ SIZE + ROS4 = asked
        /\ UNCHANGED <<Disk!call, X, pc>> /\ pos' = pos + 1
        /\ dest' = dest \o Disk!Bytes(1) /\ ROS4' = ROS4 + 1 /\ SIZE' = SIZE - 1
    BY <1>5 DEF Disk!read_next_byte, DiskInv
  <2>2. /\ length' = length /\ start' = start /\ asked' = asked
        /\ length' \in Nat /\ start' \in 0 .. length' /\ asked' \in Nat
        /\ pos' \in start' .. length'
        /\ ROS4' = pos' - start'
        /\ dest' = [i \in 1 .. pos' - start' |-> start' + i]
    <3>1. 1 \in Nat /\ pos + 1 <= length
      BY <1>2, <2>1
    <3> QED
      BY <2>1, <3>1, StoredBytes
  <2> QED
    BY <1>2, <2>1, <2>2 DEF DiskInv
<1>6. CASE Disk!no_more_bytes
  <2>1. /\ pc = "read_next_block" /\ (SIZE = 0 \/ pos = length) /\ SIZE + ROS4 = asked
        /\ UNCHANGED <<Disk!call, pos, ROS4, dest>> /\ SIZE' = ROS4 /\ pc' = "done"
        /\ X' = Disk!SUCCESS
    BY <1>6 DEF Disk!no_more_bytes, DiskInv
  <2>2. UNCHANGED <<length, start, asked>>
    BY <2>1 DEF Disk!call
  <2>3. pos = start + Disk!Available'
    BY <1>2, <2>1, <2>2 DEF Disk!Available
  <2> QED
    BY <1>2, <2>1, <2>2, <2>3 DEF DiskInv
<1> QED
  BY <1>3, <1>4, <1>5, <1>6 DEF Disk!Next

\* For every file, sector and size: a block read stores the bytes from the position
\* of the stream on, as many as were asked for or are left, and leaves in SIZE
\* their count when it succeeds and what was still asked for when it fails.
THEOREM BlockReadIsWhole == LoadSpec => []ReadsWhatWasAsked
<1>1. LoadInit => DiskInv
  BY DiskInit DEF LoadInit
<1>2. DiskInv /\ [LoadNext]_loadVars => DiskInv'
  <2>1. ASSUME DiskInv, UNCHANGED diskVars PROVE DiskInv'
    BY <2>1 DEF DiskInv, diskVars, Disk!Available
  <2> QED
    BY <2>1, DiskStep DEF LoadNext, FromDisk, FromThread, FromGuest, FromTool, BySerial, loadVars
<1>3. DiskInv => ReadsWhatWasAsked
  <2> SUFFICES ASSUME DiskInv, pc = "done" PROVE Disk!ReadsWhatWasAsked
    BY DEF ReadsWhatWasAsked, Disk!ReadsWhatWasAsked
  <2>1. /\ pos = start + Disk!Available /\ dest = [i \in 1 .. pos - start |-> start + i]
        /\ X = Disk!SUCCESS => SIZE = pos - start
        /\ X # Disk!SUCCESS => SIZE + (pos - start) = asked
        /\ SIZE \in Nat /\ pos \in Nat /\ start \in Nat /\ length \in Nat /\ asked \in Nat /\ start <= pos
    BY DEF DiskInv
  <2>2. Disk!Available = pos - start /\ Disk!Available \in Nat
    BY <2>1 DEF Disk!Available
  <2>3. Len(dest) = pos - start
    BY <2>1, LenProperties
  <2>4. SIZE = IF X = Disk!SUCCESS THEN Len(dest) ELSE asked - Len(dest)
    BY <2>1, <2>3
  <2> QED
    BY <2>1, <2>2, <2>4 DEF Disk!ReadsWhatWasAsked
<1> QED
  BY <1>1, <1>2, <1>3, PTL DEF LoadSpec
-----------------------------------------------------------------------------
(* The upload *)

SerialTypes ==
  /\ fifo \in Seq([from : {"guest", "tool"}, value : Nat])
  /\ buffer \in [0 .. RingSize - 1 -> [from : {"guest", "tool", "none"}, value : Nat]]
  /\ buffer_pos_in \in Nat /\ buffer_pos_out \in Nat
  /\ can_write_data \in BOOLEAN
  /\ spc \in {"loop", "wait", "read", "stored"}
  /\ gpc \in {"get", "ask", "sending", "reading", "eof"}
  /\ SERIAL_BUFFER \in [0 .. BlockSize - 1 -> Nat]
  /\ SERIAL_BLOCK_NDX \in 0 .. 255
  /\ x \in Nat /\ got \in Seq(Nat)
  /\ tpc \in {"receive", "send", "wait", "done"}
  /\ file \in Seq(Nat) /\ offset \in 0 .. Len(file)

\* The loader has taken what the file begins with.
GotIsOfTheFile ==
  Len(got) <= Len(file) /\ \A i \in 1 .. Len(got) : got[i] = file[i]

\* A request has been written, and its block not been read to the end.
Requested == gpc = "reading" \/ (gpc = "sending" /\ (spc = "wait" \/ ~can_write_data))

\* The block that follows what the loader has taken, and how much of the file
\* it holds.
Count == Least(BlockData, Len(file) - Len(got))
Answer(j) ==
  IF j <= Count THEN file[Len(got) + j]
  ELSE IF j <= BlockData THEN 85
  ELSE IF j = BlockData + 1
  THEN (IF Len(file) - Len(got) <= BlockData THEN EOF_MARK ELSE 0)
  ELSE Count

\* How much of a block is in memory, and in the ring.
Taken  == IF gpc = "reading" THEN x ELSE 0
InRing == (buffer_pos_in - buffer_pos_out) + (IF spc = "stored" THEN 1 ELSE 0)

\* The bytes of the block are where they should be.
BytesUnderWay ==
  \A j \in 1 .. BlockSize :
    /\ j <= Taken => SERIAL_BUFFER[j - 1] = Answer(j)
    /\ Taken < j /\ j <= Taken + InRing =>
         buffer[(buffer_pos_out + (j - Taken - 1)) % RingSize] = Byte("tool", Answer(j))
    /\ Taken + InRing < j => fifo[j - (Taken + InRing)] = Byte("tool", Answer(j))

\* The tool will answer a request.
GoesOn == tpc # "done" /\ (tpc = "wait" => offset < Len(file))

\* What is left of the block in memory is what comes next.
BlockInMemory ==
  LET used == (SERIAL_BLOCK_NDX + 1) % 256
  IN  /\ SERIAL_BLOCK_SIZE \in used .. BlockData
      /\ offset + used = Len(got) + SERIAL_BLOCK_SIZE
      /\ \A k \in used .. SERIAL_BLOCK_SIZE - 1 :
           SERIAL_BUFFER[k] = file[Len(got) + (k - used) + 1]
      /\ IF SERIAL_BLOCK_TYPE = EOF_MARK THEN offset = Len(file) ELSE GoesOn

\* Nobody uses the link.
Idle ==
  /\ fifo = <<>> /\ buffer_pos_in = buffer_pos_out
  /\ spc \in {"loop", "read"} /\ tpc # "send"
  /\ gpc = "get" => BlockInMemory
  /\ gpc \in {"ask", "sending"} => offset = Len(got) /\ GoesOn
  /\ gpc = "eof" => got = file

\* The request is in the FIFO; the tool has it; its block comes.
Asking ==
  /\ spc = "wait" /\ fifo = <<Request>> /\ buffer_pos_in = buffer_pos_out
  /\ tpc \in {"receive", "wait"} /\ offset = Len(got) /\ GoesOn

Answering ==
  /\ tpc = "send" /\ fifo = <<>> /\ buffer_pos_in = buffer_pos_out
  /\ spc # "stored" /\ Taken = 0 /\ offset = Len(got)

Coming ==
  /\ tpc # "send" /\ (tpc # "wait" => fifo = <<>>)
  /\ tpc = "done" => offset = Len(file)
  /\ offset = Len(got) + Count
  /\ buffer_pos_out <= buffer_pos_in /\ Taken < BlockSize
  /\ Taken + InRing + Len(fifo) = BlockSize
  /\ spc = "wait" => InRing = 0
  /\ BytesUnderWay

\* Who may use the FIFO: the two ends take turns.
Turns ==
  /\ can_write_data => gpc = "sending"
  /\ spc = "wait" => can_write_data
  /\ IF Requested THEN Asking \/ Answering \/ Coming ELSE Idle

SerialInv == SerialTypes /\ GotIsOfTheFile /\ ~own /\ Turns

\* The sizes, without their names.
LEMMA BlockFacts ==
  /\ BlockData \in Nat /\ BlockData >= 1 /\ BlockData <= 253
  /\ BlockSize \in Nat /\ BlockSize = BlockData + 2
  /\ RingSize \in Nat /\ RingSize >= BlockSize
BY SerialAssumption DEF BlockSize

\* Two positions less than a round apart are different places of the ring.
LEMMA PlacesDiffer ==
  ASSUME NEW r \in Nat, NEW a \in Nat, NEW b \in Nat, a < b, b < a + r
  PROVE  a % r # b % r
<1>1. r > 0
  OBVIOUS
<1>2. a = r * (a \div r) + (a % r) /\ a \div r \in Int /\ a % r \in 0 .. r - 1
  BY <1>1
<1>3. b = r * (b \div r) + (b % r) /\ b \div r \in Int /\ b % r \in 0 .. r - 1
  BY <1>1
<1>4. PICK p \in Int, q \in Int : p = a \div r /\ q = b \div r
  BY <1>2, <1>3
<1> SUFFICES ASSUME a % r = b % r PROVE FALSE
  OBVIOUS
<1>5. b - a = r * q - r * p
  BY <1>2, <1>3, <1>4
<1>6. r * q - r * p = r * (q - p)
  BY <1>4
<1>7. q - p <= 0 => r * (q - p) <= 0
  BY <1>1, <1>4
<1>8. q - p >= 1 => r * (q - p) >= r
  BY <1>1, <1>4
<1> QED
  BY <1>4, <1>5, <1>6, <1>7, <1>8

\* A block has bytes, and as much of the file as it can hold.
LEMMA AnswerFacts ==
  ASSUME SerialInv
  PROVE  /\ Count \in 0 .. BlockData /\ Len(got) + Count <= Len(file)
         /\ Len(file) \in Nat /\ Len(got) \in Nat /\ Len(got) <= Len(file)
         /\ Len(file) - Len(got) <= BlockData => Len(got) + Count = Len(file)
         /\ ~(Len(file) - Len(got) <= BlockData) => Len(got) + Count < Len(file)
         /\ \A j \in 1 .. BlockSize : Answer(j) \in Nat
<1>1. /\ Len(file) \in Nat /\ Len(got) \in Nat /\ Len(got) <= Len(file)
      /\ \A i \in 1 .. Len(file) : file[i] \in Nat
  BY LenProperties, ElementOfSeq DEF SerialInv, SerialTypes, GotIsOfTheFile
<1>2. /\ Count \in 0 .. BlockData /\ Len(got) + Count <= Len(file)
      /\ Len(file) - Len(got) <= BlockData => Len(got) + Count = Len(file)
      /\ ~(Len(file) - Len(got) <= BlockData) => Len(got) + Count < Len(file)
  BY <1>1, BlockFacts DEF Count, Least
<1>3. \A j \in 1 .. BlockSize : Answer(j) \in Nat
  BY <1>1, <1>2, BlockFacts DEF Answer, EOF_MARK
<1> QED
  BY <1>1, <1>2, <1>3

\* A step that moves no byte leaves the bytes where they should be.
LEMMA BytesStay ==
  ASSUME BytesUnderWay, Taken' = Taken, InRing' = InRing,
         UNCHANGED <<fifo, buffer, buffer_pos_out, SERIAL_BUFFER, got, file>>
  PROVE  BytesUnderWay'
<1>1. \A j \in 1 .. BlockSize : Answer(j)' = Answer(j)
  BY DEF Answer, Count
<1> QED
  BY <1>1 DEF BytesUnderWay

\* Before the first request the block in memory is empty.
LEMMA SerialInit == Init => SerialInv
<1> SUFFICES ASSUME Init PROVE SerialInv
  OBVIOUS
<1>1. PICK n \in 0 .. MaxBytes : file = [i \in 1 .. n |-> i]
  BY DEF Init
<1>2. n \in Nat /\ \A i \in 1 .. n : i \in Nat
  BY SerialAssumption
<1>3. file \in Seq(Nat) /\ Len(file) = n
  BY <1>1, <1>2, IsASeq, LenProperties
<1>4. got = <<>> /\ fifo = <<>> /\ Len(got) = 0
  BY EmptySeq DEF Init
<1>5. SerialTypes
  <2>1. /\ fifo \in Seq([from : {"guest", "tool"}, value : Nat]) /\ got \in Seq(Nat)
        /\ offset \in 0 .. Len(file)
    BY <1>2, <1>3, <1>4 DEF Init
  <2>2. buffer \in [0 .. RingSize - 1 -> [from : {"guest", "tool", "none"}, value : Nat]]
    BY DEF Init, Nothing, Byte
  <2>3. SERIAL_BUFFER \in [0 .. BlockSize - 1 -> Nat] /\ SERIAL_BLOCK_NDX \in 0 .. 255
    BY DEF Init
  <2> QED
    BY <1>3, <2>1, <2>2, <2>3 DEF Init, SerialTypes
<1>6. BlockInMemory
  <2>1. SERIAL_BLOCK_SIZE = 0 /\ SERIAL_BLOCK_TYPE = 0 /\ (SERIAL_BLOCK_NDX + 1) % 256 = 0
    BY BlockFacts DEF Init, SERIAL_BLOCK_SIZE, SERIAL_BLOCK_TYPE
  <2>2. offset = 0 /\ tpc = "receive"
    BY DEF Init
  <2> QED
    BY <1>4, <2>1, <2>2, BlockFacts DEF BlockInMemory, GoesOn, EOF_MARK
<1>7. GotIsOfTheFile
  BY <1>2, <1>3, <1>4 DEF GotIsOfTheFile
<1> QED
  BY <1>4, <1>5, <1>6, <1>7 DEF Init, SerialInv, Turns, Requested, Idle

\* The serial thread waits, and the other end reads.
LEMMA WaitStep ==
  ASSUME SerialInv, write_fifo \/ wait_for_other_end \/ nothing_to_write
  PROVE  SerialInv'
<1>1. /\ UNCHANGED <<buffer, buffer_pos_in, buffer_pos_out, own, gpc, SERIAL_BUFFER,
                     SERIAL_BLOCK_NDX, x, got, tpc, file, offset>>
      /\ can_write_data' \in BOOLEAN /\ spc' \in {"loop", "wait", "read", "stored"}
      /\ spc # "stored" /\ spc' # "stored"
  BY DEF write_fifo, wait_for_other_end, nothing_to_write, guestVars, toolVars,
         SerialInv, SerialTypes
<1>2. fifo' \in Seq([from : {"guest", "tool"}, value : Nat])
  <2> DEFINE FifoByte == [from : {"guest", "tool"}, value : Nat]
  <2>1. Request \in FifoByte
    BY DEF Request, Byte
  <2>2. fifo \in Seq(FifoByte)
    BY DEF SerialInv, SerialTypes
  <2>3. fifo' = fifo \/ fifo' = Append(fifo, Request)
    BY DEF write_fifo, wait_for_other_end, nothing_to_write
  <2> HIDE DEF FifoByte
  <2>4. fifo' \in Seq(FifoByte)
    BY <2>1, <2>2, <2>3, AppendProperties
  <2> QED
    BY <2>4 DEF FifoByte
<1>3. SerialTypes' /\ GotIsOfTheFile' /\ ~own'
  BY <1>1, <1>2 DEF SerialInv, SerialTypes, GotIsOfTheFile
<1>4. Taken' = Taken /\ InRing' = InRing /\ (GoesOn' <=> GoesOn) /\ Count' = Count
  BY <1>1 DEF Taken, InRing, GoesOn, Count
<1>5. CASE write_fifo
  <2>1. can_write_data /\ spc = "loop" /\ spc' = "wait" /\ UNCHANGED can_write_data
        /\ fifo' = Append(fifo, Request)
    BY <1>5 DEF write_fifo
  <2>2. gpc = "sending" /\ Idle
    BY <2>1 DEF SerialInv, Turns, Requested
  <2>3. fifo' = <<Request>>
    BY <2>1, <2>2 DEF Idle
  <2>4. GoesOn /\ tpc \in {"receive", "wait"}
    BY <2>2 DEF Idle, GoesOn, SerialInv, SerialTypes
  <2>5. GoesOn' /\ tpc' \in {"receive", "wait"} /\ Request' = Request
    BY <1>1, <1>4, <2>4 DEF Request
  <2>6. buffer_pos_in' = buffer_pos_out' /\ offset' = Len(got')
    BY <1>1, <2>2 DEF Idle
  <2>7. Asking'
    BY <2>1, <2>3, <2>5, <2>6, Zenon DEF Asking
  <2> QED
    BY <1>1, <1>3, <2>1, <2>2, <2>7 DEF SerialInv, Turns, Requested
<1>6. CASE wait_for_other_end
  <2>1. spc = "wait" /\ Len(fifo) # 1 /\ ~can_write_data' /\ spc' = "read" /\ UNCHANGED fifo
    BY <1>6 DEF wait_for_other_end
  <2>2. gpc = "sending" /\ Requested /\ Requested'
    BY <1>1, <2>1 DEF SerialInv, Turns, Requested
  <2>3. ~Asking
    BY <2>1 DEF Asking
  <2>4. ASSUME Answering PROVE Answering'
    BY <1>1, <1>4, <2>1, <2>4 DEF Answering
  <2>5. ASSUME Coming PROVE Coming'
    BY <1>1, <1>4, <2>1, <2>5, BytesStay DEF Coming, BlockSize
  <2> QED
    BY <1>1, <1>3, <2>1, <2>2, <2>3, <2>4, <2>5 DEF SerialInv, Turns
<1>7. CASE nothing_to_write
  <2>1. spc = "loop" /\ ~can_write_data /\ spc' = "read" /\ UNCHANGED <<fifo, can_write_data>>
    BY <1>7 DEF nothing_to_write
  <2>2. Requested' <=> Requested
    BY <1>1, <2>1 DEF Requested
  <2>3. ~Asking
    BY <2>1 DEF Asking
  <2>4. ASSUME Answering PROVE Answering'
    BY <1>1, <1>4, <2>1, <2>4 DEF Answering
  <2>5. ASSUME Coming PROVE Coming'
    BY <1>1, <1>4, <2>1, <2>5, BytesStay DEF Coming, BlockSize
  <2>6. ASSUME Idle PROVE Idle'
    BY <1>1, <1>4, <2>1, <2>6 DEF Idle, BlockInMemory, SERIAL_BLOCK_SIZE, SERIAL_BLOCK_TYPE
  <2> QED
    BY <1>1, <1>3, <2>1, <2>2, <2>3, <2>4, <2>5, <2>6 DEF SerialInv, Turns
<1> QED
  BY <1>5, <1>6, <1>7

\* The first byte of the FIFO is the next one of a block, and the tool's.
LEMMA HeadIsNextByte ==
  ASSUME SerialInv, Coming, fifo # <<>>
  PROVE  /\ Len(fifo) \in Nat \ {0} /\ InRing \in Nat /\ Taken \in Nat
         /\ Taken + InRing + 1 \in 1 .. BlockSize
         /\ Head(fifo) = Byte("tool", Answer(Taken + InRing + 1))
         /\ Tail(fifo) \in Seq([from : {"guest", "tool"}, value : Nat])
         /\ Len(Tail(fifo)) = Len(fifo) - 1
         /\ \A i \in 1 .. Len(fifo) - 1 : Tail(fifo)[i] = fifo[i + 1]
<1>1. fifo \in Seq([from : {"guest", "tool"}, value : Nat])
  BY DEF SerialInv, SerialTypes
<1>2. /\ Len(fifo) \in Nat \ {0} /\ Head(fifo) = fifo[1]
      /\ Tail(fifo) \in Seq([from : {"guest", "tool"}, value : Nat])
      /\ Len(Tail(fifo)) = Len(fifo) - 1
      /\ \A i \in 1 .. Len(fifo) - 1 : Tail(fifo)[i] = fifo[i + 1]
  BY <1>1, LenProperties, EmptySeq, HeadTailProperties
<1>3. InRing \in Nat /\ Taken \in Nat /\ Taken + InRing + Len(fifo) = BlockSize
  BY DEF Coming, InRing, Taken, SerialInv, SerialTypes
<1>4. Taken + InRing + 1 \in 1 .. BlockSize
  BY <1>2, <1>3, BlockFacts
<1>5. (Taken + InRing + 1) - (Taken + InRing) = 1
  BY <1>3
<1>6. fifo[1] = Byte("tool", Answer(Taken + InRing + 1))
  BY <1>3, <1>4, <1>5 DEF Coming, BytesUnderWay
<1> QED
  BY <1>2, <1>3, <1>4, <1>6

\* It finds nothing to read.
LEMMA ReadNothing ==
  ASSUME SerialInv, read_fifo, fifo = <<>>
  PROVE  SerialInv'
<1>1. /\ spc = "read" /\ spc' = "loop"
      /\ UNCHANGED <<fifo, buffer, own, buffer_pos_in, can_write_data, buffer_pos_out, gpc,
                     SERIAL_BUFFER, SERIAL_BLOCK_NDX, x, got, tpc, file, offset>>
  BY DEF read_fifo, guestVars, toolVars
<1>2. SerialTypes' /\ GotIsOfTheFile' /\ ~own'
  BY <1>1 DEF SerialInv, SerialTypes, GotIsOfTheFile
<1>3. Taken' = Taken /\ InRing' = InRing /\ (GoesOn' <=> GoesOn) /\ Count' = Count
  BY <1>1 DEF Taken, InRing, GoesOn, Count
<1>4. (Requested' <=> Requested) /\ ~Asking
  BY <1>1 DEF Requested, Asking
<1>5. ASSUME Answering PROVE Answering'
  BY <1>1, <1>3, <1>5 DEF Answering
<1>6. ASSUME Coming PROVE Coming'
  BY <1>1, <1>3, <1>6, BytesStay DEF Coming, BlockSize
<1>7. ASSUME Idle PROVE Idle'
  BY <1>1, <1>3, <1>7 DEF Idle, BlockInMemory, SERIAL_BLOCK_SIZE, SERIAL_BLOCK_TYPE
<1> QED
  BY <1>1, <1>2, <1>4, <1>5, <1>6, <1>7 DEF SerialInv, Turns

\* A byte goes from the FIFO to the ring, where there is room for it.
LEMMA ReadByte ==
  ASSUME SerialInv, read_fifo, fifo # <<>>
  PROVE  SerialInv'
<1>1. /\ spc = "read" /\ spc' = "stored" /\ fifo' = Tail(fifo)
      /\ buffer' = [buffer EXCEPT ![buffer_pos_in % RingSize] = Head(fifo)]
      /\ own' = (own \/ Head(fifo).from = "guest")
      /\ UNCHANGED <<buffer_pos_in, can_write_data, buffer_pos_out, gpc, SERIAL_BUFFER,
                     SERIAL_BLOCK_NDX, x, got, tpc, file, offset>>
  BY DEF read_fifo, guestVars, toolVars
<1>2. Requested /\ Coming
  BY <1>1 DEF SerialInv, Turns, Idle, Asking, Answering
<1>3. tpc = "wait"
  BY <1>2, Zenon DEF Coming
<1> DEFINE k == Taken + InRing + 1
<1>4. /\ Len(fifo) \in Nat \ {0} /\ InRing \in Nat /\ Taken \in Nat /\ k \in 1 .. BlockSize
      /\ Head(fifo) = Byte("tool", Answer(k))
      /\ Tail(fifo) \in Seq([from : {"guest", "tool"}, value : Nat])
      /\ Len(Tail(fifo)) = Len(fifo) - 1
      /\ \A i \in 1 .. Len(fifo) - 1 : Tail(fifo)[i] = fifo[i + 1]
  BY <1>2, HeadIsNextByte
<1>5. /\ Head(fifo) \in [from : {"guest", "tool", "none"}, value : Nat]
      /\ Head(fifo).from = "tool"
  <2>1. Answer(k) \in Nat
    BY <1>4, AnswerFacts
  <2> HIDE DEF k
  <2> QED
    BY <1>4, <2>1 DEF Byte
<1>6. buffer_pos_in % RingSize \in 0 .. RingSize - 1
  BY BlockFacts DEF SerialInv, SerialTypes
<1>7. SerialTypes' /\ GotIsOfTheFile' /\ ~own'
  <2>1. buffer' \in [0 .. RingSize - 1 -> [from : {"guest", "tool", "none"}, value : Nat]]
    BY <1>1, <1>5, <1>6 DEF SerialInv, SerialTypes
  <2> QED
    BY <1>1, <1>4, <1>5, <2>1 DEF SerialInv, SerialTypes, GotIsOfTheFile
<1>8. InRing = buffer_pos_in - buffer_pos_out /\ InRing' = InRing + 1 /\ Taken' = Taken
  BY <1>1 DEF InRing, Taken, SerialInv, SerialTypes
<1>9. \A j \in 1 .. BlockSize : Answer(j)' = Answer(j)
  BY <1>1 DEF Answer, Count
<1>10. BytesUnderWay'
  <2> SUFFICES ASSUME NEW j \in 1 .. BlockSize
               PROVE  /\ j <= Taken => SERIAL_BUFFER[j - 1] = Answer(j)
                      /\ Taken < j /\ j <= Taken + (InRing + 1) =>
                           buffer'[(buffer_pos_out + (j - Taken - 1)) % RingSize]
                             = Byte("tool", Answer(j))
                      /\ Taken + (InRing + 1) < j =>
                           fifo'[j - (Taken + (InRing + 1))] = Byte("tool", Answer(j))
    BY <1>1, <1>8, <1>9 DEF BytesUnderWay, Byte
  <2>1. /\ j <= Taken => SERIAL_BUFFER[j - 1] = Answer(j)
        /\ Taken < j /\ j <= Taken + InRing =>
             buffer[(buffer_pos_out + (j - Taken - 1)) % RingSize] = Byte("tool", Answer(j))
        /\ Taken + InRing < j => fifo[j - (Taken + InRing)] = Byte("tool", Answer(j))
    BY <1>2 DEF Coming, BytesUnderWay
  <2>2. buffer_pos_out \in Nat /\ buffer_pos_in \in Nat /\ buffer_pos_in = buffer_pos_out + InRing
    BY <1>4, <1>8 DEF SerialInv, SerialTypes
  <2>3. ASSUME Taken < j, j <= Taken + InRing
        PROVE  buffer'[(buffer_pos_out + (j - Taken - 1)) % RingSize] = Byte("tool", Answer(j))
    <3> DEFINE place == buffer_pos_out + (j - Taken - 1)
    <3>1. place \in Nat /\ place < buffer_pos_in /\ buffer_pos_in < place + RingSize
      BY <1>4, <2>2, <2>3, BlockFacts
    <3>2. place % RingSize # buffer_pos_in % RingSize
      BY <2>2, <3>1, PlacesDiffer, BlockFacts
    <3>3. place % RingSize \in 0 .. RingSize - 1
      BY <3>1, BlockFacts
    <3>4. buffer'[place % RingSize] = buffer[place % RingSize]
      BY <1>1, <3>2, <3>3 DEF SerialInv, SerialTypes
    <3> QED
      BY <2>1, <2>3, <3>4
  <2>4. ASSUME j = k
        PROVE  buffer'[(buffer_pos_out + (j - Taken - 1)) % RingSize] = Byte("tool", Answer(j))
    <3>1. buffer_pos_out + (j - Taken - 1) = buffer_pos_in
      BY <1>4, <2>2, <2>4
    <3>2. buffer'[buffer_pos_in % RingSize] = Head(fifo)
      BY <1>1, <1>6 DEF SerialInv, SerialTypes
    <3> QED
      BY <1>4, <2>4, <3>1, <3>2
  <2>5. ASSUME Taken + (InRing + 1) < j
        PROVE  fifo'[j - (Taken + (InRing + 1))] = Byte("tool", Answer(j))
    <3>1. Taken + InRing + Len(fifo) = BlockSize
      BY <1>2 DEF Coming
    <3> DEFINE i == j - (Taken + (InRing + 1))
    <3>2. i \in 1 .. Len(fifo) - 1 /\ i + 1 = j - (Taken + InRing) /\ Taken + InRing < j
      BY <1>4, <2>5, <3>1, BlockFacts
    <3> HIDE DEF i
    <3>3. fifo'[i] = fifo[i + 1]
      BY <1>1, <1>4, <3>2, Zenon
    <3>4. fifo'[i] = Byte("tool", Answer(j))
      BY <2>1, <3>2, <3>3, Zenon
    <3> QED
      BY <3>4 DEF i
  <2>6. j <= Taken + (InRing + 1) => j <= Taken + InRing \/ j = k
    BY <1>4
  <2> QED
    BY <2>1, <2>3, <2>4, <2>5, <2>6
<1>11. Coming'
  <2>1. Taken' + InRing' + Len(fifo') = BlockSize /\ Taken' < BlockSize
    BY <1>1, <1>2, <1>4, <1>8, BlockFacts DEF Coming
  <2>2. offset' = Len(got') + Count' /\ buffer_pos_out' <= buffer_pos_in'
    BY <1>1, <1>2 DEF Coming, Count
  <2>3. BlockSize' = BlockSize
    BY DEF BlockSize
  <2> QED
    BY <1>1, <1>3, <1>10, <2>1, <2>2, <2>3, Zenon DEF Coming
<1>12. Requested'
  BY <1>1, <1>2 DEF Requested
<1> QED
  BY <1>1, <1>7, <1>11, <1>12 DEF SerialInv, Turns

\* The byte in the ring is counted.
LEMMA ByteCounted ==
  ASSUME SerialInv, stored
  PROVE  SerialInv'
<1>1. /\ spc = "stored" /\ spc' = "loop" /\ buffer_pos_in' = buffer_pos_in + 1
      /\ UNCHANGED <<fifo, buffer, own, can_write_data, buffer_pos_out, gpc, SERIAL_BUFFER,
                     SERIAL_BLOCK_NDX, x, got, tpc, file, offset>>
  BY DEF stored, guestVars, toolVars
<1>2. Requested /\ Coming
  BY <1>1 DEF SerialInv, Turns, Idle, Asking, Answering
<1>3. SerialTypes' /\ GotIsOfTheFile' /\ ~own'
  BY <1>1 DEF SerialInv, SerialTypes, GotIsOfTheFile
<1>4. Taken' = Taken /\ InRing' = InRing /\ Count' = Count
  BY <1>1 DEF Taken, InRing, Count, SerialInv, SerialTypes
<1>5. buffer_pos_out <= buffer_pos_in + 1
  BY <1>2 DEF Coming, SerialInv, SerialTypes
<1>6. Coming'
  BY <1>1, <1>2, <1>4, <1>5, BytesStay DEF Coming, BlockSize
<1>7. Requested'
  BY <1>1, <1>2 DEF Requested
<1> QED
  BY <1>1, <1>3, <1>6, <1>7 DEF SerialInv, Turns

\* One step of the thread that moves the bytes.
LEMMA SerialThreadStep == SerialInv /\ SerialThread => SerialInv'
BY WaitStep, ReadNothing, ReadByte, ByteCounted DEF SerialThread

\* The loader takes a byte of the block, and stops where the block does.
LEMMA GetStep ==
  ASSUME SerialInv, serial_get
  PROVE  SerialInv'
<1>1. PICK ndx \in 0 .. 255, size \in Nat :
        ndx = (SERIAL_BLOCK_NDX + 1) % 256 /\ size = SERIAL_BLOCK_SIZE
  <2>1. (SERIAL_BLOCK_NDX + 1) % 256 \in 0 .. 255
    BY DEF SerialInv, SerialTypes
  <2>2. SERIAL_BLOCK_SIZE \in Nat
    BY BlockFacts DEF SERIAL_BLOCK_SIZE, SerialInv, SerialTypes
  <2> QED
    BY <2>1, <2>2
<1>2. /\ gpc = "get" /\ SERIAL_BLOCK_NDX' = ndx
      /\ IF ndx # size
         THEN got' = Append(got, SERIAL_BUFFER[ndx]) /\ gpc' = gpc
         ELSE /\ gpc' = IF SERIAL_BLOCK_TYPE = EOF_MARK THEN "eof" ELSE "ask"
              /\ got' = got
      /\ UNCHANGED <<fifo, buffer, own, can_write_data, buffer_pos_in, buffer_pos_out, spc,
                     SERIAL_BUFFER, x, tpc, file, offset>>
  BY <1>1 DEF serial_get, threadVars, toolVars
<1>3. ~Requested /\ ~Requested' /\ Idle /\ BlockInMemory /\ ~can_write_data
  <2>1. ~Requested /\ ~can_write_data
    BY <1>2 DEF Requested, SerialInv, Turns
  <2> QED
    BY <1>2, <2>1 DEF Requested, Idle, SerialInv, Turns
<1>4. /\ size \in ndx .. BlockData /\ offset + ndx = Len(got) + size
      /\ \A k \in ndx .. size - 1 : SERIAL_BUFFER[k] = file[Len(got) + (k - ndx) + 1]
      /\ IF SERIAL_BLOCK_TYPE = EOF_MARK THEN offset = Len(file) ELSE GoesOn
  BY <1>1, <1>3, Zenon DEF BlockInMemory
<1>5. PICK taken \in Nat, end \in Nat :
         /\ taken = Len(got) /\ end = Len(file) /\ ndx \in Nat /\ ndx <= size
         /\ size <= BlockData /\ size <= 253
         /\ offset \in Nat /\ offset + ndx = taken + size /\ offset <= end
  <2>1. Len(got) \in Nat /\ Len(file) \in Nat /\ offset \in Nat /\ offset <= Len(file)
    BY LenProperties DEF SerialInv, SerialTypes
  <2>2. offset + ndx = Len(got) + size
    BY <1>4, Zenon
  <2>3. ndx <= size /\ size <= BlockData
    <3>1. size \in ndx .. BlockData
      BY <1>4, Zenon
    <3> QED
      BY <3>1, BlockFacts
  <2> QED
    BY <2>1, <2>2, <2>3, BlockFacts
<1>6. /\ Len(got) \in Nat /\ Len(file) \in Nat /\ offset \in Nat /\ offset <= Len(file)
      /\ got \in Seq(Nat) /\ file \in Seq(Nat)
  BY LenProperties DEF SerialInv, SerialTypes
<1>7. GoesOn' <=> GoesOn
  BY <1>2 DEF GoesOn
<1>8. SERIAL_BLOCK_SIZE' = size /\ SERIAL_BLOCK_TYPE' = SERIAL_BLOCK_TYPE
  BY <1>1, <1>2 DEF SERIAL_BLOCK_SIZE, SERIAL_BLOCK_TYPE
<1>9. CASE ndx # size
  <2>1. /\ ndx < size /\ ndx + 1 <= BlockData /\ (ndx + 1) % 256 = ndx + 1
        /\ taken + 1 <= offset
    BY <1>9, <1>5, BlockFacts
  <2>2. /\ SERIAL_BUFFER[ndx] = file[Len(got) + 1]
        /\ file[Len(got) + 1] \in Nat
    <3>1. ndx \in ndx .. size - 1 /\ taken + (ndx - ndx) + 1 = taken + 1
      BY <1>5, <2>1
    <3>2. taken + 1 \in 1 .. end
      BY <1>5, <2>1
    <3>3. SERIAL_BUFFER[ndx] = file[taken + 1]
      BY <1>4, <1>5, <3>1, Zenon
    <3>4. file[taken + 1] \in Nat
      BY <1>6, <1>5, <3>2, ElementOfSeq, Zenon
    <3> QED
      BY <1>5, <3>3, <3>4, Zenon
  <2>3. /\ got' \in Seq(Nat) /\ Len(got') = Len(got) + 1
        /\ got'[Len(got) + 1] = file[Len(got) + 1]
        /\ \A i \in 1 .. Len(got) : got'[i] = got[i]
    <3>1. PICK v \in Nat : v = SERIAL_BUFFER[ndx] /\ v = file[Len(got) + 1]
      BY <2>2
    <3>2. got' = Append(got, v)
      BY <1>2, <1>9, <3>1, Zenon
    <3> QED
      BY <1>6, <3>1, <3>2, AppendProperties
  <2>4. GotIsOfTheFile'
    <3>1. ASSUME NEW i \in 1 .. Len(got) + 1 PROVE got'[i] = file[i]
      <4>1. i \in 1 .. Len(got) \/ i = Len(got) + 1
        BY <1>6
      <4> QED
        BY <2>3, <4>1 DEF SerialInv, GotIsOfTheFile
    <3>2. Len(got') <= Len(file)
      BY <1>5, <2>1, <2>3
    <3> QED
      BY <1>2, <2>3, <3>1, <3>2 DEF GotIsOfTheFile
  <2>5. SerialTypes'
    BY <1>2, <1>9, <2>3 DEF SerialInv, SerialTypes
  <2>6. BlockInMemory'
    <3> DEFINE used == (SERIAL_BLOCK_NDX + 1) % 256
    <3>1. used' = ndx + 1
      BY <1>2, <2>1
    <3>2. SERIAL_BLOCK_SIZE' = size
      BY <1>8
    <3>3. size \in ndx + 1 .. BlockData /\ offset + (ndx + 1) = (Len(got) + 1) + size
      BY <1>5, <2>1, BlockFacts
    <3>4. ASSUME NEW k \in ndx + 1 .. size - 1
          PROVE  SERIAL_BUFFER[k] = file[(Len(got) + 1) + (k - (ndx + 1)) + 1]
      <4>1. /\ k \in ndx .. size - 1
            /\ Len(got) + (k - ndx) + 1 = (Len(got) + 1) + (k - (ndx + 1)) + 1
        BY <1>5
      <4> QED
        BY <1>4, <4>1, Zenon
    <3>5. IF SERIAL_BLOCK_TYPE' = EOF_MARK THEN offset = Len(file) ELSE GoesOn'
      BY <1>4, <1>7, <1>8, Zenon
    <3> HIDE DEF used
    <3>6. /\ SERIAL_BLOCK_SIZE' \in used' .. BlockData
          /\ offset' + used' = Len(got') + SERIAL_BLOCK_SIZE'
          /\ \A k \in used' .. SERIAL_BLOCK_SIZE' - 1 :
               SERIAL_BUFFER'[k] = file'[Len(got') + (k - used') + 1]
      BY <1>2, <2>3, <3>1, <3>2, <3>3, <3>4
    <3>7. offset' = offset /\ Len(file') = Len(file)
      BY <1>2
    <3> QED
      BY <3>5, <3>6, <3>7, Zenon DEF BlockInMemory, used
  <2>7. gpc' = "get"
    BY <1>2, <1>9
  <2>8. Idle'
    BY <1>2, <1>3, <2>6, <2>7 DEF Idle
  <2> QED
    BY <1>2, <1>3, <2>4, <2>5, <2>7, <2>8 DEF SerialInv, Turns
<1>10. CASE ndx = size
  <2>1. /\ gpc' = (IF SERIAL_BLOCK_TYPE = EOF_MARK THEN "eof" ELSE "ask") /\ got' = got
    BY <1>2, <1>10
  <2>2. offset = Len(got)
    BY <1>10, <1>5
  <2>3. SERIAL_BLOCK_TYPE = EOF_MARK => got = file
    <3> SUFFICES ASSUME SERIAL_BLOCK_TYPE = EOF_MARK PROVE got = file
      OBVIOUS
    <3>1. Len(got) = Len(file)
      BY <1>4, <2>2
    <3> QED
      BY <1>6, <3>1, SeqEqual DEF SerialInv, GotIsOfTheFile
  <2>4. SerialTypes' /\ GotIsOfTheFile'
    BY <1>2, <1>4, <2>1 DEF SerialInv, SerialTypes, GotIsOfTheFile
  <2>5. Idle'
    <3>1. gpc' \in {"ask", "sending"} => offset' = Len(got') /\ GoesOn'
      BY <1>2, <1>4, <1>7, <2>1, <2>2
    <3>2. gpc' = "eof" => got' = file'
      BY <1>2, <2>1, <2>3
    <3>3. gpc' # "get"
      BY <2>1
    <3> QED
      BY <1>2, <1>3, <3>1, <3>2, <3>3 DEF Idle
  <2>6. ~can_write_data' /\ spc' # "wait" /\ ~own'
    BY <1>2, <1>3 DEF SerialInv, Idle
  <2> QED
    BY <1>3, <2>4, <2>5, <2>6 DEF SerialInv, Turns
<1> QED
  BY <1>9, <1>10

\* The loader asks for a block.
LEMMA AskStep ==
  ASSUME SerialInv, semu_send \/ sent
  PROVE  SerialInv'
<1>1. UNCHANGED <<fifo, buffer, own, buffer_pos_in, buffer_pos_out, spc, SERIAL_BUFFER,
                  SERIAL_BLOCK_NDX, got, tpc, file, offset>>
  BY DEF semu_send, sent, threadVars, toolVars
<1>2. SerialTypes' /\ GotIsOfTheFile' /\ ~own'
  <2>1. x \in Nat /\ can_write_data \in BOOLEAN
    BY DEF SerialInv, SerialTypes
  <2>2. x' \in Nat /\ gpc' \in {"sending", "reading"} /\ can_write_data' \in BOOLEAN
    <3>1. CASE semu_send
      BY <2>1, <3>1, Zenon DEF semu_send
    <3>2. CASE sent
      <4>1. x' = 0 /\ gpc' = "reading" /\ can_write_data' = can_write_data
        BY <3>2, Zenon DEF sent
      <4>2. 0 \in Nat
        OBVIOUS
      <4> QED
        BY <2>1, <4>1, <4>2, Zenon
    <3> QED
      BY <3>1, <3>2
  <2>3. gpc' \in {"get", "ask", "sending", "reading", "eof"}
    BY <2>2
  <2>4. SerialTypes'
    BY <1>1, <2>2, <2>3, Zenon DEF SerialInv, SerialTypes, BlockSize
  <2>5. GotIsOfTheFile' /\ ~own'
    BY <1>1 DEF SerialInv, GotIsOfTheFile
  <2> QED
    BY <2>4, <2>5
<1>3. (GoesOn' <=> GoesOn) /\ Count' = Count /\ InRing' = InRing
  BY <1>1 DEF GoesOn, Count, InRing
<1>4. CASE semu_send
  <2>1. gpc = "ask" /\ gpc' = "sending" /\ can_write_data' = TRUE
    BY <1>4 DEF semu_send
  <2>2. Idle
    BY <2>1 DEF SerialInv, Turns, Requested
  <2>3. ~Requested' /\ spc' # "wait"
    BY <1>1, <2>1, <2>2 DEF Requested, Idle
  <2>4. Idle'
    BY <1>1, <1>3, <2>1, <2>2 DEF Idle
  <2> QED
    BY <1>2, <2>1, <2>3, <2>4 DEF SerialInv, Turns
<1>5. CASE sent
  <2>1. gpc = "sending" /\ ~can_write_data /\ gpc' = "reading" /\ x' = 0
        /\ UNCHANGED can_write_data
    BY <1>5 DEF sent
  <2>2. Requested /\ Requested' /\ spc # "wait" /\ Taken' = Taken
    BY <2>1 DEF Requested, Taken, SerialInv, Turns
  <2>3. ~Asking
    BY <2>2 DEF Asking
  <2>4. ASSUME Answering PROVE Answering'
    BY <1>1, <2>2, <2>4 DEF Answering
  <2>5. ASSUME Coming PROVE Coming'
    BY <1>1, <1>3, <2>2, <2>5, BytesStay DEF Coming, BlockSize
  <2> QED
    BY <1>1, <1>2, <2>1, <2>2, <2>3, <2>4, <2>5 DEF SerialInv, Turns
<1> QED
  BY <1>4, <1>5

\* The loader moves a byte of the block from the ring into memory; with the
\* last one the block is there, and the link is nobody's.
LEMMA ReadBlockStep ==
  ASSUME SerialInv, serial_read_block
  PROVE  SerialInv'
<1>1. /\ gpc = "reading" /\ buffer_pos_in # buffer_pos_out
      /\ SERIAL_BUFFER' =
           [SERIAL_BUFFER EXCEPT ![x] = buffer[buffer_pos_out % RingSize].value]
      /\ buffer_pos_out' = buffer_pos_out + 1 /\ x' = x + 1
      /\ IF x + 1 = BlockSize THEN SERIAL_BLOCK_NDX' = 255 /\ gpc' = "get"
         ELSE SERIAL_BLOCK_NDX' = SERIAL_BLOCK_NDX /\ gpc' = gpc
      /\ UNCHANGED <<fifo, buffer, own, can_write_data, buffer_pos_in, spc, got, tpc, file,
                     offset>>
  BY DEF serial_read_block, ReadsByte, threadVars, toolVars
<1>2. ~can_write_data /\ spc # "wait" /\ Coming
  <2>1. ~can_write_data /\ spc # "wait" /\ Requested
    BY <1>1 DEF SerialInv, Turns, Requested
  <2> QED
    BY <1>1, <2>1 DEF SerialInv, Turns, Asking, Answering
<1>3. /\ x \in Nat /\ x < BlockSize /\ Taken = x
      /\ buffer_pos_in \in Nat /\ buffer_pos_out \in Nat /\ buffer_pos_out < buffer_pos_in
      /\ InRing \in Nat /\ InRing >= 1 /\ Len(fifo) \in Nat
      /\ x + InRing + Len(fifo) = BlockSize
  <2>1. Taken = x /\ x \in Nat /\ buffer_pos_in \in Nat /\ buffer_pos_out \in Nat
    BY <1>1 DEF Taken, SerialInv, SerialTypes
  <2>2. x < BlockSize /\ buffer_pos_out <= buffer_pos_in
        /\ Taken + InRing + Len(fifo) = BlockSize
    BY <1>2, <2>1, Zenon DEF Coming
  <2>3. Len(fifo) \in Nat
    BY LenProperties DEF SerialInv, SerialTypes
  <2>4. InRing \in Nat /\ InRing >= 1
    BY <1>1, <2>1, <2>2 DEF InRing
  <2> QED
    BY <1>1, <2>1, <2>2, <2>3, <2>4
<1>4. /\ \A j \in 1 .. BlockSize :
           /\ j <= x => SERIAL_BUFFER[j - 1] = Answer(j)
           /\ x < j /\ j <= x + InRing =>
                buffer[(buffer_pos_out + (j - x - 1)) % RingSize] = Byte("tool", Answer(j))
           /\ x + InRing < j => fifo[j - (x + InRing)] = Byte("tool", Answer(j))
      /\ offset = Len(got) + Count
  BY <1>2, <1>3, Zenon DEF Coming, BytesUnderWay
<1>5. buffer[buffer_pos_out % RingSize] = Byte("tool", Answer(x + 1))
  <2>1. /\ x + 1 \in 1 .. BlockSize /\ x < x + 1 /\ x + 1 <= x + InRing
        /\ buffer_pos_out + ((x + 1) - x - 1) = buffer_pos_out
    BY <1>3, BlockFacts
  <2> QED
    BY <1>4, <2>1
<1>6. Answer(x + 1) \in Nat /\ x \in 0 .. BlockSize - 1
  BY <1>3, AnswerFacts, BlockFacts
<1>7. /\ SERIAL_BUFFER' \in [0 .. BlockSize - 1 -> Nat]
      /\ SERIAL_BUFFER'[x] = Answer(x + 1)
      /\ \A k \in 0 .. BlockSize - 1 : k # x => SERIAL_BUFFER'[k] = SERIAL_BUFFER[k]
  <2>1. PICK v \in Nat : v = Answer(x + 1) /\ buffer[buffer_pos_out % RingSize].value = v
    BY <1>5, <1>6 DEF Byte
  <2>2. SERIAL_BUFFER' = [SERIAL_BUFFER EXCEPT ![x] = v]
    BY <1>1, <2>1, Zenon
  <2>3. SERIAL_BUFFER \in [0 .. BlockSize - 1 -> Nat]
    BY DEF SerialInv, SerialTypes
  <2> QED
    BY <1>6, <2>1, <2>2, <2>3
<1>8. SerialTypes' /\ GotIsOfTheFile' /\ ~own'
  <2>1. x' \in Nat /\ buffer_pos_out' \in Nat
    BY <1>1, <1>3
  <2>2. /\ gpc' \in {"get", "ask", "sending", "reading", "eof"}
        /\ SERIAL_BLOCK_NDX' \in 0 .. 255
    <3>1. /\ gpc' = "get" \/ gpc' = "reading"
          /\ SERIAL_BLOCK_NDX' = 255 \/ SERIAL_BLOCK_NDX' = SERIAL_BLOCK_NDX
      BY <1>1
    <3>2. SERIAL_BLOCK_NDX \in 0 .. 255 /\ 255 \in 0 .. 255
      BY DEF SerialInv, SerialTypes
    <3> QED
      BY <3>1, <3>2, Zenon
  <2>3. SerialTypes'
    BY <1>1, <1>7, <2>1, <2>2, Zenon DEF SerialInv, SerialTypes, BlockSize
  <2> QED
    BY <1>1, <2>3 DEF SerialInv, GotIsOfTheFile
<1>9. \A j \in 1 .. BlockSize : Answer(j)' = Answer(j)
  BY <1>1 DEF Answer, Count
<1>10. InRing' = InRing - 1 /\ Count' = Count /\ (GoesOn' <=> GoesOn)
  BY <1>1, <1>3 DEF InRing, Count, GoesOn
<1>11. \A j \in 1 .. BlockSize : j <= x + 1 => SERIAL_BUFFER'[j - 1] = Answer(j)
  <2> SUFFICES ASSUME NEW j \in 1 .. BlockSize, j <= x + 1
               PROVE  SERIAL_BUFFER'[j - 1] = Answer(j)
    OBVIOUS
  <2>1. CASE j = x + 1
    BY <1>3, <1>7, <2>1
  <2>2. CASE j # x + 1
    <3>1. j <= x /\ j - 1 \in 0 .. BlockSize - 1 /\ j - 1 # x
      BY <1>3, <2>2, BlockFacts
    <3> QED
      BY <1>4, <1>7, <3>1
  <2> QED
    BY <2>1, <2>2
<1>12. CASE x + 1 # BlockSize
  <2>1. gpc' = "reading" /\ Taken' = x + 1 /\ Requested'
    BY <1>1, <1>12 DEF Taken, Requested
  <2>2. BytesUnderWay'
    <3> SUFFICES ASSUME NEW j \in 1 .. BlockSize
                 PROVE  /\ j <= x + 1 => SERIAL_BUFFER'[j - 1] = Answer(j)
                        /\ x + 1 < j /\ j <= (x + 1) + (InRing - 1) =>
                             buffer[((buffer_pos_out + 1) + (j - (x + 1) - 1)) % RingSize]
                               = Byte("tool", Answer(j))
                        /\ (x + 1) + (InRing - 1) < j =>
                             fifo[j - ((x + 1) + (InRing - 1))] = Byte("tool", Answer(j))
      BY <1>1, <1>9, <1>10, <2>1 DEF BytesUnderWay, Byte, BlockSize
    <3>1. /\ (x + 1) + (InRing - 1) = x + InRing
          /\ (buffer_pos_out + 1) + (j - (x + 1) - 1) = buffer_pos_out + (j - x - 1)
          /\ x + 1 < j => x < j
      BY <1>3
    <3> QED
      BY <1>4, <1>11, <3>1
  <2>3. /\ offset' = Len(got') + Count' /\ buffer_pos_out' <= buffer_pos_in'
        /\ Taken' < BlockSize /\ Taken' + InRing' + Len(fifo') = BlockSize
    <3>1. x + 1 < BlockSize /\ (x + 1) + (InRing - 1) + Len(fifo) = BlockSize
          /\ buffer_pos_out + 1 <= buffer_pos_in
      BY <1>3, <1>12, BlockFacts
    <3> QED
      BY <1>1, <1>4, <1>10, <2>1, <3>1
  <2>4. Coming'
    BY <1>1, <1>2, <2>2, <2>3 DEF Coming, BlockSize
  <2> QED
    BY <1>1, <1>2, <1>8, <2>1, <2>4 DEF SerialInv, Turns
<1>13. CASE x + 1 = BlockSize
  <2>1. /\ gpc' = "get" /\ SERIAL_BLOCK_NDX' = 255 /\ ~Requested'
        /\ InRing = 1 /\ Len(fifo) = 0
    BY <1>1, <1>3, <1>13 DEF Requested
  <2>2. /\ fifo' = <<>> /\ buffer_pos_in' = buffer_pos_out' /\ spc' \in {"loop", "read"}
    <3>1. fifo = <<>>
      BY <2>1, EmptySeq DEF SerialInv, SerialTypes
    <3>2. spc # "stored" /\ buffer_pos_in - buffer_pos_out = 1
      BY <1>3, <2>1 DEF InRing
    <3>3. buffer_pos_in = buffer_pos_out + 1
      BY <1>3, <3>2
    <3> QED
      BY <1>1, <1>2, <3>1, <3>2, <3>3 DEF SerialInv, SerialTypes
  <2>3. BlockInMemory'
    <3> DEFINE used == (SERIAL_BLOCK_NDX + 1) % 256
    <3>1. used' = 0
      BY <2>1
    <3>2. \A j \in 1 .. BlockSize : SERIAL_BUFFER'[j - 1] = Answer(j)
      BY <1>11, <1>13
    <3>3. /\ SERIAL_BLOCK_SIZE' = Answer(BlockSize)
          /\ SERIAL_BLOCK_TYPE' = Answer(BlockData + 1)
      <4>1. /\ BlockSize \in 1 .. BlockSize /\ BlockData + 1 \in 1 .. BlockSize
            /\ (BlockData + 1) - 1 = BlockSize - 2
        BY BlockFacts
      <4> QED
        BY <3>2, <4>1 DEF SERIAL_BLOCK_SIZE, SERIAL_BLOCK_TYPE, BlockSize
    <3>4. /\ Count \in 0 .. BlockData /\ Len(got) \in Nat /\ Len(file) \in Nat
          /\ Len(file) - Len(got) <= BlockData => Len(got) + Count = Len(file)
          /\ ~(Len(file) - Len(got) <= BlockData) => Len(got) + Count < Len(file)
      BY AnswerFacts
    <3>5. SERIAL_BLOCK_SIZE' = Count
      BY <3>3, <3>4, BlockFacts DEF Answer
    <3>6. SERIAL_BLOCK_TYPE' = IF Len(file) - Len(got) <= BlockData THEN EOF_MARK ELSE 0
      BY <3>3, <3>4, BlockFacts DEF Answer
    <3>7. IF SERIAL_BLOCK_TYPE' = EOF_MARK THEN offset = Len(file) ELSE GoesOn'
      <4>1. CASE Len(file) - Len(got) <= BlockData
        BY <1>4, <3>4, <3>6, <4>1
      <4>2. CASE ~(Len(file) - Len(got) <= BlockData)
        <5>1. offset < Len(file) /\ SERIAL_BLOCK_TYPE' # EOF_MARK
          BY <1>4, <3>4, <3>6, <4>2 DEF EOF_MARK
        <5>2. tpc = "done" => offset = Len(file)
          BY <1>2, Zenon DEF Coming
        <5>3. tpc # "done"
          BY <3>4, <5>1, <5>2
        <5>4. GoesOn
          BY <5>1, <5>3 DEF GoesOn
        <5> QED
          BY <1>10, <5>1, <5>4
      <4> QED
        BY <4>1, <4>2
    <3>8. \A k \in 0 .. Count - 1 : SERIAL_BUFFER'[k] = file[Len(got) + (k - 0) + 1]
      <4> SUFFICES ASSUME NEW k \in 0 .. Count - 1
                   PROVE  SERIAL_BUFFER'[k] = file[Len(got) + (k - 0) + 1]
        OBVIOUS
      <4>1. /\ k + 1 \in 1 .. BlockSize /\ (k + 1) - 1 = k /\ k + 1 <= Count
            /\ Len(got) + (k + 1) = Len(got) + (k - 0) + 1
        BY <3>4, BlockFacts
      <4>2. SERIAL_BUFFER'[k] = Answer(k + 1)
        BY <3>2, <4>1, Zenon
      <4>3. Answer(k + 1) = file[Len(got) + (k + 1)]
        BY <4>1, Zenon DEF Answer
      <4> QED
        BY <4>1, <4>2, <4>3, Zenon
    <3>9. Count \in 0 .. BlockData /\ offset + 0 = Len(got) + Count
      BY <1>4, <3>4
    <3>10. offset' = offset /\ Len(got') = Len(got) /\ file' = file
      BY <1>1
    <3> HIDE DEF used
    <3>11. /\ SERIAL_BLOCK_SIZE' \in used' .. BlockData
           /\ offset' + used' = Len(got') + SERIAL_BLOCK_SIZE'
           /\ \A k \in used' .. SERIAL_BLOCK_SIZE' - 1 :
                SERIAL_BUFFER'[k] = file'[Len(got') + (k - used') + 1]
      BY <3>1, <3>5, <3>8, <3>9, <3>10
    <3> QED
      BY <3>7, <3>10, <3>11, Zenon DEF BlockInMemory, used
  <2>4. Idle'
    BY <1>1, <1>2, <2>1, <2>2, <2>3 DEF Idle, Coming
  <2> QED
    BY <1>1, <1>2, <1>8, <2>1, <2>2, <2>4 DEF SerialInv, Turns
<1> QED
  BY <1>12, <1>13

\* One step of the loader.
LEMMA GuestStep == SerialInv /\ Guest => SerialInv'
BY GetStep, AskStep, ReadBlockStep DEF Guest

\* The block the tool makes is the answer to the request: the bytes that
\* follow those the loader has taken.
LEMMA BlockIsTheAnswer ==
  ASSUME SerialInv, offset = Len(got)
  PROVE  \A j \in 1 .. BlockSize : Block(Len(file) - offset <= BlockData)[j] = Answer(j)
<1> DEFINE data == [i \in 1 .. BlockData |-> IF i <= Count THEN file[Len(got) + i] ELSE 85]
           mark == IF Len(file) - Len(got) <= BlockData THEN EOF_MARK ELSE 0
<1>1. Block(Len(file) - offset <= BlockData) = data \o <<mark, Count>>
  BY DEF Block, Count
<1>2. data \in Seq(Nat) /\ Len(data) = BlockData
  <2>1. \A i \in 1 .. BlockData : (IF i <= Count THEN file[Len(got) + i] ELSE 85) \in Nat
    <3> SUFFICES ASSUME NEW i \in 1 .. BlockData, i <= Count
                 PROVE  file[Len(got) + i] \in Nat
      OBVIOUS
    <3>1. Len(got) + i \in 1 .. Len(file)
      BY AnswerFacts, BlockFacts
    <3>2. file \in Seq(Nat)
      BY DEF SerialInv, SerialTypes
    <3> QED
      BY <3>1, <3>2, ElementOfSeq
  <2> QED
    BY <2>1, BlockFacts, IsASeq, LenProperties
<1>3. /\ mark \in Nat /\ Count \in Nat
      /\ <<mark, Count>> \in Seq(Nat) /\ Len(<<mark, Count>>) = 2
      /\ <<mark, Count>>[1] = mark /\ <<mark, Count>>[2] = Count
  <2>1. mark \in Nat /\ Count \in Nat
    BY AnswerFacts, BlockFacts DEF EOF_MARK
  <2> HIDE DEF mark
  <2> QED
    BY <2>1
<1>4. \A j \in 1 .. BlockData + 2 :
        (data \o <<mark, Count>>)[j]
          = IF j <= BlockData THEN data[j] ELSE <<mark, Count>>[j - BlockData]
  <2> HIDE DEF data, mark
  <2> QED
    BY <1>2, <1>3, ConcatProperties
<1> SUFFICES ASSUME NEW j \in 1 .. BlockSize
             PROVE  (data \o <<mark, Count>>)[j] = Answer(j)
  BY <1>1
<1>5. j \in 1 .. BlockData + 2
  BY BlockFacts
<1>6. CASE j <= BlockData
  <2>1. j \in 1 .. BlockData
    BY <1>5, <1>6
  <2>2. (data \o <<mark, Count>>)[j] = data[j]
    <3> HIDE DEF data, mark
    <3> QED
      BY <1>4, <1>5, <1>6, Zenon
  <2>3. data[j] = Answer(j)
    BY <1>6, <2>1 DEF Answer
  <2> QED
    BY <2>2, <2>3, Zenon
<1>7. CASE j > BlockData
  <2>1. (j = BlockData + 1 \/ j = BlockData + 2) /\ ~(j <= BlockData) /\ ~(j <= Count)
    BY <1>5, <1>7, BlockFacts, AnswerFacts
  <2>2. (data \o <<mark, Count>>)[j] = <<mark, Count>>[j - BlockData]
    BY <1>4, <1>5, <2>1, Zenon
  <2>3. Answer(j) = IF j = BlockData + 1 THEN mark ELSE Count
    BY <2>1, Zenon DEF Answer
  <2>4. /\ (BlockData + 1) - BlockData = 1 /\ (BlockData + 2) - BlockData = 2
        /\ BlockData + 2 # BlockData + 1
    BY BlockFacts
  <2> QED
    BY <1>3, <2>1, <2>2, <2>3, <2>4, Zenon
<1> QED
  BY <1>5, <1>6, <1>7, BlockFacts

\* The tool takes the request.
LEMMA ReceiveStep ==
  ASSUME SerialInv, receive
  PROVE  SerialInv'
<1>1. /\ tpc = "receive" /\ fifo # <<>> /\ fifo' = Tail(fifo) /\ tpc' = "send"
      /\ own' = (own \/ Head(fifo).from = "tool")
      /\ UNCHANGED <<can_write_data, buffer, buffer_pos_in, spc, buffer_pos_out, gpc,
                     SERIAL_BUFFER, SERIAL_BLOCK_NDX, x, got, file, offset>>
  BY DEF receive, threadVars, guestVars
<1>2. Requested /\ Asking /\ gpc = "sending"
  <2>1. ~Idle /\ ~Answering /\ ~Coming
    BY <1>1 DEF Idle, Answering, Coming
  <2> QED
    BY <2>1 DEF SerialInv, Turns, Asking
<1>3. /\ spc = "wait" /\ fifo = <<Request>> /\ buffer_pos_in = buffer_pos_out
      /\ offset = Len(got)
  BY <1>2 DEF Asking
<1>4. Head(fifo) = Request /\ Tail(fifo) = <<>> /\ Request.from = "guest"
  BY <1>3 DEF Request, Byte
<1>5. SerialTypes' /\ GotIsOfTheFile' /\ ~own'
  <2>1. fifo' \in Seq([from : {"guest", "tool"}, value : Nat])
    BY <1>1, <1>4, EmptySeq, Zenon
  <2> QED
    BY <1>1, <1>4, <2>1 DEF SerialInv, SerialTypes, GotIsOfTheFile
<1>6. Answering'
  BY <1>1, <1>2, <1>3, <1>4 DEF Answering, Taken
<1>7. Requested' /\ can_write_data'
  BY <1>1, <1>2, <1>3 DEF Requested, SerialInv, Turns
<1> QED
  BY <1>1, <1>2, <1>5, <1>6, <1>7 DEF SerialInv, Turns

\* The tool answers with a block.
LEMMA SendStep ==
  ASSUME SerialInv, send
  PROVE  SerialInv'
<1> DEFINE block == [i \in 1 .. BlockSize |->
                       Byte("tool", Block(Len(file) - offset <= BlockData)[i])]
<1>1. /\ tpc = "send" /\ tpc' = "wait" /\ fifo' = fifo \o block
      /\ offset' = offset + Least(BlockData, Len(file) - offset)
      /\ UNCHANGED <<can_write_data, own, buffer, buffer_pos_in, spc, buffer_pos_out, gpc,
                     SERIAL_BUFFER, SERIAL_BLOCK_NDX, x, got, file>>
  BY DEF send, Sends, threadVars, guestVars
<1>2. Requested /\ Answering
  BY <1>1 DEF SerialInv, Turns, Asking, Coming, Idle
<1>3. /\ fifo = <<>> /\ buffer_pos_in = buffer_pos_out /\ spc # "stored" /\ Taken = 0
      /\ offset = Len(got)
  BY <1>2, Zenon DEF Answering
<1>4. /\ fifo' \in Seq([from : {"guest", "tool"}, value : Nat])
      /\ Len(fifo') = BlockSize
      /\ \A j \in 1 .. BlockSize : fifo'[j] = Byte("tool", Answer(j))
  <2> DEFINE FifoByte == [from : {"guest", "tool"}, value : Nat]
  <2>1. ASSUME NEW j \in 1 .. BlockSize
        PROVE  block[j] = Byte("tool", Answer(j)) /\ block[j] \in FifoByte
    <3>1. Block(Len(file) - offset <= BlockData)[j] = Answer(j)
      BY <1>3, BlockIsTheAnswer
    <3>2. block[j] = Byte("tool", Answer(j))
      BY <3>1, Zenon
    <3>3. Answer(j) \in Nat
      BY AnswerFacts
    <3> HIDE DEF block
    <3> QED
      BY <3>2, <3>3 DEF Byte
  <2>2. block \in [1 .. BlockSize -> FifoByte]
    BY <2>1
  <2> HIDE DEF block, FifoByte
  <2>3. block \in Seq(FifoByte) /\ Len(block) = BlockSize
    BY <2>2, BlockFacts
  <2>4. fifo' = block
    BY <1>1, <1>3, <2>3, ConcatEmptySeq
  <2>5. fifo' \in Seq(FifoByte) /\ Len(fifo') = BlockSize
    BY <2>3, <2>4
  <2>6. \A j \in 1 .. BlockSize : fifo'[j] = Byte("tool", Answer(j))
    BY <2>1, <2>4
  <2> QED
    BY <2>5, <2>6 DEF FifoByte
<1>5. offset' = Len(got) + Count /\ offset' \in 0 .. Len(file)
  BY <1>1, <1>3, AnswerFacts DEF Count
<1>6. SerialTypes' /\ GotIsOfTheFile' /\ ~own'
  <2>1. SerialTypes'
    BY <1>1, <1>4, <1>5, Zenon DEF SerialInv, SerialTypes, BlockSize
  <2> QED
    BY <1>1, <2>1 DEF SerialInv, GotIsOfTheFile
<1>7. Taken' = 0 /\ InRing' = 0 /\ Count' = Count
  BY <1>1, <1>3 DEF Taken, InRing, Count, SerialInv, SerialTypes
<1>8. \A j \in 1 .. BlockSize : Answer(j)' = Answer(j)
  BY <1>1 DEF Answer, Count
<1>9. BytesUnderWay'
  <2> SUFFICES ASSUME NEW j \in 1 .. BlockSize
               PROVE  fifo'[j - (0 + 0)] = Byte("tool", Answer(j)) /\ ~(j <= 0) /\ ~(j <= 0 + 0)
    BY <1>7, <1>8 DEF BytesUnderWay, Byte, BlockSize
  <2>1. j - (0 + 0) = j /\ ~(j <= 0) /\ ~(j <= 0 + 0)
    BY BlockFacts
  <2> QED
    BY <1>4, <2>1, Zenon
<1>10. Coming'
  <2>1. Taken' < BlockSize /\ Taken' + InRing' + Len(fifo') = BlockSize
    BY <1>4, <1>7, BlockFacts
  <2>2. buffer_pos_out' <= buffer_pos_in'
    BY <1>1, <1>3 DEF SerialInv, SerialTypes
  <2>3. offset' = Len(got') + Count' /\ BlockSize' = BlockSize
    BY <1>1, <1>5, <1>7 DEF BlockSize
  <2> QED
    BY <1>1, <1>7, <1>9, <2>1, <2>2, <2>3 DEF Coming
<1>11. Requested'
  BY <1>1, <1>2 DEF Requested
<1> QED
  BY <1>1, <1>6, <1>10, <1>11 DEF SerialInv, Turns

\* The tool finds the FIFO empty.
LEMMA ToolWaitStep ==
  ASSUME SerialInv, tool_wait_for_other_end
  PROVE  SerialInv'
<1>1. /\ tpc = "wait" /\ fifo = <<>>
      /\ tpc' = IF offset < Len(file) THEN "receive" ELSE "done"
      /\ UNCHANGED <<fifo, can_write_data, own, buffer, buffer_pos_in, spc, buffer_pos_out, gpc,
                     SERIAL_BUFFER, SERIAL_BLOCK_NDX, x, got, file, offset>>
  BY DEF tool_wait_for_other_end, threadVars, guestVars
<1>2. SerialTypes' /\ GotIsOfTheFile' /\ ~own'
  BY <1>1 DEF SerialInv, SerialTypes, GotIsOfTheFile
<1>3. Taken' = Taken /\ InRing' = InRing /\ Count' = Count
  BY <1>1 DEF Taken, InRing, Count
<1>4. (Requested' <=> Requested) /\ ~Asking /\ ~Answering
  BY <1>1 DEF Requested, Asking, Answering
<1>5. /\ tpc' \in {"receive", "done"}
      /\ tpc' = "done" => offset = Len(file)
      /\ GoesOn => GoesOn'
  <2>1. offset \in Nat /\ Len(file) \in Nat /\ offset <= Len(file)
    BY LenProperties DEF SerialInv, SerialTypes
  <2>2. CASE offset < Len(file)
    BY <1>1, <2>1, <2>2 DEF GoesOn
  <2>3. CASE ~(offset < Len(file))
    <3>1. offset = Len(file)
      BY <2>1, <2>3
    <3> QED
      BY <1>1, <2>3, <3>1 DEF GoesOn
  <2> QED
    BY <2>2, <2>3
<1>6. ASSUME Coming PROVE Coming'
  BY <1>1, <1>3, <1>5, <1>6, BytesStay DEF Coming, BlockSize
<1>7. ASSUME Idle PROVE Idle'
  <2>1. gpc = "get" => BlockInMemory'
    BY <1>1, <1>5, <1>7 DEF Idle, BlockInMemory, SERIAL_BLOCK_SIZE, SERIAL_BLOCK_TYPE
  <2> QED
    BY <1>1, <1>5, <1>7, <2>1 DEF Idle
<1> QED
  BY <1>1, <1>2, <1>4, <1>6, <1>7 DEF SerialInv, Turns

\* One step of the upload tool.
LEMMA ToolStep == SerialInv /\ Tool => SerialInv'
BY ReceiveStep, SendStep, ToolWaitStep DEF Tool

\* A step of the disk.
LEMMA NothingSent == SerialInv /\ UNCHANGED vars => SerialInv'
<1> SUFFICES ASSUME SerialInv, UNCHANGED vars PROVE SerialInv'
  OBVIOUS
<1>1. UNCHANGED <<fifo, can_write_data, own, buffer, buffer_pos_in, spc, buffer_pos_out, gpc,
                  SERIAL_BUFFER, SERIAL_BLOCK_NDX, x, got, tpc, file, offset>>
  BY DEF vars, threadVars, guestVars, toolVars
<1>2. SerialTypes' /\ GotIsOfTheFile' /\ ~own'
  BY <1>1 DEF SerialInv, SerialTypes, GotIsOfTheFile
<1>3. Taken' = Taken /\ InRing' = InRing /\ (GoesOn' <=> GoesOn) /\ Count' = Count
  BY <1>1 DEF Taken, InRing, GoesOn, Count
<1>4. Requested' <=> Requested
  BY <1>1 DEF Requested
<1>5. ASSUME Asking PROVE Asking'
  BY <1>1, <1>3, <1>5 DEF Asking, Request
<1>6. ASSUME Answering PROVE Answering'
  BY <1>1, <1>3, <1>6 DEF Answering
<1>7. ASSUME Coming PROVE Coming'
  BY <1>1, <1>3, <1>7, BytesStay DEF Coming, BlockSize
<1>8. ASSUME Idle PROVE Idle'
  BY <1>1, <1>3, <1>8 DEF Idle, BlockInMemory, SERIAL_BLOCK_SIZE, SERIAL_BLOCK_TYPE
<1> QED
  BY <1>1, <1>2, <1>4, <1>5, <1>6, <1>7, <1>8 DEF SerialInv, Turns

\* A file begins with what agrees with it byte by byte.
LEMMA BeginsWith ==
  ASSUME NEW s \in Seq(Nat), NEW t \in Seq(Nat), Len(s) <= Len(t),
         \A i \in 1 .. Len(s) : s[i] = t[i]
  PROVE  IsPrefix(s, t)
<1>1. PICK n \in Nat : n = Len(s)
  BY LenProperties
<1>2. SubSeq(s, 1, n) = s
  BY <1>1, SubSeqFull
<1>3. \A i \in 1 .. n : t[i] \in Nat
  <2>1. Len(t) \in Nat
    BY LenProperties
  <2> QED
    BY <1>1, <2>1, ElementOfSeq
<1>4. /\ SubSeq(t, 1, n) \in Seq(Nat)
      /\ Len(SubSeq(t, 1, n)) = IF 1 <= n THEN n - 1 + 1 ELSE 0
      /\ \A i \in 1 .. n - 1 + 1 : SubSeq(t, 1, n)[i] = t[1 + i - 1]
  BY <1>3, SubSeqProperties
<1>5. Len(SubSeq(t, 1, n)) = n
  BY <1>4
<1>6. \A i \in 1 .. n : SubSeq(t, 1, n)[i] = t[i]
  <2> SUFFICES ASSUME NEW i \in 1 .. n PROVE SubSeq(t, 1, n)[i] = t[i]
    OBVIOUS
  <2>1. i \in 1 .. n - 1 + 1 /\ 1 + i - 1 = i
    OBVIOUS
  <2> QED
    BY <1>4, <2>1
<1>7. SubSeq(t, 1, n) = s
  BY <1>1, <1>4, <1>5, <1>6, SeqEqual
<1> QED
  BY <1>1, <1>2, <1>7 DEF IsPrefix

\* UploadArrives: for all sizes of blocks, rings and files, and every order of
\* the steps of the emulator thread, the serial thread and the tool, the loader
\* takes the bytes of the file in order and reports its end where it is, no end
\* of the FIFO reads back a byte of its own, and the ring, which the serial
\* thread does not check for being full, holds no more than a block.
THEOREM UploadIsWhole == LoadSpec => []UploadArrives
<1>1. LoadInit => SerialInv
  BY SerialInit DEF LoadInit
<1>2. SerialInv /\ [LoadNext]_loadVars => SerialInv'
  BY SerialThreadStep, GuestStep, ToolStep, NothingSent
     DEF LoadNext, FromDisk, FromThread, FromGuest, FromTool, loadVars
<1>3. SerialInv => UploadArrives
  <2> SUFFICES ASSUME SerialInv PROVE UploadArrives
    OBVIOUS
  <2>1. IsPrefix(got, file)
    <3>1. /\ got \in Seq(Nat) /\ file \in Seq(Nat)
          /\ Len(got) \in Nat /\ Len(got) <= Len(file) /\ Len(file) \in Nat
          /\ \A i \in 1 .. Len(got) : got[i] = file[i]
      BY LenProperties DEF SerialInv, SerialTypes, GotIsOfTheFile
    <3> QED
      BY <3>1, BeginsWith
  <2>2. gpc = "eof" => got = file
    BY DEF SerialInv, Turns, Requested, Idle
  <2>3. RingHoldsOneBlock
    <3>1. buffer_pos_in \in Nat /\ buffer_pos_out \in Nat /\ Taken \in Nat /\ Len(fifo) \in Nat
      BY LenProperties DEF SerialInv, SerialTypes, Taken
    <3>2. CASE buffer_pos_in = buffer_pos_out /\ spc # "stored"
      BY <3>1, <3>2, BlockFacts DEF RingHoldsOneBlock
    <3>3. CASE Coming
      <4>1. Taken + InRing + Len(fifo) = BlockSize
        BY <3>3 DEF Coming
      <4> QED
        BY <3>1, <4>1, BlockFacts DEF InRing, RingHoldsOneBlock
    <3> QED
      BY <3>2, <3>3 DEF SerialInv, Turns, Asking, Answering, Idle
  <2> QED
    BY <2>1, <2>2, <2>3 DEF UploadArrives, BytesArriveInOrder, NobodyReadsItsOwn, SerialInv
<1> QED
  BY <1>1, <1>2, <1>3, PTL DEF LoadSpec
=============================================================================
