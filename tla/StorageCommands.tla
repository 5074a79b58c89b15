--------------------------- MODULE StorageCommands --------------------------
(***************************************************************************)
(* The commands of the storage device (src/storage.c), one action for each *)
(* case of the switch of process_command.  StoragePort shows that a        *)
(* command runs alone, on the bytes the driver sent, so a command is one   *)
(* step here.  An answer is the record of its length byte, its code and    *)
(* its data, as the driver reads it.                                       *)
(*                                                                         *)
(* The host file system is external: the contents of small files, which    *)
(* stdio takes into its buffer with the first read, the sorted listings of *)
(* scandir, and a limit on the streams that can be open.                   *)
(***************************************************************************)
EXTENDS Naturals, Sequences

CONSTANTS
  Files,       (* the paths of files                                       *)
  Contents,    (* Contents[f]: the bytes of file f at the start, or Absent *)
  Dirs,        (* the paths of directories                                 *)
  Root,        (* the directory that is the root of the storage            *)
  Listing,     (* Listing[d]: what scandir returns for d, or Absent        *)
  MaxOpen,     (* MAX_OPEN_FILES                                           *)
  SectorSize,  (* SECTOR_SIZE                                              *)
  Modes,       (* the modes a guest opens a directory with                 *)
  Indexes,     (* the entries of a list it asks for                        *)
  StreamLimit, (* how many FILE streams the host lets the process open     *)
  Null,        (* NULL                                                     *)
  Absent,      (* a path that does not exist                               *)
  Freed        (* what a slot points at once its entries were freed        *)

ASSUME CommandAssumption ==
  /\ MaxOpen \in Nat \ {0} /\ SectorSize \in Nat \ {0}
  /\ StreamLimit \in Nat \ {0}
  /\ Modes \subseteq Nat /\ Indexes \subseteq Nat
  /\ Root \in Dirs
  /\ Contents \in [Files -> Seq(Nat) \cup {Absent}] /\ Absent \notin Seq(Nat)

\* The codes of storage.c, under the numbers asm/fileops.md gives them.
RET_SUCCESS             == 0
ERR_INVALID_OPERATION   == 128
ERR_FILE_NOT_FOUND      == 129
ERR_EOF                 == 130
ERR_IO                  == 131
ERR_TOO_MANY_OPEN_FILES == 132
ERR_INVALID_FILE        == 133

Slots   == 0 .. MaxOpen - 1
Streams == 1 .. StreamLimit

\* An open FILE: its buffer is Absent until the first read.
OpenStream == [file : Files, writing : BOOLEAN,
               buffer : Seq(Nat) \cup {Absent}, pos : Nat]

\* An entry of a directory, of kind "self" for "." and "parent" for "..".
Entry == [kind : {"self", "parent", "plain"}, hidden : BOOLEAN, is_dir : BOOLEAN,
          name : STRING]

\* A directory has no name twice.
ASSUME ListingAssumption ==
  \A d \in Dirs : Listing[d] # Absent =>
    /\ Listing[d] \in Seq(Entry)
    /\ \A i, j \in DOMAIN Listing[d] :
         Listing[d][i].name = Listing[d][j].name => i = j

ASSUME NullAssumption == Null \notin OpenStream /\ Null \notin Streams

\* What a guest may name: every slot, and one index beyond the table.
Handles == 0 .. MaxOpen

VARIABLES
  content,       (* the files of the host                                  *)
  stream,        (* stream[s]: an open FILE, or Null                       *)
  file_handles,  (* file_handles[i]: a stream, or Null                     *)
  dir_handles,   (* dir_handles[i]: a list of entries, Freed, or Null    *)
  ret,           (* the answer buffer                                      *)
  last,          (* the command answered last, as the guest sent it        *)
  fault          (* the emulator has used memory that is not its own       *)

vars == <<content, stream, file_handles, dir_handles, ret, last, fault>>

Init ==
  /\ content = Contents
  /\ stream = [s \in Streams |-> Null]
  /\ file_handles = [i \in Slots |-> Null]
  /\ dir_handles = [i \in Slots |-> Null]
  /\ ret = [length |-> 0, code |-> RET_SUCCESS, data |-> <<>>]
  /\ last = <<"none">>
  /\ fault = FALSE

Answer(length, code, data) ==
  ret' = [length |-> length, code |-> code, data |-> data]

Fail(code) == Answer(1, code, <<>>)

FreeSlots(table) == {i \in Slots : table[i] = Null}
Lowest(S) == CHOOSE i \in S : \A j \in S : i <= j
-----------------------------------------------------------------------------
(* Files *)

CanOpen == \E s \in Streams : stream[s] = Null

cmd_storage_open_TakesSlotZero(writing, f) ==
  LET s == Lowest({t \in Streams : stream[t] = Null})
  IN  /\ last' = <<"open", f>>
      /\ CanOpen /\ content[f] # Absent /\ ~writing
      /\ stream' = [stream EXCEPT ![s] =
                      [file |-> f, writing |-> writing, buffer |-> Absent, pos |-> 0]]
      /\ file_handles' = [file_handles EXCEPT ![0] = s]
      /\ Answer(2, RET_SUCCESS, <<0>>)
      /\ UNCHANGED <<content, dir_handles, fault>>

\* fopen comes before the search for a slot: when every slot is taken the
\* stream stays open and nothing refers to it.
cmd_storage_open(writing, f) ==
  /\ last' = <<"open", f>>
  /\ IF ~CanOpen \/ (content[f] = Absent /\ ~writing)
     THEN /\ Fail(IF CanOpen THEN ERR_FILE_NOT_FOUND ELSE ERR_IO)
          /\ UNCHANGED <<content, stream, file_handles>>
     ELSE LET s == Lowest({t \in Streams : stream[t] = Null})
              i == Lowest(FreeSlots(file_handles))
          IN  /\ content' = IF writing THEN [content EXCEPT ![f] = <<>>]
                            ELSE content
              /\ stream' = [stream EXCEPT ![s] =
                              [file |-> f, writing |-> writing,
                               buffer |-> Absent, pos |-> 0]]
              /\ IF FreeSlots(file_handles) # {}
                 THEN /\ file_handles' = [file_handles EXCEPT ![i] = s]
                      /\ Answer(2, RET_SUCCESS, <<i>>)
                 ELSE /\ Fail(ERR_TOO_MANY_OPEN_FILES)
                      /\ UNCHANGED file_handles
  /\ UNCHANGED <<dir_handles, fault>>

get_file_handle(h) == IF h \in Slots THEN file_handles[h] ELSE Null

\* ERR_INVALID_FILE is overwritten before the answer is sent.
InvalidFile == Fail(ERR_INVALID_OPERATION)

cmd_storage_close_KeepsSlot(h) ==
  /\ last' = <<"close", h>>
  /\ get_file_handle(h) # Null
  /\ stream' = [stream EXCEPT ![file_handles[h]] = Null]
  /\ Answer(1, RET_SUCCESS, <<>>)
  /\ UNCHANGED <<content, file_handles, dir_handles, fault>>

cmd_storage_close_KeepsStream(h) ==
  /\ last' = <<"close", h>>
  /\ get_file_handle(h) # Null
  /\ file_handles' = [file_handles EXCEPT ![h] = Null]
  /\ Answer(1, RET_SUCCESS, <<>>)
  /\ UNCHANGED <<content, stream, dir_handles, fault>>

cmd_storage_close(h) ==
  /\ last' = <<"close", h>>
  /\ IF get_file_handle(h) = Null
     THEN InvalidFile /\ UNCHANGED <<stream, file_handles>>
     ELSE /\ stream' = [stream EXCEPT ![file_handles[h]] = Null]
          /\ file_handles' = [file_handles EXCEPT ![h] = Null]
          /\ Answer(1, RET_SUCCESS, <<>>)
  /\ UNCHANGED <<content, dir_handles, fault>>

\* The bytes a read takes its own from: those in the buffer of the stream.
Readable(s) ==
  IF stream[s].writing THEN <<>>
  ELSE IF stream[s].buffer = Absent THEN content[stream[s].file]
  ELSE stream[s].buffer

\* The next bytes of stream s, at most n.
Upcoming(s, n) ==
  LET from == stream[s].pos
      all  == Readable(s)
  IN  SubSeq(all, from + 1, IF from + n <= Len(all) THEN from + n ELSE Len(all))

Consume(s, n) ==
  stream' = [stream EXCEPT ![s].buffer = Readable(s), ![s].pos = @ + n]

cmd_read_byte(h) ==
  /\ last' = <<"byte", h>>
  /\ IF get_file_handle(h) = Null
     THEN InvalidFile /\ UNCHANGED stream
     ELSE LET s    == file_handles[h]
              next == Upcoming(s, 1)
          IN  /\ Consume(s, Len(next))
              /\ IF next = <<>> THEN Fail(ERR_EOF)
                 ELSE Answer(2, RET_SUCCESS, next)
  /\ UNCHANGED <<content, file_handles, dir_handles, fault>>

cmd_read_sector_ConsumesAll(h) ==
  LET s    == file_handles[h]
      next == Upcoming(s, SectorSize)
  IN  /\ last' = <<"sector", h>>
      /\ get_file_handle(h) # Null /\ next # <<>>
      /\ Consume(s, SectorSize)
      /\ Answer(3, RET_SUCCESS, <<Len(next) % SectorSize>> \o next)
      /\ UNCHANGED <<content, file_handles, dir_handles, fault>>

\* A stream opened for writing has an error, not an end of file.
cmd_read_sector(h) ==
  /\ last' = <<"sector", h>>
  /\ IF get_file_handle(h) = Null
     THEN InvalidFile /\ UNCHANGED stream
     ELSE LET s    == file_handles[h]
              next == Upcoming(s, SectorSize)
              n    == Len(next)
          IN  /\ Consume(s, n)
              /\ IF n > 0
                 THEN Answer(3, RET_SUCCESS, <<n % SectorSize>> \o next)
                 ELSE Fail(IF stream[s].writing THEN ERR_IO ELSE ERR_EOF)
  /\ UNCHANGED <<content, file_handles, dir_handles, fault>>
-----------------------------------------------------------------------------
(* Directories. *)

Bit(mode, b) == (mode \div b) % 2 = 1

\* Bit 0 of the mode keeps the hidden entries, and without it they are left out.
\* That is the other way round from what storage.asm says of storage_dir_open,
\* "bit 0 - skip hidden files".
Kept(mode, d, e) ==
  /\ e.kind # "self"
  /\ e.kind = "parent" => d # Root
  /\ e.kind = "plain" => Bit(mode, 1) \/ ~e.hidden
  /\ Bit(mode, 2) => ~e.is_dir

\* The positions of d that are kept, and those of them with a directory.
KeptOf(mode, d) == {i \in DOMAIN Listing[d] : Kept(mode, d, Listing[d][i])}
DirsOf(mode, d) == {i \in KeptOf(mode, d) : Listing[d][i].is_dir}

\* The elements of a sequence at some of its positions, in their order.
Picked(list, positions) ==
  LET upTo[n \in 0 .. Len(list)] ==
        IF n = 0 THEN <<>>
        ELSE IF n \in positions THEN Append(upTo[n - 1], list[n])
        ELSE upTo[n - 1]
  IN  upTo[Len(list)]

Entries_FilesFirst(mode, d) ==
  Picked(Listing[d], KeptOf(mode, d) \ DirsOf(mode, d)) \o Picked(Listing[d], DirsOf(mode, d))

\* The entries in the order of scandir, with the directories moved to the
\* front when neither of the two mode bits is set.
Entries(mode, d) ==
  IF mode % 4 # 0 THEN Picked(Listing[d], KeptOf(mode, d))
  ELSE Picked(Listing[d], DirsOf(mode, d))
         \o Picked(Listing[d], KeptOf(mode, d) \ DirsOf(mode, d))

cmd_read_dir_AnySlot(mode, d) ==
  /\ last' = <<"dir_open", mode, d>>
  /\ Listing[d] # Absent
  /\ \E i \in Slots :
       /\ dir_handles' = [dir_handles EXCEPT ![i] = Entries(mode, d)]
       /\ Answer(4, RET_SUCCESS, <<i, Len(Entries(mode, d))>>)
  /\ UNCHANGED <<content, stream, file_handles, fault>>

\* When scandir fails the loop has nothing to do, and free is called on a
\* pointer that was never set: it may do no harm.
cmd_read_dir(mode, d) ==
  /\ last' = <<"dir_open", mode, d>>
  /\ IF FreeSlots(dir_handles) = {}
     THEN Fail(ERR_TOO_MANY_OPEN_FILES) /\ UNCHANGED <<dir_handles, fault>>
     ELSE LET i       == Lowest(FreeSlots(dir_handles))
              fails   == Listing[d] = Absent \/ ~CanOpen
              entries == IF fails THEN <<>> ELSE Entries(mode, d)
          IN  /\ dir_handles' =
                   IF entries = <<>> THEN dir_handles
                   ELSE [dir_handles EXCEPT ![i] = entries]
              /\ Answer(4, RET_SUCCESS, <<i, Len(entries)>>)
              /\ fault' \in IF fails THEN BOOLEAN ELSE {FALSE}
  /\ UNCHANGED <<content, stream, file_handles>>

\* dir_handles is read at the index the guest sends, beyond its end too; what
\* lies there may be zero, or be taken for a list.
ReadsBeyond(h) == h \notin Slots
IsFreed(h) == h \in Slots /\ dir_handles[h] = Freed

BadDirHandle(h) ==
  \/ fault' = TRUE /\ (ReadsBeyond(h) \/ IsFreed(h)) /\ UNCHANGED ret
  \/ fault' = FALSE /\ ReadsBeyond(h) /\ Fail(ERR_INVALID_FILE)

cmd_get_dir_entry(h, index) ==
  /\ last' = <<"dir_entry", h, index>>
  /\ IF ReadsBeyond(h) \/ IsFreed(h)
     THEN BadDirHandle(h)
     ELSE /\ fault' = FALSE
          /\ IF dir_handles[h] = Null THEN Fail(ERR_INVALID_FILE)
             ELSE IF index < Len(dir_handles[h])
             THEN Answer(0, RET_SUCCESS, <<dir_handles[h][index + 1]>>)
             ELSE Fail(ERR_EOF)
  /\ UNCHANGED <<content, stream, file_handles, dir_handles>>

\* The entries are freed, the slot still points at them, and the result goes
\* to cmd in place of ret.
cmd_close_dir(h) ==
  /\ last' = <<"dir_close", h>>
  /\ IF ReadsBeyond(h) \/ IsFreed(h)
     THEN BadDirHandle(h) /\ UNCHANGED dir_handles
     ELSE /\ fault' = FALSE
          /\ IF dir_handles[h] = Null
             THEN Fail(ERR_INVALID_FILE) /\ UNCHANGED dir_handles
             ELSE /\ dir_handles' = [dir_handles EXCEPT ![h] = Freed]
                  /\ UNCHANGED ret
  /\ UNCHANGED <<content, stream, file_handles>>

\* After a memory fault nothing is known of the process.
Next ==
  /\ ~fault
  /\ \/ \E w \in BOOLEAN, f \in Files : cmd_storage_open(w, f)
     \/ \E h \in Handles : cmd_storage_close(h)
     \/ \E h \in Handles : cmd_read_byte(h)
     \/ \E h \in Handles : cmd_read_sector(h)
     \/ \E m \in Modes, d \in Dirs : cmd_read_dir(m, d)
     \/ \E h \in Handles, x \in Indexes : cmd_get_dir_entry(h, x)
     \/ \E h \in Handles : cmd_close_dir(h)

Spec == Init /\ [][Next]_vars
-----------------------------------------------------------------------------
(* Properties *)

\* A slot never holds a stream that was closed, and no two slots hold the
\* same: every fclose of the device is of a stream that is open.
SlotsHoldOpenStreams ==
  /\ \A i \in Slots : file_handles[i] # Null => stream[file_handles[i]] # Null
  /\ \A i, j \in Slots :
       file_handles[i] = file_handles[j] /\ file_handles[i] # Null => i = j

Lost(s) == stream[s] # Null /\ \A i \in Slots : file_handles[i] # s

\* A handle keeps its stream until it is closed: an open only takes a slot
\* that was free, and answers with that slot.  A list of entries, too, stays in
\* its slot until its guest closes it.  The only stream that can be left open
\* with no slot to close it by is the one fopen returned while every slot was
\* taken.
HandlesStayPut ==
  [][/\ \A i \in Slots :
          /\ file_handles'[i] # file_handles[i] =>
               \/ /\ last'[1] = "open" /\ file_handles[i] = Null
                  /\ ret'.code = RET_SUCCESS /\ ret'.data = <<i>>
               \/ last' = <<"close", i>> /\ file_handles'[i] = Null
          /\ dir_handles'[i] # dir_handles[i] =>
               dir_handles[i] = Null \/ last' = <<"dir_close", i>>
     /\ \A s \in Streams : ~Lost(s) /\ Lost(s)' => FreeSlots(file_handles) = {}]_vars

\* The count a guest decodes from an answer: a sector count of zero stands
\* for a full sector.
DecodedCount(command, data) ==
  IF command = "byte" THEN 1
  ELSE IF data[1] = 0 THEN SectorSize ELSE data[1]

\* A read moves its stream on by the count the guest decodes, so that the
\* next read, by byte or by sector, continues where this one ended, and moves
\* no other stream, although two of them may be open on the same file.
ReadsMoveByTheirCount ==
  [][\A h \in Slots :
       /\ last' \in {<<"byte", h>>, <<"sector", h>>}
       /\ ret'.code = RET_SUCCESS /\ file_handles[h] # Null
       => LET s == file_handles[h]
              n == DecodedCount(last'[1], ret'.data)
          IN  /\ stream'[s].pos = stream[s].pos + n
              /\ SubSeq(Readable(s), stream[s].pos + 1, stream[s].pos + n)
                   = (IF last'[1] = "byte" THEN ret'.data ELSE Tail(ret'.data))
              /\ \A t \in Streams \ {s} : stream'[t] = stream[t]]_vars

Opened == last[1] = "dir_open" /\ ret.code = RET_SUCCESS /\ ret.data[2] > 0

\* The list a directory was opened with has the entries of scandir that the
\* code keeps, as many as the answer says, with the directories first when no
\* mode bit is set and each kind in alphabetical order.  What it says of the
\* hidden ones is what the code does, the opposite of what storage.asm says of
\* bit 0 (Kept).
ListingIsOrdered ==
  Opened =>
    LET mode == last[2]
        all  == Listing[last[3]]
        list == dir_handles[ret.data[1]]
        At(e) == CHOOSE i \in DOMAIN all : all[i] = e
    IN  /\ Len(list) = ret.data[2]
        /\ \A i \in DOMAIN all :
             Kept(mode, last[3], all[i]) <=> \E j \in DOMAIN list : list[j] = all[i]
        /\ \A i, j \in DOMAIN list :
             i < j => /\ mode = 0 => (list[j].is_dir => list[i].is_dir)
                      /\ list[i].is_dir = list[j].is_dir => At(list[i]) < At(list[j])
=============================================================================
