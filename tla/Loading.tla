------------------------------- MODULE Loading ------------------------------
(***************************************************************************)
(* The two ways a program gets into the memory of the machine: from a file *)
(* of the storage device, by the block read of the driver (StorageBlock),  *)
(* or from the host through the serial port; device says which one a load  *)
(* takes.                                                                  *)
(*   The serial port of the emulator: the loader in the machine            *)
(* (asm/6502/os/serial.asm) asks for a block with one byte, the upload     *)
(* tool on the host (tools/serial) answers with a block.  The two programs *)
(* share one FIFO that both read and write (semu_fifo): each end that      *)
(* writes waits until the other end has read.  In the emulator a thread of *)
(* its own (frontend/linux/serial.c) moves the bytes between the FIFO and  *)
(* the machine.                                                            *)
(***************************************************************************)
EXTENDS Naturals, Sequences, SequencesExt

CONSTANTS
  BlockData,  (* bytes of the file in a block: BUFFER_SIZE - 2 of upload.c *)
  RingSize,   (* BUFFER_SIZE of serial.c                                   *)
  MaxBytes    (* bound of the size of the file                             *)

ASSUME SerialAssumption ==
  /\ BlockData \in 1 .. 253 /\ MaxBytes \in Nat
  /\ RingSize \in Nat /\ RingSize >= BlockData + 2

BlockSize == BlockData + 2   (* SERIAL_BLOCK_LAST *)
EOF_MARK  == 1               (* SERIAL_EOF_MARK   *)

VARIABLES
  fifo,               (* the bytes in the FIFO, with the end that wrote them *)
  buffer,             (* the ring of received bytes                          *)
  buffer_pos_in,      (* how many were received                              *)
  buffer_pos_out,     (* how many the machine has read                       *)
  can_write_data,     (* a byte of the machine waits to be written           *)
  spc,                (* where the serial thread is                          *)
  gpc,                (* where the loader is, on the emulator thread         *)
  SERIAL_BUFFER,      (* the block in the memory of the machine              *)
  SERIAL_BLOCK_NDX,   (* its last byte that was used                         *)
  x,                  (* how many bytes of a block were read                 *)
  got,                (* the bytes the loader has taken                      *)
  tpc,                (* where the upload tool is                            *)
  file,               (* the file that is uploaded                           *)
  offset,             (* how many bytes of it were read                      *)
  own                 (* an end has read a byte that it wrote itself         *)

threadVars == <<buffer, buffer_pos_in, spc>>
guestVars  == <<buffer_pos_out, gpc, SERIAL_BUFFER, SERIAL_BLOCK_NDX, x, got>>
toolVars   == <<tpc, file, offset>>
vars == <<fifo, can_write_data, own, threadVars, guestVars, toolVars>>

Byte(from, value) == [from |-> from, value |-> value]
Request == Byte("guest", 1)
Nothing == Byte("none", 0)

Init ==
  /\ fifo = <<>>
  /\ buffer = [i \in 0 .. RingSize - 1 |-> Nothing]
  /\ buffer_pos_in = 0 /\ buffer_pos_out = 0
  /\ can_write_data = FALSE
  /\ spc = "loop"
  /\ gpc = "get"
  /\ SERIAL_BUFFER = [i \in 0 .. BlockSize - 1 |-> 0]
  /\ SERIAL_BLOCK_NDX = 255
  /\ x = 0
  /\ got = <<>>
  /\ tpc = "receive"
  /\ \E n \in 0 .. MaxBytes : file = [i \in 1 .. n |-> i]
  /\ offset = 0
  /\ own = FALSE
-----------------------------------------------------------------------------
(* The serial thread of the emulator: receive_thread. *)

write_fifo ==
  /\ spc = "loop" /\ can_write_data
  /\ fifo' = Append(fifo, Request)
  /\ spc' = "wait"
  /\ UNCHANGED <<buffer, buffer_pos_in, can_write_data, own, guestVars, toolVars>>

wait_for_other_end_Skipped ==
  /\ spc = "wait"
  /\ can_write_data' = FALSE
  /\ spc' = "read"
  /\ UNCHANGED <<fifo, buffer, buffer_pos_in, own, guestVars, toolVars>>

wait_for_other_end_UntilEmpty ==
  /\ spc = "wait" /\ fifo = <<>>
  /\ can_write_data' = FALSE
  /\ spc' = "read"
  /\ UNCHANGED <<fifo, buffer, buffer_pos_in, own, guestVars, toolVars>>

\* It polls while there is exactly one byte in the FIFO.
wait_for_other_end ==
  /\ spc = "wait" /\ Len(fifo) # 1
  /\ can_write_data' = FALSE
  /\ spc' = "read"
  /\ UNCHANGED <<fifo, buffer, buffer_pos_in, own, guestVars, toolVars>>

nothing_to_write ==
  /\ spc = "loop" /\ ~can_write_data
  /\ spc' = "read"
  /\ UNCHANGED <<fifo, buffer, buffer_pos_in, can_write_data, own, guestVars, toolVars>>

\* The ring is not checked for being full.
read_fifo ==
  /\ spc = "read"
  /\ IF fifo = <<>>
     THEN spc' = "loop" /\ UNCHANGED <<fifo, buffer, own>>
     ELSE /\ buffer' = [buffer EXCEPT ![buffer_pos_in % RingSize] = Head(fifo)]
          /\ fifo' = Tail(fifo)
          /\ own' = (own \/ Head(fifo).from = "guest")
          /\ spc' = "stored"
  /\ UNCHANGED <<buffer_pos_in, can_write_data, guestVars, toolVars>>

stored ==
  /\ spc = "stored"
  /\ buffer_pos_in' = buffer_pos_in + 1
  /\ spc' = "loop"
  /\ UNCHANGED <<fifo, buffer, can_write_data, own, guestVars, toolVars>>

SerialThread ==
  \/ write_fifo \/ wait_for_other_end \/ nothing_to_write \/ read_fifo \/ stored
-----------------------------------------------------------------------------
(* The loader, on the emulator thread. *)

SERIAL_BLOCK_TYPE == SERIAL_BUFFER[BlockSize - 2]
SERIAL_BLOCK_SIZE == SERIAL_BUFFER[BlockSize - 1]

serial_get_LooksAtTypeFirst ==
  LET ndx == (SERIAL_BLOCK_NDX + 1) % 256
  IN  /\ gpc = "get"
      /\ SERIAL_BLOCK_NDX' = ndx
      /\ gpc' = IF SERIAL_BLOCK_TYPE = EOF_MARK /\ ndx > 0 THEN "eof"
                ELSE IF ndx # SERIAL_BLOCK_SIZE THEN "get" ELSE "ask"
      /\ got' = IF gpc' = "get" THEN Append(got, SERIAL_BUFFER[ndx]) ELSE got
      /\ UNCHANGED <<SERIAL_BUFFER, x, fifo, buffer_pos_out, can_write_data, own,
                     threadVars, toolVars>>

\* The next byte of the block; at its end the next block, or the end of file.
serial_get ==
  LET ndx == (SERIAL_BLOCK_NDX + 1) % 256
  IN  /\ gpc = "get"
      /\ SERIAL_BLOCK_NDX' = ndx
      /\ IF ndx # SERIAL_BLOCK_SIZE
         THEN got' = Append(got, SERIAL_BUFFER[ndx]) /\ UNCHANGED gpc
         ELSE /\ gpc' = IF SERIAL_BLOCK_TYPE = EOF_MARK THEN "eof" ELSE "ask"
              /\ UNCHANGED got
      /\ UNCHANGED <<SERIAL_BUFFER, x, fifo, buffer_pos_out, can_write_data, own,
                     threadVars, toolVars>>

\* serial_read_block asks for a block: semu_send.
semu_send ==
  /\ gpc = "ask"
  /\ can_write_data' = TRUE
  /\ gpc' = "sending"
  /\ UNCHANGED <<fifo, own, threadVars, toolVars, buffer_pos_out, SERIAL_BUFFER,
                 SERIAL_BLOCK_NDX, x, got>>

\* The emulator thread, and the machine with it, stands still until the
\* serial thread is done with the byte.
sent ==
  /\ gpc = "sending" /\ ~can_write_data
  /\ gpc' = "reading"
  /\ x' = 0
  /\ UNCHANGED <<fifo, can_write_data, own, threadVars, toolVars, buffer_pos_out,
                 SERIAL_BUFFER, SERIAL_BLOCK_NDX, got>>

ReadsByte(last) ==
  /\ gpc = "reading" /\ buffer_pos_in # buffer_pos_out
  /\ SERIAL_BUFFER' =
       [SERIAL_BUFFER EXCEPT ![x] = buffer[buffer_pos_out % RingSize].value]
  /\ buffer_pos_out' = buffer_pos_out + 1
  /\ x' = x + 1
  /\ IF x' = last THEN SERIAL_BLOCK_NDX' = 255 /\ gpc' = "get"
     ELSE UNCHANGED <<SERIAL_BLOCK_NDX, gpc>>
  /\ UNCHANGED <<fifo, can_write_data, own, threadVars, toolVars, got>>

serial_read_block_OneShort == ReadsByte(BlockSize - 1)

\* The loop of serial_read_block: semu_has_data, then semu_receive.
serial_read_block == ReadsByte(BlockSize)

Guest == serial_get \/ semu_send \/ sent \/ serial_read_block
-----------------------------------------------------------------------------
(* The upload tool. *)

Least(a, b) == IF a < b THEN a ELSE b

\* The block upload makes of the next bytes of the file: 0x55 fills it up.
Block(last) ==
  LET n == Least(BlockData, Len(file) - offset)
  IN  [i \in 1 .. BlockData |-> IF i <= n THEN file[offset + i] ELSE 85]
      \o <<IF last THEN EOF_MARK ELSE 0, n>>

\* upload_buffer waits for the byte of the destination.
receive ==
  /\ tpc = "receive" /\ fifo # <<>>
  /\ own' = (own \/ Head(fifo).from = "tool")
  /\ fifo' = Tail(fifo)
  /\ tpc' = "send"
  /\ UNCHANGED <<can_write_data, threadVars, guestVars, file, offset>>

Sends(last) ==
  /\ tpc = "send"
  /\ fifo' = fifo \o [i \in 1 .. BlockSize |-> Byte("tool", Block(last)[i])]
  /\ offset' = offset + Least(BlockData, Len(file) - offset)
  /\ tpc' = "wait"
  /\ UNCHANGED <<can_write_data, own, threadVars, guestVars, file>>

\* One write to the FIFO, which is atomic for a block of this size.
send == Sends(Len(file) - offset <= BlockData)

\* It polls while there is anything in the FIFO.
tool_wait_for_other_end ==
  /\ tpc = "wait" /\ fifo = <<>>
  /\ tpc' = IF offset < Len(file) THEN "receive" ELSE "done"
  /\ UNCHANGED <<fifo, can_write_data, own, threadVars, guestVars, file, offset>>

Tool == receive \/ send \/ tool_wait_for_other_end
-----------------------------------------------------------------------------
Next == SerialThread \/ Guest \/ Tool
-----------------------------------------------------------------------------
(* Properties *)

\* The end of the file is seen where it is: at the end of a full block too.
BytesArriveInOrder ==
  /\ IsPrefix(got, file)
  /\ gpc = "eof" => got = file

\* Although both ends read and write the same FIFO, no end reads back a byte
\* of its own.
NobodyReadsItsOwn == ~own

\* The ring of the emulator, which nothing checks for being full, never holds
\* more than one block: the loader asks for a block when it has used up the
\* one before.
RingHoldsOneBlock ==
  buffer_pos_in + (IF spc = "stored" THEN 1 ELSE 0) <= buffer_pos_out + BlockSize

\* The loader takes the bytes of the file in order and no others, through a
\* FIFO that both ends read and write, and a ring that nobody checks.
UploadArrives == BytesArriveInOrder /\ NobodyReadsItsOwn /\ RingHoldsOneBlock

\* The request of the loader came before the tool saw that its block was
\* taken: the tool waits for the FIFO to be empty, the emulator for the tool
\* to read.
Crossed == tpc = "wait" /\ spc = "wait" /\ fifo = <<Request>>

\* Nothing else holds an upload up: it ends, or a request and the wait of the
\* tool have crossed, and then the machine hangs.
OnlyCrossedRequestsHang == <>(gpc = "eof" \/ Crossed)
-----------------------------------------------------------------------------
CONSTANTS Sector, MaxLength, MaxSize
VARIABLES device, length, start, asked, pos, SIZE, ROS4, dest, X, pc

Disk == INSTANCE StorageBlock

ASSUME LoadingAssumption == Disk!BlockConstants

diskVars == <<length, start, asked, pos, SIZE, ROS4, dest, X, pc>>
loadVars == <<device, vars, diskVars>>

\* The way that is not taken has nothing to load.
LoadInit ==
  /\ device \in {"disk", "serial"}
  /\ Init /\ Disk!Init
  /\ device = "disk" => file = <<>>
  /\ device = "serial" => length = 0 /\ asked = 0

FromDisk   == device = "disk" /\ Disk!Next /\ UNCHANGED <<device, vars>>
BySerial   == device = "serial" /\ UNCHANGED <<device, diskVars>>
FromThread == SerialThread /\ BySerial
FromGuest  == Guest /\ BySerial
FromTool   == Tool /\ BySerial

LoadNext == FromDisk \/ FromThread \/ FromGuest \/ FromTool

\* The emulated CPU runs the driver; the threads and programs of the link are
\* scheduled.
LoadSpec ==
  /\ LoadInit /\ [][LoadNext]_loadVars
  /\ WF_loadVars(FromDisk) /\ WF_loadVars(FromThread)
  /\ WF_loadVars(FromGuest) /\ WF_loadVars(FromTool)
-----------------------------------------------------------------------------
(* Properties *)

\* Whatever the mix of sectors and bytes of a block read, the guest gets the
\* next bytes of the file, all of them and no more, the stream stands behind
\* them, and SIZE is their count when the call succeeds, what was left to read
\* when it fails.
ReadsWhatWasAsked == device = "disk" => Disk!ReadsWhatWasAsked

\* A load ends: the block read returns, and the upload comes to the end of
\* the file, or else a request of the loader and the wait of the tool have
\* crossed.  Nothing but that hangs the machine.
LoadsEnd == IF device = "disk" THEN Disk!Returns ELSE OnlyCrossedRequestsHang
=============================================================================
