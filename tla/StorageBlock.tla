---------------------------- MODULE StorageBlock ----------------------------
(***************************************************************************)
(* storage_file_read_block of asm/6502/os/storage.asm: the guest asks for  *)
(* SIZE bytes of a file, and the driver reads sectors while the high byte  *)
(* of SIZE is not zero, then single bytes.  The sector and byte commands   *)
(* answer as StorageCommands says: a sector with its count modulo the      *)
(* sector size, and an end of file only when no byte is left.              *)
(*                                                                         *)
(* A step is one turn of a loop of the driver.  The file holds the bytes   *)
(* 1, 2, 3, ..., so that a byte names its position.                        *)
(***************************************************************************)
EXTENDS Naturals, Sequences

CONSTANTS
  Sector,    (* SECTOR_SIZE, and the base of the two bytes of SIZE         *)
  MaxLength, (* bound of the lengths of files looked at                    *)
  MaxSize    (* bound of the sizes asked for                               *)

BlockConstants ==
  Sector \in Nat \ {0} /\ MaxLength \in Nat /\ MaxSize \in Nat

SUCCESS == 0
EOF     == 130

VARIABLES
  length,  (* the length of the file                                       *)
  start,   (* the position of the stream when the driver was called        *)
  asked,   (* SIZE when the driver was called                              *)
  pos,     (* the position of the stream                                   *)
  SIZE,    (* the guest variable SIZE                                      *)
  ROS4,    (* bytes read total                                             *)
  dest,    (* what was stored from DST_ADDR on                             *)
  X,       (* the status in register X                                     *)
  pc

vars == <<length, start, asked, pos, SIZE, ROS4, dest, X, pc>>
call == <<length, start, asked>>

Init ==
  /\ length \in 0 .. MaxLength
  /\ start \in 0 .. length
  /\ asked \in 0 .. MaxSize
  /\ pos = start
  /\ SIZE = asked
  /\ ROS4 = 0
  /\ dest = <<>>
  /\ X = SUCCESS
  /\ pc = "read_next_block"

HighByte(n) == n \div Sector

\* How many bytes the sector command reads.
SectorBytes == IF length - pos < Sector THEN length - pos ELSE Sector

\* The bytes of the file after the position of the stream.
Bytes(n) == [i \in 1 .. n |-> pos + i]

copy_block_StopsAtZero ==
  LET answered == SectorBytes % Sector
  IN  /\ pc = "read_next_block" /\ HighByte(SIZE) # 0 /\ SectorBytes > 0
      /\ pos' = pos + SectorBytes
      /\ dest' = dest \o Bytes(answered)
      /\ ROS4' = ROS4 + SectorBytes
      /\ IF answered = 0
         THEN SIZE' = SIZE - SectorBytes /\ UNCHANGED <<pc, X>>
         ELSE SIZE' = ROS4' /\ X' = SUCCESS /\ pc' = "done"
      /\ UNCHANGED call

\* A full sector is answered with the count 0, copied as 256 bytes, and
\* followed by the next one; a shorter sector ends the call.
copy_block ==
  LET answered == SectorBytes % Sector
      ROS2     == IF answered = 0 THEN Sector ELSE answered
  IN  /\ pc = "read_next_block" /\ HighByte(SIZE) # 0 /\ SectorBytes > 0
      /\ pos' = pos + SectorBytes
      /\ dest' = dest \o Bytes(ROS2)
      /\ ROS4' = ROS4 + ROS2
      /\ IF answered = 0
         THEN SIZE' = SIZE - ROS2 /\ UNCHANGED <<pc, X>>
         ELSE SIZE' = ROS4' /\ X' = SUCCESS /\ pc' = "done"
      /\ UNCHANGED call

sector_fails_TriesAgain ==
  /\ pc = "read_next_block" /\ HighByte(SIZE) # 0 /\ SectorBytes = 0
  /\ X' = EOF
  /\ UNCHANGED <<call, pos, SIZE, ROS4, dest, pc>>

\* The sector command fails: the driver returns at once, with SIZE as it is.
sector_fails ==
  /\ pc = "read_next_block" /\ HighByte(SIZE) # 0 /\ SectorBytes = 0
  /\ X' = EOF
  /\ pc' = "done"
  /\ UNCHANGED <<call, pos, SIZE, ROS4, dest>>

read_next_byte ==
  /\ pc = "read_next_block" /\ HighByte(SIZE) = 0 /\ SIZE > 0 /\ pos < length
  /\ pos' = pos + 1
  /\ dest' = dest \o Bytes(1)
  /\ ROS4' = ROS4 + 1
  /\ SIZE' = SIZE - 1
  /\ UNCHANGED <<call, X, pc>>

no_more_bytes_KeepsSize ==
  /\ pc = "read_next_block" /\ HighByte(SIZE) = 0
  /\ SIZE = 0 \/ pos = length
  /\ X' = SUCCESS
  /\ pc' = "done"
  /\ UNCHANGED <<call, pos, SIZE, ROS4, dest>>

no_more_bytes ==
  /\ pc = "read_next_block" /\ HighByte(SIZE) = 0
  /\ SIZE = 0 \/ pos = length
  /\ SIZE' = ROS4
  /\ X' = SUCCESS
  /\ pc' = "done"
  /\ UNCHANGED <<call, pos, ROS4, dest>>

Next == copy_block \/ sector_fails \/ read_next_byte \/ no_more_bytes

-----------------------------------------------------------------------------
(* Properties *)

\* What the guest asked for, as far as the file has it.
Available == IF length - start < asked THEN length - start ELSE asked

\* Whatever the mix of sectors and bytes, the guest gets the next bytes of the
\* file, all of them and no more, and the stream stands behind them;
\* when the call succeeds, SIZE is their count.  When it fails, which is when a
\* sector is asked for at the end of the file, SIZE is what was left to read,
\* so the bytes that did arrive can only be counted by who knows what was asked:
\* storage.asm says "bytes read at SIZE (0 = error or not read)", which is not so.
ReadsWhatWasAsked ==
  pc = "done" =>
    /\ dest = [i \in 1 .. Available |-> start + i]
    /\ pos = start + Available
    /\ SIZE = IF X = SUCCESS THEN Len(dest) ELSE asked - Len(dest)

\* The call returns: the sectors and the bytes left come down to zero.
Returns == <>(pc = "done")
=============================================================================
