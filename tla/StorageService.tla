--------------------------- MODULE StorageService ---------------------------
(***************************************************************************)
(* What the storage port promises to the driver in asm/6502/os/storage.asm *)
(* without its registers, its buffers and its thread: the driver sends a   *)
(* command, the device answers that command once, and the driver then      *)
(* reads the answer from its first byte on, as far as it wants.            *)
(***************************************************************************)
EXTENDS Naturals, Sequences

CONSTANTS
  Byte,      (* the values of a register                                   *)
  Requests,  (* the commands a driver sends, each a sequence of bytes      *)
  Answers,   (* Answers[r]: the answers the device may write for command r *)
  RetSize    (* RET_MAX_SIZE, the size of the answer buffer                *)

VARIABLES
  phase,     (* "idle", "sending", "asked" or "served"                     *)
  request,   (* the command of the driver                                  *)
  answer,    (* the answer buffer                                          *)
  reply      (* the bytes of the answer the driver has read so far         *)

vars == <<phase, request, answer, reply>>

\* A command writes the first bytes of the buffer and leaves the others.
Overlay(buffer, bytes) ==
  [i \in DOMAIN buffer |-> IF i < Len(bytes) THEN bytes[i + 1] ELSE buffer[i]]

Init ==
  /\ phase = "idle"
  /\ request = <<>>
  /\ answer \in [0 .. RetSize - 1 -> Byte]
  /\ reply = <<>>

Begin ==
  /\ phase = "idle"
  /\ request' \in Requests
  /\ phase' = "sending"
  /\ reply' = <<>>
  /\ UNCHANGED answer

Ask ==
  /\ phase = "sending"
  /\ phase' = "asked"
  /\ UNCHANGED <<request, answer, reply>>

\* The answer is an answer to the command that was sent.
Serve ==
  /\ phase = "asked"
  /\ \E a \in Answers[request] : answer' = Overlay(answer, a)
  /\ phase' = "served"
  /\ UNCHANGED <<request, reply>>

Notice ==
  /\ phase = "served"
  /\ phase' = "idle"
  /\ UNCHANGED <<request, answer, reply>>

\* The next byte read is the next byte of the answer.
Read ==
  /\ phase = "idle"
  /\ Len(reply) < RetSize
  /\ reply' = Append(reply, answer[Len(reply)])
  /\ UNCHANGED <<phase, request, answer>>

Next == Begin \/ Ask \/ Serve \/ Notice \/ Read

Spec == Init /\ [][Next]_vars
=============================================================================
