----------------------------- MODULE StoragePort ----------------------------
(***************************************************************************)
(* The storage port of the emulator: the registers of src/storage.c, the   *)
(* thread that processes the commands, and the guest driver of             *)
(* asm/6502/os/storage.asm that the emulated CPU runs on the emulator      *)
(* thread.  The two threads share every register without any lock.  Each   *)
(* access to a shared variable is a step; the build (gcc -O2 on x86) keeps *)
(* the stores of processor_thread_function in program order.               *)
(*                                                                         *)
(* What a command does is the subject of StorageCommands; here it is any   *)
(* answer the command may give, written over the first bytes of ret.       *)
(***************************************************************************)
EXTENDS Naturals, Sequences

CONSTANTS
  Byte,      (* the values of a register                                   *)
  Requests,  (* the commands a driver sends, each a sequence of bytes      *)
  Answers,   (* Answers[r]: the answers the switch may write for command r *)
  Leaves,    (* Leaves[r]: what it may write over the command itself       *)
  CmdSize,   (* CMD_MAX_SIZE                                               *)
  RetSize    (* RET_MAX_SIZE                                               *)

\* The command code fixes how many bytes follow (a path ends with a zero),
\* so no command begins another; commands and answers fit their buffers.
ASSUME SizeAssumption ==
  /\ CmdSize \in Nat \ {0}
  /\ RetSize \in Nat \ {0}
  /\ 0 \in Byte

ASSUME RequestAssumption ==
  /\ \A r \in Requests : r \in Seq(Byte) /\ Len(r) \in 1 .. CmdSize
  /\ \A r, s \in Requests :
       (Len(r) <= Len(s) /\ \A i \in 1 .. Len(r) : r[i] = s[i]) => r = s

ASSUME AnswerAssumption ==
  \A r \in Requests : \A a \in Answers[r] : a \in Seq(Byte) /\ Len(a) <= RetSize

ASSUME LeavesAssumption ==
  \A r \in Requests : \A l \in Leaves[r] : l \in Seq(Byte)

IDLE       == 0
PROCESSING == 1
DONE       == 255
On         == 255   (* what the driver stores in an enable register *)

VARIABLES
  \* the globals of storage.c
  cmd, cmd_index, write_data, cmd_write_enable,
  ret, ret_index, read_data, ret_read_enable,
  status, process_command_enable,
  tpc,       (* where the processor thread is                              *)
  cpc,       (* where the driver is                                        *)
  request,   (* the command the driver is sending, or has sent             *)
  sent,      (* how many of its bytes the driver has sent                  *)
  reply      (* the bytes of the answer the driver has read                *)

cmdVars    == <<cmd, cmd_index, write_data, cmd_write_enable>>
retVars    == <<ret_index, read_data, ret_read_enable>>
driverVars == <<request, sent, reply>>
vars == <<cmdVars, ret, retVars, status, process_command_enable,
          tpc, cpc, driverVars>>

\* The processor thread is inside process_command.
Inside == {"start", "execute", "rewind", "prefetch", "finish"}

\* The driver is in storage_write or before storage_proceed, in storage_read.
Sending == {"write_ready", "write_data", "write_strobe", "proceed"}
Reading == {"reading", "read_data", "read_strobe"}

Init ==
  /\ cmd = [i \in 0 .. CmdSize - 1 |-> 0]
  /\ ret = [i \in 0 .. RetSize - 1 |-> 0]
  /\ cmd_index = 0 /\ ret_index = 0
  /\ write_data = 0 /\ read_data = 0
  /\ cmd_write_enable = 0 /\ ret_read_enable = 0
  /\ status = IDLE
  /\ process_command_enable = FALSE
  /\ tpc = "poll" /\ cpc = "idle"
  /\ request = <<>> /\ sent = 0 /\ reply = <<>>
-----------------------------------------------------------------------------
(* The register handlers, on the emulator thread. *)

cmd_write ==
  /\ IF cmd_index < CmdSize
     THEN /\ cmd' = [cmd EXCEPT ![cmd_index] = write_data]
          /\ cmd_index' = cmd_index + 1
     ELSE UNCHANGED <<cmd, cmd_index>>
  /\ cmd_write_enable' = 0

\* With the answer buffer exhausted the enable register keeps `enable`.
ret_data(enable) ==
  IF ret_index < RetSize
  THEN /\ ret_read_enable' = 0
       /\ read_data' = ret[ret_index]
       /\ ret_index' = ret_index + 1
  ELSE /\ ret_read_enable' = enable
       /\ UNCHANGED <<read_data, ret_index>>

write_write_enable(value) ==
  /\ IF value # 0
     THEN cmd_write
     ELSE cmd_write_enable' = value /\ UNCHANGED <<cmd, cmd_index>>
  /\ UNCHANGED <<write_data, ret, retVars, status, process_command_enable>>

write_write_data(value) ==
  /\ write_data' = value
  /\ UNCHANGED <<cmd, cmd_index, cmd_write_enable, ret, retVars, status,
                 process_command_enable>>

write_read_enable(value) ==
  /\ IF value # 0
     THEN ret_data(value)
     ELSE ret_read_enable' = value /\ UNCHANGED <<read_data, ret_index>>
  /\ UNCHANGED <<cmdVars, ret, status, process_command_enable>>

write_write_reset ==
  /\ cmd_index' = 0
  /\ UNCHANGED <<cmd, write_data, cmd_write_enable, ret, retVars, status,
                 process_command_enable>>

write_read_reset ==
  /\ ret_index' = 0
  /\ UNCHANGED <<cmdVars, ret, read_data, ret_read_enable, status,
                 process_command_enable>>

write_proceed ==
  /\ process_command_enable' = TRUE
  /\ UNCHANGED <<cmdVars, ret, retVars, status>>

\* Reading the status register while it says DONE puts it back to IDLE.
read_status(value) ==
  /\ value = status
  /\ status' = IF status = DONE THEN IDLE ELSE status
  /\ UNCHANGED <<cmdVars, ret, retVars, process_command_enable>>
-----------------------------------------------------------------------------
(* The driver: storage_write, storage_proceed and storage_read, as the     *)
(* procedures of storage.asm string them together.                         *)

Goto(from, to) == cpc = from /\ cpc' = to

\* A driver procedure is called; its command is the one in `request`.
CallDriver ==
  /\ Goto("idle", "write_ready")
  /\ request' \in Requests
  /\ sent' = 0 /\ reply' = <<>>
  /\ UNCHANGED <<cmdVars, ret, retVars, status, process_command_enable, tpc>>

\* ST_WRITE_RESET is stored before the first command, as the tests do; the
\* port also decodes ST_READ_RESET.
ResetPort ==
  /\ cpc = "idle"
  /\ write_write_reset \/ write_read_reset
  /\ UNCHANGED <<tpc, cpc, driverVars>>

WriteReady ==
  /\ Goto("write_ready", "write_data")
  /\ cmd_write_enable = 0
  /\ UNCHANGED <<cmdVars, ret, retVars, status, process_command_enable, tpc,
                 driverVars>>

WriteData ==
  /\ Goto("write_data", "write_strobe")
  /\ write_write_data(request[sent + 1])
  /\ UNCHANGED <<tpc, driverVars>>

WriteStrobe ==
  /\ Goto("write_strobe",
          IF sent + 1 = Len(request) THEN "proceed" ELSE "write_ready")
  /\ write_write_enable(On)
  /\ sent' = sent + 1
  /\ UNCHANGED <<tpc, request, reply>>

Proceed ==
  /\ Goto("proceed", "status")
  /\ write_proceed
  /\ UNCHANGED <<tpc, driverVars>>

PollStatus_TakesBusyForDone ==
  /\ Goto("status", "reading")
  /\ read_status(DONE) \/ read_status(PROCESSING)
  /\ UNCHANGED <<tpc, driverVars>>

\* storage_proceed spins until the status reads DONE; a turn of the loop
\* that reads another value changes nothing.
PollStatus ==
  /\ Goto("status", "reading")
  /\ read_status(DONE)
  /\ UNCHANGED <<tpc, driverVars>>

ReadReady ==
  /\ Goto("reading", "read_data")
  /\ Len(reply) < RetSize
  /\ ret_read_enable = 0
  /\ UNCHANGED <<cmdVars, ret, retVars, status, process_command_enable, tpc,
                 driverVars>>

ReadData ==
  /\ Goto("read_data", "read_strobe")
  /\ reply' = Append(reply, read_data)
  /\ UNCHANGED <<cmdVars, ret, retVars, status, process_command_enable, tpc,
                 request, sent>>

ReadStrobe ==
  /\ Goto("read_strobe", "reading")
  /\ write_read_enable(On)
  /\ UNCHANGED <<tpc, driverVars>>

\* The driver returns, whether or not it has read the whole answer.
ReturnFromDriver ==
  /\ Goto("reading", "idle")
  /\ UNCHANGED <<cmdVars, ret, retVars, status, process_command_enable, tpc,
                 driverVars>>

Driver ==
  \/ CallDriver \/ ResetPort
  \/ WriteReady \/ WriteData \/ WriteStrobe
  \/ Proceed \/ PollStatus
  \/ ReadReady \/ ReadData \/ ReadStrobe \/ ReturnFromDriver
-----------------------------------------------------------------------------
(* The processor thread. *)

Step(from, to) == tpc = from /\ tpc' = to

PollEnable ==
  /\ Step("poll", "start")
  /\ process_command_enable
  /\ UNCHANGED <<cmdVars, ret, retVars, status, process_command_enable, cpc,
                 driverVars>>

StartCommand ==
  /\ Step("start", "execute")
  /\ status' = PROCESSING
  /\ UNCHANGED <<cmdVars, ret, retVars, process_command_enable, cpc, driverVars>>

\* The command that the first bytes of cmd spell.
Holds(r) == \A i \in 1 .. Len(r) : cmd[i - 1] = r[i]

Overlay(buffer, bytes) ==
  [i \in DOMAIN buffer |-> IF i < Len(bytes) THEN bytes[i + 1] ELSE buffer[i]]

\* The switch on cmd[0]; what it does not decode leaves ret as it was.  Closing
\* a directory writes its answer to cmd.
ExecuteCommand ==
  /\ Step("execute", "rewind")
  /\ \/ \E r \in Requests :
          /\ Holds(r)
          /\ \E a \in Answers[r] : ret' = Overlay(ret, a)
          /\ \E l \in Leaves[r] : cmd' = Overlay(cmd, l)
     \/ /\ \A r \in Requests : ~Holds(r)
        /\ UNCHANGED <<cmd, ret>>
  /\ UNCHANGED <<cmd_index, write_data, cmd_write_enable, retVars, status,
                 process_command_enable, cpc, driverVars>>

Rewind_KeepsCmdIndex ==
  /\ Step("rewind", "prefetch")
  /\ ret_index' = 0
  /\ UNCHANGED <<cmdVars, ret, read_data, ret_read_enable, status,
                 process_command_enable, cpc, driverVars>>

Rewind_KeepsRetIndex ==
  /\ Step("rewind", "prefetch")
  /\ cmd_index' = 0
  /\ UNCHANGED <<cmd, write_data, cmd_write_enable, ret, retVars, status,
                 process_command_enable, cpc, driverVars>>

Rewind ==
  /\ Step("rewind", "prefetch")
  /\ ret_index' = 0
  /\ cmd_index' = 0
  /\ UNCHANGED <<cmd, write_data, cmd_write_enable, ret, read_data,
                 ret_read_enable, status, process_command_enable, cpc,
                 driverVars>>

Prefetch_Forgotten ==
  /\ Step("prefetch", "finish")
  /\ UNCHANGED <<cmdVars, ret, retVars, status, process_command_enable, cpc,
                 driverVars>>

Prefetch ==
  /\ Step("prefetch", "finish")
  /\ ret_data(ret_read_enable)
  /\ UNCHANGED <<cmdVars, ret, status, process_command_enable, cpc, driverVars>>

FinishCommand_StaysBusy ==
  /\ Step("finish", "clear")
  /\ UNCHANGED <<cmdVars, ret, retVars, status, process_command_enable, cpc,
                 driverVars>>

FinishCommand ==
  /\ Step("finish", "clear")
  /\ status' = DONE
  /\ UNCHANGED <<cmdVars, ret, retVars, process_command_enable, cpc, driverVars>>

\* The status already says DONE when the request flag is taken down.
ClearEnable ==
  /\ Step("clear", "poll")
  /\ process_command_enable' = FALSE
  /\ UNCHANGED <<cmdVars, ret, retVars, status, cpc, driverVars>>

Processor ==
  \/ PollEnable \/ StartCommand \/ ExecuteCommand \/ Rewind
  \/ Prefetch \/ FinishCommand \/ ClearEnable

Next == Driver \/ Processor

Spec == Init /\ [][Next]_vars

\* Both threads are scheduled, and a driver procedure that has been called
\* runs on: the emulated CPU never stops in it.
FairSpec ==
  /\ Spec
  /\ WF_vars(Processor)
  /\ WF_vars(Driver /\ cpc # "idle")
-----------------------------------------------------------------------------
(* Properties *)

TypeOK ==
  /\ cmd \in [0 .. CmdSize - 1 -> Byte] /\ cmd_index \in 0 .. CmdSize
  /\ ret \in [0 .. RetSize - 1 -> Byte] /\ ret_index \in 0 .. RetSize
  /\ write_data \in Byte /\ read_data \in Byte
  /\ cmd_write_enable \in {0, On} /\ ret_read_enable \in {0, On}
  /\ status \in {IDLE, PROCESSING, DONE}
  /\ process_command_enable \in BOOLEAN
  /\ tpc \in Inside \cup {"poll", "clear"}
  /\ cpc \in Sending \cup Reading \cup {"idle", "status"}
  /\ request \in Requests \cup {<<>>}
  /\ sent \in 0 .. CmdSize
  /\ reply \in Seq(Byte) /\ Len(reply) <= RetSize

\* The threads share the command buffer, the answer buffer and their indexes
\* without a lock: while the processor thread is inside process_command the
\* driver does nothing but poll the status register.
NoConcurrentAccess == tpc \in Inside => cpc = "status"

\* The switch decodes exactly the command the driver sent, although cmd
\* keeps the bytes of earlier, longer commands.
DecodesWhatWasSent ==
  tpc = "execute" => /\ Holds(request)
                     /\ cmd_index = Len(request)

\* What the driver has read of the answer is what the command wrote, from
\* the first byte on: no byte skipped, repeated or left from the prefetch of
\* an earlier answer.
ReplyIsAnswer ==
  cpc \in Reading =>
    \A i \in 1 .. Len(reply) : reply[i] = ret[i - 1]

\* The driver waits in storage_proceed and nothing is left that could let it
\* go on: its proceed was cleared with the flag of the command before.
ProceedLost ==
  /\ cpc = "status" /\ status = IDLE
  /\ tpc = "poll" /\ ~process_command_enable

\* Under fair scheduling the driver gets out of storage_proceed, unless its
\* proceed was lost: no other interleaving leaves it spinning.
OnlyALostProceedHangs == (cpc = "status") ~> (cpc # "status" \/ ProceedLost)

\* storage.asm goes on from "Proceed with command" to reading the "length of
\* response": every command is answered.
EveryCommandAnswered == (cpc = "status") ~> (cpc = "reading")

\* The command the driver waits for has been executed.
Served == tpc \in {"rewind", "prefetch", "finish"} \/ status = DONE

ServicePhase ==
  IF cpc \in Sending THEN "sending"
  ELSE IF cpc # "status" THEN "idle"
  ELSE IF Served THEN "served" ELSE "asked"

Service == INSTANCE StorageService WITH phase <- ServicePhase, answer <- ret

\* The port with its registers, buffers and threads implements the service.
ImplementsService == Service!Spec
=============================================================================
