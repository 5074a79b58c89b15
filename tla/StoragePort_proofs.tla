------------------------- MODULE StoragePort_proofs -------------------------
(***************************************************************************)
(* The safety of the storage port, for every set of commands, every set of *)
(* answers and every size of the two buffers.                              *)
(***************************************************************************)
EXTENDS StoragePort, TLAPS

-----------------------------------------------------------------------------
(* The inductive invariant, in named parts. *)

\* Who may move: away from storage_proceed the thread rests, or is about to
\* take down the request flag; DONE stands only between FinishCommand and the
\* poll of the driver.
Turn ==
  /\ cpc # "status" => /\ status = IDLE
                       /\ tpc \in {"poll", "clear"}
                       /\ tpc = "poll" => ~process_command_enable
  /\ tpc \in Inside => status # DONE
  /\ status = DONE /\ tpc = "poll" => ~process_command_enable

\* What the driver has sent is at the beginning of cmd, and cmd_index behind it.
CommandBuffer ==
  /\ cmd_write_enable = 0
  /\ cpc \in Sending \cup {"status"} => request \in Requests /\ reply = <<>>
  /\ cpc \in {"write_ready", "write_data", "write_strobe"} =>
       /\ sent < Len(request)
       /\ cmd_index = sent
       /\ \A i \in 1 .. sent : cmd[i - 1] = request[i]
  /\ cpc = "write_strobe" => write_data = request[sent + 1]
  /\ (cpc = "proceed" \/ (cpc = "status" /\ ~Served)) =>
       /\ cmd_index = Len(request)
       /\ Holds(request)
  /\ (cpc \in Reading \cup {"idle"} \/ tpc \in {"prefetch", "finish"}
        \/ status = DONE) => cmd_index = 0

\* The byte in read_data is the next one of the answer, and ret_index behind it.
AnswerBuffer ==
  /\ tpc = "prefetch" => ret_index = 0
  /\ tpc = "finish" \/ status = DONE => ret_index = 1 /\ read_data = ret[0]
  /\ cpc = "reading" /\ Len(reply) < RetSize =>
       ret_index = Len(reply) + 1 /\ read_data = ret[Len(reply)]
  /\ cpc = "read_data" =>
       /\ Len(reply) < RetSize
       /\ ret_index = Len(reply) + 1 /\ read_data = ret[Len(reply)]
  /\ cpc = "read_strobe" => ret_index = Len(reply)

IInv == TypeOK /\ Turn /\ CommandBuffer /\ AnswerBuffer /\ ReplyIsAnswer
-----------------------------------------------------------------------------
\* The globals the program starts with satisfy the invariant.
LEMMA InitIInv == Init => IInv
<1> SUFFICES ASSUME Init PROVE IInv
  OBVIOUS
<1> USE SizeAssumption DEF Init
<1>1. TypeOK
  BY DEF TypeOK, IDLE, On, Inside, Sending, Reading
<1>2. Turn /\ CommandBuffer /\ AnswerBuffer /\ ReplyIsAnswer
  BY DEF Turn, CommandBuffer, AnswerBuffer, ReplyIsAnswer, IDLE, DONE, Inside,
         Sending, Reading, Served
<1> QED
  BY <1>1, <1>2 DEF IInv
-----------------------------------------------------------------------------
(* The steps of the driver. *)

\* Every register access of the driver keeps the invariant.
LEMMA DriverStep == IInv /\ Driver => IInv'
<1> SUFFICES ASSUME IInv, Driver PROVE IInv'
  OBVIOUS
<1> USE SizeAssumption, RequestAssumption
    DEF IDLE, PROCESSING, DONE, On, Inside, Sending, Reading, Goto,
        cmdVars, retVars, driverVars
<1>i. TypeOK /\ Turn /\ CommandBuffer /\ AnswerBuffer /\ ReplyIsAnswer
  BY DEF IInv
<1>1. CASE CallDriver
  <2> USE <1>1 DEF CallDriver
  <2>1. TypeOK'
    BY <1>i DEF TypeOK, CommandBuffer, AnswerBuffer
  <2>2. Turn'
    BY <1>i DEF TypeOK, Turn
  <2>3. CommandBuffer'
    BY <1>i DEF TypeOK, CommandBuffer, Turn, Served, Holds
  <2>4. AnswerBuffer'
    BY <1>i DEF TypeOK, AnswerBuffer, Turn, CommandBuffer
  <2>5. ReplyIsAnswer'
    BY <1>i DEF TypeOK, ReplyIsAnswer, AnswerBuffer, CommandBuffer
  <2> QED
    BY <2>1, <2>2, <2>3, <2>4, <2>5 DEF IInv
<1>2. CASE ResetPort
  <2> USE <1>2 DEF ResetPort, write_write_reset, write_read_reset
  <2>1. TypeOK'
    BY <1>i DEF TypeOK, CommandBuffer, AnswerBuffer
  <2>2. Turn'
    BY <1>i DEF TypeOK, Turn
  <2>3. CommandBuffer'
    BY <1>i DEF TypeOK, CommandBuffer, Turn, Served, Holds
  <2>4. AnswerBuffer'
    BY <1>i DEF TypeOK, AnswerBuffer, Turn, CommandBuffer
  <2>5. ReplyIsAnswer'
    BY <1>i DEF TypeOK, ReplyIsAnswer, AnswerBuffer, CommandBuffer
  <2> QED
    BY <2>1, <2>2, <2>3, <2>4, <2>5 DEF IInv
<1>3. CASE WriteReady
  <2> USE <1>3 DEF WriteReady
  <2>1. TypeOK'
    BY <1>i DEF TypeOK, CommandBuffer, AnswerBuffer
  <2>2. Turn'
    BY <1>i DEF TypeOK, Turn
  <2>3. CommandBuffer'
    BY <1>i DEF TypeOK, CommandBuffer, Turn, Served, Holds
  <2>4. AnswerBuffer'
    BY <1>i DEF TypeOK, AnswerBuffer, Turn, CommandBuffer
  <2>5. ReplyIsAnswer'
    BY <1>i DEF TypeOK, ReplyIsAnswer, AnswerBuffer, CommandBuffer
  <2> QED
    BY <2>1, <2>2, <2>3, <2>4, <2>5 DEF IInv
<1>4. CASE WriteData
  <2> USE <1>4 DEF WriteData, write_write_data
  <2>1. TypeOK'
    BY <1>i DEF TypeOK, CommandBuffer, AnswerBuffer
  <2>2. Turn'
    BY <1>i DEF TypeOK, Turn
  <2>3. CommandBuffer'
    BY <1>i DEF TypeOK, CommandBuffer, Turn, Served, Holds
  <2>4. AnswerBuffer'
    BY <1>i DEF TypeOK, AnswerBuffer, Turn, CommandBuffer
  <2>5. ReplyIsAnswer'
    BY <1>i DEF TypeOK, ReplyIsAnswer, AnswerBuffer, CommandBuffer
  <2> QED
    BY <2>1, <2>2, <2>3, <2>4, <2>5 DEF IInv
<1>5. CASE WriteStrobe
  <2> USE <1>5 DEF WriteStrobe, write_write_enable, cmd_write
  <2>1. TypeOK'
    BY <1>i DEF TypeOK, CommandBuffer, AnswerBuffer
  <2>2. Turn'
    BY <1>i DEF TypeOK, Turn
  <2>3. CommandBuffer'
    BY <1>i DEF TypeOK, CommandBuffer, Turn, Served, Holds
  <2>4. AnswerBuffer'
    BY <1>i DEF TypeOK, AnswerBuffer, Turn, CommandBuffer
  <2>5. ReplyIsAnswer'
    BY <1>i DEF TypeOK, ReplyIsAnswer, AnswerBuffer, CommandBuffer
  <2> QED
    BY <2>1, <2>2, <2>3, <2>4, <2>5 DEF IInv
<1>6. CASE Proceed
  <2> USE <1>6 DEF Proceed, write_proceed
  <2>1. TypeOK'
    BY <1>i DEF TypeOK, CommandBuffer, AnswerBuffer
  <2>2. Turn'
    BY <1>i DEF TypeOK, Turn
  <2>3. CommandBuffer'
    BY <1>i DEF TypeOK, CommandBuffer, Turn, Served, Holds
  <2>4. AnswerBuffer'
    BY <1>i DEF TypeOK, AnswerBuffer, Turn, CommandBuffer
  <2>5. ReplyIsAnswer'
    BY <1>i DEF TypeOK, ReplyIsAnswer, AnswerBuffer, CommandBuffer
  <2> QED
    BY <2>1, <2>2, <2>3, <2>4, <2>5 DEF IInv
<1>7. CASE PollStatus
  <2> USE <1>7 DEF PollStatus, read_status
  <2>1. TypeOK'
    BY <1>i DEF TypeOK, CommandBuffer, AnswerBuffer
  <2>2. Turn'
    BY <1>i DEF TypeOK, Turn
  <2>3. CommandBuffer'
    BY <1>i DEF TypeOK, CommandBuffer, Turn, Served, Holds
  <2>4. AnswerBuffer'
    BY <1>i DEF TypeOK, AnswerBuffer, Turn, CommandBuffer
  <2>5. ReplyIsAnswer'
    BY <1>i DEF TypeOK, ReplyIsAnswer, AnswerBuffer, CommandBuffer
  <2> QED
    BY <2>1, <2>2, <2>3, <2>4, <2>5 DEF IInv
<1>8. CASE ReadReady
  <2> USE <1>8 DEF ReadReady
  <2>1. TypeOK'
    BY <1>i DEF TypeOK, CommandBuffer, AnswerBuffer
  <2>2. Turn'
    BY <1>i DEF TypeOK, Turn
  <2>3. CommandBuffer'
    BY <1>i DEF TypeOK, CommandBuffer, Turn, Served, Holds
  <2>4. AnswerBuffer'
    BY <1>i DEF TypeOK, AnswerBuffer, Turn, CommandBuffer
  <2>5. ReplyIsAnswer'
    BY <1>i DEF TypeOK, ReplyIsAnswer, AnswerBuffer, CommandBuffer
  <2> QED
    BY <2>1, <2>2, <2>3, <2>4, <2>5 DEF IInv
<1>9. CASE ReadData
  <2> USE <1>9 DEF ReadData
  <2>1. TypeOK'
    BY <1>i DEF TypeOK, CommandBuffer, AnswerBuffer
  <2>2. Turn'
    BY <1>i DEF TypeOK, Turn
  <2>3. CommandBuffer'
    BY <1>i DEF TypeOK, CommandBuffer, Turn, Served, Holds
  <2>4. AnswerBuffer'
    BY <1>i DEF TypeOK, AnswerBuffer, Turn, CommandBuffer
  <2>5. ReplyIsAnswer'
    BY <1>i DEF TypeOK, ReplyIsAnswer, AnswerBuffer, CommandBuffer
  <2> QED
    BY <2>1, <2>2, <2>3, <2>4, <2>5 DEF IInv
<1>10. CASE ReadStrobe
  <2> USE <1>10 DEF ReadStrobe, write_read_enable, ret_data
  <2>1. TypeOK'
    BY <1>i DEF TypeOK, CommandBuffer, AnswerBuffer
  <2>2. Turn'
    BY <1>i DEF TypeOK, Turn
  <2>3. CommandBuffer'
    BY <1>i DEF TypeOK, CommandBuffer, Turn, Served, Holds
  <2>4. AnswerBuffer'
    BY <1>i DEF TypeOK, AnswerBuffer, Turn, CommandBuffer
  <2>5. ReplyIsAnswer'
    BY <1>i DEF TypeOK, ReplyIsAnswer, AnswerBuffer, CommandBuffer
  <2> QED
    BY <2>1, <2>2, <2>3, <2>4, <2>5 DEF IInv
<1>11. CASE ReturnFromDriver
  <2> USE <1>11 DEF ReturnFromDriver
  <2>1. TypeOK'
    BY <1>i DEF TypeOK, CommandBuffer, AnswerBuffer
  <2>2. Turn'
    BY <1>i DEF TypeOK, Turn
  <2>3. CommandBuffer'
    BY <1>i DEF TypeOK, CommandBuffer, Turn, Served, Holds
  <2>4. AnswerBuffer'
    BY <1>i DEF TypeOK, AnswerBuffer, Turn, CommandBuffer
  <2>5. ReplyIsAnswer'
    BY <1>i DEF TypeOK, ReplyIsAnswer, AnswerBuffer, CommandBuffer
  <2> QED
    BY <2>1, <2>2, <2>3, <2>4, <2>5 DEF IInv
<1> QED
  BY <1>1, <1>2, <1>3, <1>4, <1>5, <1>6, <1>7, <1>8, <1>9, <1>10, <1>11 DEF Driver
-----------------------------------------------------------------------------
(* The steps of the processor thread. *)

\* Every statement of the processor thread keeps the invariant.
LEMMA ProcessorStep == IInv /\ Processor => IInv'
<1> SUFFICES ASSUME IInv, Processor PROVE IInv'
  OBVIOUS
<1> USE SizeAssumption, RequestAssumption
    DEF IDLE, PROCESSING, DONE, On, Inside, Sending, Reading, Step,
        cmdVars, retVars, driverVars
<1>i. TypeOK /\ Turn /\ CommandBuffer /\ AnswerBuffer /\ ReplyIsAnswer
  BY DEF IInv
<1>1. CASE PollEnable
  <2> USE <1>1 DEF PollEnable
  <2>1. TypeOK'
    BY <1>i DEF TypeOK, CommandBuffer, AnswerBuffer
  <2>2. Turn'
    BY <1>i DEF TypeOK, Turn
  <2>3. CommandBuffer'
    BY <1>i DEF TypeOK, CommandBuffer, Turn, Served, Holds
  <2>4. AnswerBuffer'
    BY <1>i DEF TypeOK, AnswerBuffer, Turn, CommandBuffer
  <2>5. ReplyIsAnswer'
    BY <1>i DEF TypeOK, ReplyIsAnswer, AnswerBuffer, CommandBuffer
  <2> QED
    BY <2>1, <2>2, <2>3, <2>4, <2>5 DEF IInv
<1>2. CASE StartCommand
  <2> USE <1>2 DEF StartCommand
  <2>1. TypeOK'
    BY <1>i DEF TypeOK, CommandBuffer, AnswerBuffer
  <2>2. Turn'
    BY <1>i DEF TypeOK, Turn
  <2>3. CommandBuffer'
    BY <1>i DEF TypeOK, CommandBuffer, Turn, Served, Holds
  <2>4. AnswerBuffer'
    BY <1>i DEF TypeOK, AnswerBuffer, Turn, CommandBuffer
  <2>5. ReplyIsAnswer'
    BY <1>i DEF TypeOK, ReplyIsAnswer, AnswerBuffer, CommandBuffer
  <2> QED
    BY <2>1, <2>2, <2>3, <2>4, <2>5 DEF IInv
<1>3. CASE ExecuteCommand
  <2> USE <1>3 DEF ExecuteCommand
  <2>1. ret' \in [0 .. RetSize - 1 -> Byte]
    <3>1. CASE UNCHANGED ret
      BY <3>1, <1>i DEF TypeOK
    <3>2. CASE \E r \in Requests : (\E a \in Answers[r] : ret' = Overlay(ret, a))
      <4>1. PICK r \in Requests : (\E a \in Answers[r] : ret' = Overlay(ret, a))
        BY <3>2
      <4>0. PICK a \in Answers[r] : ret' = Overlay(ret, a)
        BY <4>1
      <4>2. a \in Seq(Byte) /\ ret \in [0 .. RetSize - 1 -> Byte]
        BY <1>i, AnswerAssumption DEF TypeOK
      <4>3. \A i \in 0 .. RetSize - 1 : i < Len(a) => a[i + 1] \in Byte
        BY <4>2
      <4> QED
        BY <4>0, <4>2, <4>3 DEF Overlay
    <3> QED
      BY <3>1, <3>2
  <2>0. cmd' \in [0 .. CmdSize - 1 -> Byte]
    <3>1. CASE UNCHANGED cmd
      BY <3>1, <1>i DEF TypeOK
    <3>2. CASE \E r \in Requests : (\E l \in Leaves[r] : cmd' = Overlay(cmd, l))
      <4>1. PICK r \in Requests : (\E l \in Leaves[r] : cmd' = Overlay(cmd, l))
        BY <3>2
      <4>0. PICK l \in Leaves[r] : cmd' = Overlay(cmd, l)
        BY <4>1
      <4>2. l \in Seq(Byte) /\ cmd \in [0 .. CmdSize - 1 -> Byte]
        BY <1>i, LeavesAssumption DEF TypeOK
      <4>3. \A i \in 0 .. CmdSize - 1 : i < Len(l) => l[i + 1] \in Byte
        BY <4>2
      <4> QED
        BY <4>0, <4>2, <4>3 DEF Overlay
    <3> QED
      BY <3>1, <3>2
  <2>2. TypeOK'
    BY <2>0, <2>1, <1>i DEF TypeOK
  <2>3. Turn'
    BY <1>i DEF TypeOK, Turn
  <2>4. CommandBuffer'
    BY <1>i DEF TypeOK, CommandBuffer, Turn, Served, Sending
  <2>5. AnswerBuffer' /\ ReplyIsAnswer'
    BY <1>i DEF TypeOK, AnswerBuffer, ReplyIsAnswer, Turn
  <2> QED
    BY <2>2, <2>3, <2>4, <2>5 DEF IInv
<1>4. CASE Rewind
  <2> USE <1>4 DEF Rewind
  <2>1. TypeOK'
    BY <1>i DEF TypeOK, CommandBuffer, AnswerBuffer
  <2>2. Turn'
    BY <1>i DEF TypeOK, Turn
  <2>3. CommandBuffer'
    BY <1>i DEF TypeOK, CommandBuffer, Turn, Served, Holds
  <2>4. AnswerBuffer'
    BY <1>i DEF TypeOK, AnswerBuffer, Turn, CommandBuffer
  <2>5. ReplyIsAnswer'
    BY <1>i DEF TypeOK, ReplyIsAnswer, AnswerBuffer, CommandBuffer
  <2> QED
    BY <2>1, <2>2, <2>3, <2>4, <2>5 DEF IInv
<1>5. CASE Prefetch
  <2> USE <1>5 DEF Prefetch, ret_data
  <2>1. TypeOK'
    BY <1>i DEF TypeOK, CommandBuffer, AnswerBuffer
  <2>2. Turn'
    BY <1>i DEF TypeOK, Turn
  <2>3. CommandBuffer'
    BY <1>i DEF TypeOK, CommandBuffer, Turn, Served, Holds
  <2>4. AnswerBuffer'
    BY <1>i DEF TypeOK, AnswerBuffer, Turn, CommandBuffer
  <2>5. ReplyIsAnswer'
    BY <1>i DEF TypeOK, ReplyIsAnswer, AnswerBuffer, CommandBuffer
  <2> QED
    BY <2>1, <2>2, <2>3, <2>4, <2>5 DEF IInv
<1>6. CASE FinishCommand
  <2> USE <1>6 DEF FinishCommand
  <2>1. TypeOK'
    BY <1>i DEF TypeOK, CommandBuffer, AnswerBuffer
  <2>2. Turn'
    BY <1>i DEF TypeOK, Turn
  <2>3. CommandBuffer'
    BY <1>i DEF TypeOK, CommandBuffer, Turn, Served, Holds
  <2>4. AnswerBuffer'
    BY <1>i DEF TypeOK, AnswerBuffer, Turn, CommandBuffer
  <2>5. ReplyIsAnswer'
    BY <1>i DEF TypeOK, ReplyIsAnswer, AnswerBuffer, CommandBuffer
  <2> QED
    BY <2>1, <2>2, <2>3, <2>4, <2>5 DEF IInv
<1>7. CASE ClearEnable
  <2> USE <1>7 DEF ClearEnable
  <2>1. TypeOK'
    BY <1>i DEF TypeOK, CommandBuffer, AnswerBuffer
  <2>2. Turn'
    BY <1>i DEF TypeOK, Turn
  <2>3. CommandBuffer'
    BY <1>i DEF TypeOK, CommandBuffer, Turn, Served, Holds
  <2>4. AnswerBuffer'
    BY <1>i DEF TypeOK, AnswerBuffer, Turn, CommandBuffer
  <2>5. ReplyIsAnswer'
    BY <1>i DEF TypeOK, ReplyIsAnswer, AnswerBuffer, CommandBuffer
  <2> QED
    BY <2>1, <2>2, <2>3, <2>4, <2>5 DEF IInv
<1> QED
  BY <1>1, <1>2, <1>3, <1>4, <1>5, <1>6, <1>7 DEF Processor
-----------------------------------------------------------------------------
\* A step that changes nothing keeps the invariant.
LEMMA StutterStep == IInv /\ UNCHANGED vars => IInv'
BY DEF IInv, TypeOK, Turn, CommandBuffer, AnswerBuffer, ReplyIsAnswer, Served,
       Holds, vars, cmdVars, retVars, driverVars

\* The strengthened invariant holds in every reachable state.
THEOREM Invariance == Spec => []IInv
<1>1. IInv /\ [Next]_vars => IInv'
  BY DriverStep, ProcessorStep, StutterStep DEF Next
<1> QED
  BY InitIInv, <1>1, PTL DEF Spec

\* The variables of storage.c and the two program counters keep their types:
\* in particular no index ever leaves cmd or ret.
THEOREM TypeCorrect == Spec => []TypeOK
<1>1. IInv => TypeOK
  BY DEF IInv
<1> QED
  BY Invariance, <1>1, PTL

\* The unlocked buffers are never used by both threads at once: the driver
\* only polls the status while process_command runs.
THEOREM NoRace == Spec => []NoConcurrentAccess
<1>1. IInv => NoConcurrentAccess
  BY DEF IInv, Turn, NoConcurrentAccess, Inside
<1> QED
  BY Invariance, <1>1, PTL

\* Each command executed is exactly the one the driver sent.
THEOREM CommandCorrect == Spec => []DecodesWhatWasSent
<1>1. IInv => DecodesWhatWasSent
  BY DEF IInv, Turn, CommandBuffer, DecodesWhatWasSent, Inside, Served
<1> QED
  BY Invariance, <1>1, PTL

\* The bytes the driver reads are those of the answer, in order.
THEOREM ReplyCorrect == Spec => []ReplyIsAnswer
<1>1. IInv => ReplyIsAnswer
  BY DEF IInv
<1> QED
  BY Invariance, <1>1, PTL

-----------------------------------------------------------------------------
(* The port implements the service. *)

\* The first bytes of cmd spell at most one command.
LEMMA OneCommand ==
  ASSUME NEW r \in Requests, NEW s \in Requests, Holds(r), Holds(s)
  PROVE  r = s
<1>1. r \in Seq(Byte) /\ s \in Seq(Byte)
  BY RequestAssumption
<1>2. CASE Len(r) <= Len(s)
  <2>1. \A i \in 1 .. Len(r) : r[i] = s[i]
    BY <1>1, <1>2 DEF Holds
  <2> QED
    BY <1>2, <2>1, RequestAssumption
<1>3. CASE Len(s) <= Len(r)
  <2>1. \A i \in 1 .. Len(s) : s[i] = r[i]
    BY <1>1, <1>3 DEF Holds
  <2> QED
    BY <1>3, <2>1, RequestAssumption
<1> QED
  BY <1>1, <1>2, <1>3

\* The service starts idle, as the port does.
LEMMA RefinementInit == Init => Service!Init
BY SizeAssumption DEF Init, Service!Init, ServicePhase, Sending

\* A step of the port is a step of the service, or changes nothing it shows.
LEMMA RefinementStep == IInv /\ [Next]_vars => [Service!Next]_(Service!vars)
<1> SUFFICES ASSUME IInv, [Next]_vars PROVE [Service!Next]_(Service!vars)
  OBVIOUS
<1> USE DEF IDLE, PROCESSING, DONE, Sending, ServicePhase, Served, Service!vars
<1>i. TypeOK /\ Turn /\ CommandBuffer /\ AnswerBuffer
  BY DEF IInv
<1>1. CASE CallDriver
  <2>1. Service!Begin
    BY <1>1 DEF CallDriver, Goto, Service!Begin
  <2> QED
    BY <2>1 DEF Service!Next
<1>2. CASE Proceed
  <2>1. Service!Ask
    BY <1>2, <1>i DEF Proceed, Goto, write_proceed, driverVars, Turn, Service!Ask
  <2> QED
    BY <2>1 DEF Service!Next
<1>3. CASE ExecuteCommand
  <2>1. cpc = "status" /\ status # DONE /\ request \in Requests /\ Holds(request)
    BY <1>3, <1>i DEF ExecuteCommand, Step, Turn, Inside, CommandBuffer
  <2>2. \E a \in Answers[request] : ret' = Overlay(ret, a)
    <3>1. PICK r \in Requests :
            Holds(r) /\ (\E a \in Answers[r] : ret' = Overlay(ret, a))
      BY <1>3, <2>1 DEF ExecuteCommand
    <3>2. r = request
      BY <2>1, <3>1, OneCommand
    <3> QED
      BY <3>1, <3>2
  <2>3. Service!Serve
    BY <1>3, <2>1, <2>2
    DEF ExecuteCommand, Step, driverVars, Overlay, Service!Serve, Service!Overlay
  <2> QED
    BY <2>3 DEF Service!Next
<1>4. CASE PollStatus
  <2>1. Service!Notice
    BY <1>4 DEF PollStatus, Goto, read_status, driverVars, Service!Notice
  <2> QED
    BY <2>1 DEF Service!Next
<1>5. CASE ReadData
  <2>1. Service!Read
    BY <1>5, <1>i DEF ReadData, Goto, AnswerBuffer, Service!Read
  <2> QED
    BY <2>1 DEF Service!Next
<1>6. CASE \/ ResetPort \/ WriteReady \/ WriteData \/ WriteStrobe
           \/ ReadReady \/ ReadStrobe \/ ReturnFromDriver
  BY <1>6
  DEF ResetPort, write_write_reset, write_read_reset, WriteReady, WriteData,
      write_write_data, WriteStrobe, write_write_enable, ReadReady, ReadStrobe,
      write_read_enable, ReturnFromDriver, Goto, driverVars
<1>7. CASE \/ PollEnable \/ StartCommand \/ Rewind \/ Prefetch
           \/ FinishCommand \/ ClearEnable
  BY <1>7, <1>i
  DEF PollEnable, StartCommand, Rewind, Prefetch, FinishCommand, ClearEnable,
      Step, driverVars, Turn, Inside
<1>8. CASE UNCHANGED vars
  BY <1>8 DEF vars, driverVars
<1> QED
  BY <1>1, <1>2, <1>3, <1>4, <1>5, <1>6, <1>7, <1>8 DEF Next, Driver, Processor

\* Whatever the interleaving of the two threads, the driver gets an answer to
\* the command it sent and reads that answer from its first byte.
THEOREM Refinement == Spec => ImplementsService
BY RefinementInit, RefinementStep, Invariance, PTL
DEF Spec, ImplementsService, Service!Spec
=============================================================================
