----------------------------- MODULE FpgaCpuRun -----------------------------
(***************************************************************************)
(* The FPGA's 6502 runs a program in the system around it                  *)
(* (src/rtl/compy/system.v: the bus with its wait states, the throttle,    *)
(* the registers, the timers and the serial port), and each instruction    *)
(* and interrupt is compared with the processor of the emulator (M6502).   *)
(* The ROM is not fixed: what it holds at an address is chosen when the    *)
(* program gets there.  The other end of the serial port is a program that *)
(* answers a byte with a few.                                              *)
(*   As in FpgaCpu, an operator named for an always block gives the next   *)
(* values of its registers.  Bits are numbered from 0.                     *)
(***************************************************************************)
EXTENDS FpgaCpu, FiniteSets

CONSTANTS
  TimerCount,           (* 8 in system.v                                     *)
  resolution,           (* of a timer: clocks in a tick, less one            *)
  BAUD_DIV, BAUD_DIV_CAP,
  RecvBuffer            (* places in the ring of the serial port: 512        *)

ASSUME SystemAssumption ==
  /\ TimerCount \in 1..8 /\ resolution \in Nat /\ RecvBuffer \in Nat \ {0}
  /\ BAUD_DIV_CAP \in Nat /\ BAUD_DIV \in Nat /\ BAUD_DIV_CAP < BAUD_DIV

VARIABLES
  uart_rx,  (* the wire from the other end                                   *)
  mem,      (* ROM and RAM                                                   *)
  throttle, (* cpu_throttle, with the bits it takes the clocks from          *)
  sys,      (* sys_ctl, but for what it puts out to the bus                  *)
  timer,    (* the timers                                                    *)
  uart,     (* recv_data_in, recv_data_out and the memory between them       *)
  rx,       (* uart_rx_path                                                  *)
  tx        (* uart_tx_path                                                  *)

systemVars == <<board, mem, throttle, sys, timer, uart, rx, tx>>

Bits  == 0..7
Byte(bits) == bits[0] + 2 * bits[1] + 4 * bits[2] + 8 * bits[3] + 16 * bits[4]
              + 32 * bits[5] + 64 * bits[6] + 128 * bits[7]
TimerIndexes == 0..(TimerCount - 1)

SystemInit(speed) ==
  /\ uart_rx = 1
  /\ board = [rd_prev |-> FALSE, state |-> "IDLE", ready |-> FALSE, clk_en |-> FALSE,
              cs |-> "rom", addr |-> 0, ram |-> 0, rom |-> 0, sys |-> 0]
  /\ throttle = [counter |-> 0, bits |-> 31, rate |-> 5, prev |-> FALSE]
  \* Neither the speed nor the index is reset.
  /\ sys = [speed |-> speed, index |-> 0, wr_en |-> {}, ack |-> {}, enabled |-> {},
            ticks |-> [t \in TimerIndexes |-> 0], uart_rd_req |-> FALSE,
            uart_wr_en |-> FALSE, uart_wr_data |-> 0]
  /\ timer = [t \in TimerIndexes |-> [irq |-> FALSE, small |-> 0, counter |-> 0, ticks |-> 0]]
  /\ uart = [addr_in |-> 0, addr_wr |-> 0, data_wr |-> 0, we |-> FALSE, state |-> "IDLE",
             addr_out |-> 0, addr_rd |-> 0, wait |-> FALSE, addr_reg |-> 0, q |-> 0,
             memory |-> [a \in 0..(RecvBuffer - 1) |-> 0]]
  /\ rx = [div |-> 0, bps |-> FALSE, start |-> FALSE, last |-> <<1, 1, 1, 1, 1>>, bit_num |-> 0,
           done |-> FALSE, receiving |-> FALSE, bits |-> [b \in Bits |-> 0], data |-> 0]
  /\ tx = [div |-> 0, bps |-> FALSE, data |-> [b \in 0..9 |-> 1], bit_num |-> 0, send |-> FALSE,
           out |-> 1]
-----------------------------------------------------------------------------
(* Both directions of the serial port count bits alike: a pulse in the     *)
(* middle of each.                                                         *)

baud(p, counting) ==
  [bps |-> p.div = BAUD_DIV_CAP,
   div |-> IF p.div = BAUD_DIV_CAP \/ (p.div < BAUD_DIV /\ counting) THEN p.div + 1 ELSE 0]

\* A start bit is five zeros in a row; the samples are of the wire itself.
uart_rx_path ==
  LET next ==
        IF ~rx.receiving
        THEN If(\A k \in DOMAIN rx.last : rx.last[k] = 0, [start |-> TRUE, receiving |-> TRUE])
        ELSE IF rx.bps
        THEN If(rx.bit_num \in 1..8, [bits |-> [rx.bits EXCEPT ![rx.bit_num - 1] = uart_rx]])
             @@ [bit_num |-> rx.bit_num + 1]
        ELSE If(rx.bit_num = 10,
                [bit_num |-> 0, done |-> TRUE, data |-> Byte(rx.bits), receiving |-> FALSE,
                 start |-> FALSE])
  IN  next @@ [done |-> FALSE, last |-> Append(Tail(rx.last), uart_rx)] @@ baud(rx, rx.start) @@ rx

uart_tx_path ==
  LET flag ==
        CASE ~reset_n -> [send |-> FALSE, data |-> [b \in 0..9 |-> 1]]
          [] reset_n /\ sys.uart_wr_en ->
               [send |-> TRUE,
                data |-> [b \in 0..9 |-> CASE b = 0 -> 0
                                           [] b = 9 -> 1
                                           [] OTHER -> Bit(sys.uart_wr_data, b - 1)]]
          [] reset_n /\ ~sys.uart_wr_en /\ tx.bit_num = 10 ->
               [send |-> FALSE, data |-> [b \in 0..9 |-> 1]]
          [] OTHER -> Unchanged
      out ==
        CASE ~tx.send -> [out |-> 1, bit_num |-> 0]
          [] tx.send /\ tx.bps ->
               If(tx.bit_num <= 9, [out |-> tx.data[tx.bit_num], bit_num |-> tx.bit_num + 1])
          [] tx.send /\ ~tx.bps -> If(tx.bit_num = 10, [bit_num |-> 0])
  IN  flag @@ out @@ baud(tx, tx.send) @@ tx

rd_avail == uart.addr_in # uart.addr_out
Next(addr) == (addr + 1) % RecvBuffer

recv_data_in ==
  If(rx.done, [addr_wr |-> uart.addr_in, data_wr |-> rx.data, we |-> TRUE,
               addr_in |-> Next(uart.addr_in)])
  @@ [we |-> FALSE, addr_in |-> IF reset_n THEN uart.addr_in ELSE 0]

recv_data_out ==
  CASE ~reset_n -> [state |-> "IDLE", addr_out |-> 0, wait |-> FALSE]
    [] reset_n /\ uart.state = "IDLE" ->
         If(sys.uart_rd_req, [addr_rd |-> uart.addr_out, addr_out |-> Next(uart.addr_out),
                              state |-> "WAIT", wait |-> TRUE])
    [] reset_n /\ uart.state = "WAIT" -> [state |-> "DONE"]
    [] reset_n /\ uart.state = "DONE" -> [wait |-> FALSE, state |-> "IDLE"]

\* What is read comes through two registers.
recv_buffer ==
  [memory |-> IF uart.we THEN [uart.memory EXCEPT ![uart.addr_wr] = uart.data_wr]
              ELSE uart.memory,
   addr_reg |-> uart.addr_rd, q |-> uart.memory[uart.addr_reg]]

uart_block == recv_data_in @@ recv_data_out @@ recv_buffer @@ uart
-----------------------------------------------------------------------------
(* Timers *)

\* An acknowledge wins over a timeout in the same clock.
timer_block(t) ==
  LET now == timer[t]
      wr_en == t \in sys.wr_en
      next ==
        CASE ~reset_n -> [irq |-> FALSE, ticks |-> 0]
          [] reset_n /\ (t \notin sys.enabled \/ wr_en \/ now.ticks = 0) ->
               [irq |-> FALSE, counter |-> now.ticks, small |-> resolution]
          [] reset_n /\ t \in sys.enabled /\ ~wr_en /\ now.ticks # 0 ->
               IF now.small # 0 THEN [small |-> now.small - 1]
               ELSE [small |-> resolution]
                    @@ IF now.counter # 0 THEN [counter |-> now.counter - 1]
                       ELSE [irq |-> TRUE, counter |-> now.ticks]
  IN  If(t \in sys.ack, [irq |-> FALSE]) @@ If(wr_en, [ticks |-> sys.ticks[t]]) @@ next @@ now

timer_blocks == [t \in TimerIndexes |-> timer_block(t)]

\* The first timer is the highest bit.
irq_all(now) == {7 - t : t \in {i \in TimerIndexes : now[i].irq}}
ByteOf(bits) == Byte([b \in Bits |-> IF b \in bits THEN 1 ELSE 0])
-----------------------------------------------------------------------------
(* The clocks the processor runs at: every one, or one in 2, 4, ..., 32. *)

signal(rate) == rate = 0 \/ Bit(throttle.bits, rate - 1) = 0
clk_en_signal == signal(throttle.rate)

cpu_throttle ==
  [counter |-> IF reset_n THEN (throttle.counter + 1) % 32 ELSE 0, bits |-> throttle.counter,
   rate |-> IF sys.speed < 5 THEN sys.speed ELSE 5, prev |-> reset_n /\ clk_en_signal]
-----------------------------------------------------------------------------
(* The system registers *)

sys_s(addr) == addr \div 256 = 147

\* The 20 bits of a timer are stored in three parts.
Part(ticks, k, v) ==
  CASE k = 0 -> 256 * (ticks \div 256) + v
    [] k = 1 -> 65536 * (ticks \div 65536) + 256 * v + (ticks % 256)
    [] k = 2 -> 65536 * (v % 16) + (ticks % 65536)

Written(reg, v) ==
  CASE reg = 0 -> [speed |-> v % 8]
    [] reg = 1 -> [index |-> v % 8]
    [] reg \in 2..4 -> [ticks |-> [sys.ticks EXCEPT ![sys.index] = Part(@, reg - 2, v)]]
    [] reg = 5 -> [wr_en |-> sys.wr_en \cup {sys.index}]
    [] reg = 6 -> [enabled |-> IF v % 2 = 1 THEN sys.enabled \cup {sys.index}
                               ELSE sys.enabled \ {sys.index}]
    [] reg = 7 -> [ack |-> sys.ack \cup {sys.index}]
    [] reg = 9 -> [uart_wr_data |-> v, uart_wr_en |-> TRUE]
    [] OTHER -> Unchanged

Read(reg) ==
  CASE reg = 0 -> sys.speed
    [] reg = 1 -> sys.index
    [] reg = 2 -> timer[sys.index].counter % 256
    [] reg = 3 -> (timer[sys.index].counter \div 256) % 256
    [] reg = 4 -> timer[sys.index].counter \div 65536
    [] reg = 6 -> IF sys.index \in sys.enabled THEN 1 ELSE 0
    [] reg = 7 -> ByteOf(irq_all(timer))
    [] reg = 8 -> ByteOf({b \in {0, 1} : IF b = 0 THEN rd_avail ELSE tx.send})
    [] reg = 9 -> uart.q
    [] OTHER -> board.sys

rd_req_rising == bus.rd_req /\ ~board.rd_prev

sys_ctl ==
  (IF ~reset_n THEN [ack |-> {}, enabled |-> {}, wr_en |-> {}, ticks |-> [t \in TimerIndexes |-> 0]]
   ELSE If(sys_s(bus.addr) /\ bus.wr_en, Written(bus.addr % 256, bus.wr_data))
        @@ If(sys_s(bus.addr) /\ bus.addr % 256 = 9, [uart_rd_req |-> rd_req_rising])
        @@ [wr_en |-> sys.wr_en \ {sys.index}, ack |-> sys.ack \ {sys.index}])
  @@ [uart_wr_en |-> FALSE] @@ sys
-----------------------------------------------------------------------------
(* The bus: a read takes the clock after its request, and longer when the  *)
(* serial port makes it wait.  The memories give what was at the address   *)
(* of the clock before.  Chroni and the board's own inputs are not here.   *)

ram_s(addr) == addr < 36864

Selected(addr) ==
  CASE ram_s(addr) -> "ram"
    [] sys_s(addr) -> "sys"
    [] OTHER -> "rom"

\* A mutant: the bus does not wait for the serial port.
bus_state_IgnoresUart ==
  CASE ~reset_n -> [state |-> "IDLE", ready |-> TRUE, cs |-> "rom"]
    [] reset_n /\ (rd_req_rising \/ bus.wr_en) ->
         [state |-> IF rd_req_rising THEN "READ" ELSE board.state, ready |-> ~rd_req_rising,
          cs |-> Selected(bus.addr)]
    [] OTHER -> [state |-> "IDLE", ready |-> TRUE]
bus_state ==
  CASE ~reset_n -> [state |-> "IDLE", ready |-> TRUE, cs |-> "rom"]
    [] reset_n /\ (rd_req_rising \/ bus.wr_en) ->
         [state |-> IF rd_req_rising THEN "READ" ELSE board.state, ready |-> ~rd_req_rising,
          cs |-> Selected(bus.addr)]
    [] reset_n /\ ~rd_req_rising /\ ~bus.wr_en ->
         IF board.state = "READ" /\ (sys.uart_rd_req \/ uart.wait) THEN [ready |-> FALSE]
         ELSE [state |-> "IDLE", ready |-> TRUE]

board_block ==
  bus_state
  @@ [rd_prev |-> reset_n /\ bus.rd_req, addr |-> bus.addr,
      clk_en |-> throttle.rate = 0 \/ (clk_en_signal /\ ~throttle.prev),
      ram |-> IF ram_s(board.addr) THEN Peek(mem, board.addr) ELSE 0,
      rom |-> Peek(mem, 49152 + (board.addr % 16384)),
      sys |-> IF reset_n /\ sys_s(bus.addr) THEN Read(bus.addr % 256) ELSE board.sys]
  @@ board

spram == IF bus.wr_en /\ ram_s(bus.addr) THEN Poke(mem, bus.addr, bus.wr_data) ELSE mem

\* One edge of the clock of the system; the wires to it change after it.
SystemClock ==
  /\ Clock
  /\ board' = board_block
  /\ mem' = spram
  /\ throttle' = cpu_throttle
  /\ sys' = sys_ctl
  /\ timer' = timer_blocks
  /\ uart' = uart_block
  /\ rx' = uart_rx_path
  /\ tx' = uart_tx_path
-----------------------------------------------------------------------------
CONSTANTS
  ResetClocks, (* a reset lasts this long                                    *)
  Programs  (* by name: [mem, speeds, tests, lines, far, result], the memory, *)
            (* the values cpu_speed may have, one after the other the sets of *)
            (* instructions to come, the interrupts that do, what the other   *)
            (* end answers, the clocks it takes for a bit and may wait before *)
            (* a byte, and what is to be in memory and at the other end in    *)
            (* the end                                                        *)

ASSUME RunAssumption == ResetClocks \in Nat \ {0}

VARIABLES
  held,     (* the clocks for which the reset has been held                  *)
  program,  (* the program that runs                                         *)
  revealed, (* the number of its instructions that are known, and 1 more     *)
            (* when the last has begun                                       *)
  lines,    (* the interrupt lines that have yet to fall                     *)
  low,      (* the lines that were low at the last clock                     *)
  due,      (* the lines that have fallen and wait to be served              *)
  start,    (* the processor as its last instruction, interrupt or reset began *)
  far       (* the other end: the clocks of a bit; the bits it is sending,   *)
            (* with the clocks of the first and until the next byte, and the *)
            (* bytes to answer; the clocks since a start bit came, the bits  *)
            (* since then, and the bytes heard                               *)

wires == <<reset_n, irq_n, nmi_n, uart_rx>>
runVars == <<wires, cpuVars, systemVars, held, program, revealed, lines, low, due, start, far>>

\* The registers that a program sees.
Arch ==
  [pc |-> decode.pc, a |-> decode.a, x |-> decode.x, y |-> decode.y, sp |-> stack.sp,
   n |-> alu.n, v |-> alu.v, d |-> alu.d, i |-> misc.flag_i, z |-> alu.z, c |-> alu.c,
   mem |-> mem]

\* The clock at which an instruction has ended and the next thing begins.
Boundary == reset_n /\ clk_en /\ fetch.state = "EXECUTE_WAIT" /\ decode.inst_done

Tests    == Programs[program].tests
Stopped  == Boundary /\ revealed = Len(Tests) + 1
InRom(a) == a >= 49152
Unknown  == Boundary /\ revealed < Len(Tests) /\ InRom(decode.pc) /\ decode.pc \notin DOMAIN mem

Starts(event) == [event |-> event, s |-> Arch, alu_op |-> load.alu_op]

RunInit ==
  /\ Init
  /\ program \in DOMAIN Programs /\ \E speed \in Programs[program].speeds : SystemInit(speed)
  /\ \E clocks \in Programs[program].far.clocks :
       far = [clocks |-> clocks, out |-> <<>>, left |-> 0, answer |-> Programs[program].far.answer,
              at |-> 0, bits |-> <<>>, heard |-> <<>>]
  /\ mem = Programs[program].mem /\ lines = Programs[program].lines
  /\ revealed = 0 /\ held = 0
  /\ low = {} /\ due = {} /\ start = Starts("reset")

\* The instruction at the program counter is looked at for the first time.
Reveal ==
  /\ Unknown
  /\ \E bytes \in Tests[revealed + 1] :
       mem' = mem @@ [a \in {decode.pc + k - 1 : k \in DOMAIN bytes} |->
                        bytes[a - decode.pc + 1]]
  /\ revealed' = revealed + 1
  /\ UNCHANGED <<wires, cpuVars, board, throttle, sys, timer, uart, rx, tx,
                 held, program, lines, low, due, start, far>>

Event ==
  IF "nmi" \in due THEN "nmi"
  ELSE IF "irq" \in due /\ misc.flag_i = 0 THEN "irq" ELSE "insn"

Low == {l \in {"irq", "nmi"} : (l = "irq" /\ ~irq_n) \/ (l = "nmi" /\ ~nmi_n)}

\* The other end listens: a start bit, and then the middle of each bit.
Listens ==
  LET middle == far.at > 0 /\ far.at % far.clocks = far.clocks \div 2
      bits == IF middle THEN Append(far.bits, tx.out) ELSE far.bits
      ended == Len(bits) = 10
  IN  [at |-> IF ended \/ (far.at = 0 /\ tx.out = 1) THEN 0 ELSE far.at + 1,
       bits |-> IF ended THEN <<>> ELSE bits,
       heard |-> IF ended THEN Append(far.heard, Byte([b \in Bits |-> bits[b + 2]]))
                 ELSE far.heard]

\* It answers what it has heard, and may wait before each byte.
Sends(gap) ==
  LET frame == <<0>> \o [b \in 1..8 |-> Bit(Head(far.answer), b - 1)] \o <<1>>
  IN  IF far.left > 0 THEN [left |-> far.left - 1]
      ELSE IF far.out # <<>>
      THEN IF Len(far.out) = 1 THEN [out |-> <<>>, left |-> gap]
           ELSE [out |-> Tail(far.out), left |-> far.clocks - 1]
      ELSE If(far.heard # <<>> /\ far.answer # <<>>,
              [out |-> frame, left |-> far.clocks - 1, answer |-> Tail(far.answer)])
EndsByte == far.left = 0 /\ Len(far.out) = 1

irq_line == \E t \in TimerIndexes : timer[t].irq

Tick ==
  /\ ~Stopped /\ ~Unknown
  /\ SystemClock
  /\ \E gap \in (IF EndsByte THEN Programs[program].far.gaps ELSE {0}) :
       far' = Sends(gap) @@ Listens @@ far
  /\ uart_rx' = IF far.out = <<>> THEN 1 ELSE Head(far.out)
  /\ \E falls \in SUBSET lines :
       /\ revealed = 0 => falls = {}
       /\ lines' = lines \ falls
       /\ held' = IF reset_n THEN 0 ELSE held + 1
       /\ reset_n' = ("reset" \notin falls /\ (reset_n \/ held' = ResetClocks))
       /\ irq_n' = ((irq_n \/ irq_line) /\ "irq" \notin falls /\ ~irq_line')
       /\ nmi_n' = (nmi_n /\ "nmi" \notin falls)
  /\ IF reset_n
     THEN /\ low' = Low
          /\ due' = (due \ IF Boundary THEN {Event} ELSE {}) \cup (Low \ low)
          /\ start' = IF Boundary THEN Starts(Event) ELSE start
     ELSE low' = {} /\ due' = {} /\ start' = Starts("reset")
  /\ revealed' = IF Boundary /\ revealed = Len(Tests) THEN revealed + 1 ELSE revealed
  /\ UNCHANGED program

RunNext == Reveal \/ Tick
RunSpec == RunInit /\ [][RunNext]_runVars /\ WF_runVars(RunNext)
-----------------------------------------------------------------------------
(* What the FPGA's 6502 does otherwise than the emulator's, where nothing in *)
(* the design says that it should not.                                       *)

\* Indexes and second bytes run on past the page.
HardwareEA(s, m) ==
  LET first == Peek(s.mem, Inc(s.pc, 1))
      At(a) == Word(Peek(s.mem, a), Peek(s.mem, Inc(a, 1)))
  IN  CASE m = "ZPX" -> first + s.x
        [] m = "ZPY" -> first + s.y
        [] m = "IDX" -> At(first + s.x)
        [] m = "IDY" -> Inc(At(first), s.y)
        [] m = "IND" -> At(At(Inc(s.pc, 1)))
        [] OTHER -> EA(s, m)

\* Arithmetic is binary, and two negative numbers overflow when they should not.
HardwareAdd(s, m) ==
  LET ov == (s.a % 128) + (m % 128) + s.c
  IN  [Binary(s, m) EXCEPT !.v = IF Bit(s.a, 7) = Bit(m, 7) /\ ov > 127 THEN 1 ELSE 0]

\* The unused bit of the status is not set, and decimal mode ends.
HardwareInterrupt(s, pc, at, b) ==
  [PUSH(PUSH_PC(s, pc), P(s, b) - 32) EXCEPT !.i = 1, !.d = 0, !.pc = Vector(s, at)]

\* A subroutine's return address is that of the next instruction.
HardwareInstruction(op, m, s, ea, v) ==
  CASE op = "ADC" -> HardwareAdd(s, v)
    [] op = "SBC" -> HardwareAdd(s, 255 - v)
    [] op = "PHP" -> PUSH(s, P(s, 1) - 32)
    [] op = "JSR" -> [PUSH_PC(s, s.pc) EXCEPT !.pc = ea]
    [] op = "RTS" -> [s EXCEPT !.pc = Word(Pulled(s, 1), Pulled(s, 2)), !.sp = (s.sp + 2) % 256]
    [] op = "BRK" -> HardwareInterrupt(s, Inc(s.pc, 1), IRQ_VEC, 1)
    [] OTHER -> Instruction(op, m, s, ea, v)

HardwareExecute(s) ==
  LET i  == insn6502[Peek(s.mem, s.pc)]
      ea == HardwareEA(s, i.mode)
  IN  HardwareInstruction(i.op, i.mode, [s EXCEPT !.pc = Inc(s.pc, Length(i.mode))], ea,
                          IF i.mode = "ACC" THEN s.a ELSE Peek(s.mem, ea))

\* A reset leaves the interrupts enabled or not, and a store under way may
\* still be made.
HardwareReset(s) ==
  [s EXCEPT !.pc = Vector(s, RST_VEC), !.a = 0, !.x = 0, !.y = 0, !.sp = 255, !.n = 0,
            !.v = 0, !.d = 0, !.z = 0, !.c = 0, !.i = misc.flag_i, !.mem = mem]

Hardware(event, s) ==
  CASE event = "reset" -> HardwareReset(s)
    [] event = "nmi"  -> HardwareInterrupt(s, s.pc, NMI_VEC, 0)
    [] event = "irq"  -> HardwareInterrupt(s, s.pc, IRQ_VEC, 0)
    [] event = "insn" -> HardwareExecute(s)

\* The ROM does not change, whatever is stored there.
Visible(s) == [s EXCEPT !.mem = [a \in {b \in DOMAIN s.mem : ram_s(b)} |-> s.mem[a]]]

\* The instruction that has just ended, if it is one of these.
Begun == insn6502[Peek(start.s.mem, start.s.pc)]
Ended(ops)  == Boundary /\ start.event = "insn" /\ Begun.op \in ops
Expected    == Visible(Hardware(start.event, start.s))
Comparisons == {"CMP", "CPX", "CPY"}
Shifts      == {"ASL", "ROL", "LSR", "ROR"}
ShiftsMemory == Ended(Shifts) /\ Begun.mode # "ACC"

\* What a register of the system reads is not in memory.
ReadsSystem ==
  Ended({"LDA"}) /\ Begun.mode = "ABS" /\ sys_s(HardwareEA(start.s, Begun.mode))

\* Where the design contradicts its own description nothing is expected of it:
\* the carry of a comparison, which the microcode sets and the ALU has a case
\* for that the operation never comes to; the accumulator after a shift in
\* memory, which the microcode only stores; and a pull after an instruction
\* whose operation the ALU still has (PullsTakeWhatWasPushed).  Nor is anything
\* expected of a shift at abs,X, which takes the other index.
Described(s) ==
  [s EXCEPT !.c = IF Ended(Comparisons) THEN 0 ELSE @,
            !.a = IF ShiftsMemory THEN 0 ELSE @]
Undescribed ==
  \/ Ended({"PLA"}) /\ start.alu_op # "UPDATE"
  \/ Ended(Shifts) /\ Begun.mode = "ABX"

\* After each instruction and interrupt, at any speed of the processor and of its
\* memories, the registers and the RAM are those of the emulator's processor
\* after the same, but for the differences above; a load from a register of the
\* system apart, whose value is not in memory.
InstructionsAgree ==
  Boundary /\ ~Undescribed /\ ~ReadsSystem => Described(Visible(Arch)) = Described(Expected)

\* As the microcode describes it, a pull brings the accumulator the byte that it
\* takes from the stack, whatever the processor did before.
PullsTakeWhatWasPushed == Ended({"PLA"}) => Arch.a = Pulled(start.s, 1)

\* What a program leaves behind.
Done ==
  LET result == Programs[program].result
  IN  /\ \A a \in DOMAIN result.mem : Peek(mem, a) = result.mem[a]
      /\ far.heard = result.heard

\* No instruction gets stuck, at any speed, and no program: the bytes of the
\* other end come and go whole, in order and once, whenever they are sent,
\* and the timer goes on interrupting.
ProgramsEnd == <>(Stopped /\ Done)
=============================================================================
