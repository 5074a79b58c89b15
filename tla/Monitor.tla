------------------------------- MODULE Monitor ------------------------------
(***************************************************************************)
(* The monitor of src/monitor.c under the 6502 of the emulator.  The core  *)
(* calls change_pc16 wherever its program counter may have changed, and    *)
(* that call does not return while the user is at the prompt: the monitor  *)
(* is entered in the middle of m6502_execute, and a command that goes on   *)
(* goes on there.                                                          *)
(*                                                                         *)
(* Commands that only show something are left out, but for the listing.    *)
(* A slice may end after any instruction; then the lines of interrupts     *)
(* change.  The window is closed only by the command x.                    *)
(***************************************************************************)
EXTENDS M6502, Sequences, FiniteSets

CONSTANTS
  MAX_BREAKPOINTS,
  MonitorStarts,   (* by name of a program: the set of [s, breakpoints, prompt] that   *)
                   (* it may start with, s being the processor after a reset           *)
  MonitorPrograms, (* by name: [code, edits, events], the addresses that are run, and  *)
                   (* how often breakpoints and registers are set and lines change     *)
  Typed            (* the addresses that the user types                              *)

MonitorConstants == MAX_BREAKPOINTS \in Nat \ {0} /\ 0 \notin Typed
-----------------------------------------------------------------------------
(* The listing of src/cpu/m6502/6502dasm.c: the instruction at an address, how  *)
(* many bytes it takes, what it does with its operand and where that is.  The   *)
(* table has the opcodes aaabbbcc by cc, a row for each aaa and a column for    *)
(* each bbb.                                                                    *)

Family(op) == op \div 32
Column6502(op) == (op \div 4) % 8

ControlOps ==
  <<<<"BRK", "ill", "PHP", "ill", "BPL", "ill", "CLC", "ill">>,
    <<"JSR", "BIT", "PLP", "BIT", "BMI", "ill", "SEC", "ill">>,
    <<"RTI", "ill", "PHA", "JMP", "BVC", "ill", "CLI", "ill">>,
    <<"RTS", "ill", "PLA", "JMP", "BVS", "ill", "SEI", "ill">>,
    <<"ill", "STY", "DEY", "STY", "BCC", "STY", "TYA", "ill">>,
    <<"LDY", "LDY", "TAY", "LDY", "BCS", "LDY", "CLV", "LDY">>,
    <<"CPY", "CPY", "INY", "CPY", "BNE", "ill", "CLD", "ill">>,
    <<"CPX", "CPX", "INX", "CPX", "BEQ", "ill", "SED", "ill">>>>
ControlArgs(op) ==
  CASE op = 32        -> "adr"
    [] op \in {64, 96} -> "imp"
    [] op = 76        -> "adr"
    [] op = 108       -> "ind"
    [] OTHER -> <<"imm", "zpg", "imp", "aba", "rel", "zpx", "imp", "abx">>[Column6502(op) + 1]

Accumulator == <<"ORA", "AND", "EOR", "ADC", "STA", "LDA", "CMP", "SBC">>
AccumulatorArgs == <<"idx", "zpg", "imm", "aba", "idy", "zpx", "aby", "abx">>

Shift(op) == <<"ill", op, op, op, "ill", op, "ill", op>>
ShiftOps ==
  <<Shift("ASL"), Shift("ROL"), Shift("LSR"), Shift("ROR"),
    <<"ill", "STX", "TXA", "STX", "ill", "STX", "TXS", "ill">>,
    <<"LDX", "LDX", "TAX", "LDX", "ill", "LDX", "TSX", "LDX">>,
    <<"ill", "DEC", "DEX", "DEC", "ill", "DEC", "ill", "DEC">>,
    <<"ill", "INC", "NOP", "INC", "ill", "INC", "ill", "INC">>>>
ShiftArgs(op) ==
  LET ofX == Family(op) \in {4, 5}
  IN  <<"imm", "zpg", IF Family(op) < 4 THEN "acc" ELSE "imp", "aba", "non",
        IF ofX THEN "zpy" ELSE "zpx", "imp", IF ofX THEN "aby" ELSE "abx">>[Column6502(op) + 1]

Named6502(op) ==
  CASE op % 4 = 0 -> <<ControlOps[Family(op) + 1][Column6502(op) + 1], ControlArgs(op)>>
    [] op = 137   -> <<"ill", "non">>
    [] op % 4 = 1 /\ op # 137 ->
         <<Accumulator[Family(op) + 1], AccumulatorArgs[Column6502(op) + 1]>>
    [] op % 4 = 2 -> <<ShiftOps[Family(op) + 1][Column6502(op) + 1], ShiftArgs(op)>>
    [] op % 4 = 3 -> <<"ill", "non">>

\* What an instruction does with the operand that its argument names.
Access(name, arg) ==
  CASE arg \in {"imp", "acc", "non"} -> "none"
    [] arg = "imm"                   -> "VAL"
    [] arg \in {"adr", "ind"}        -> "JMP"
    [] arg = "rel"                   -> "BRA"
    [] arg \notin {"imp", "acc", "non", "imm", "adr", "ind", "rel"} ->
         CASE name \in {"STA", "STX", "STY"}                         -> "WR"
           [] name \in {"ASL", "ROL", "LSR", "ROR", "INC", "DEC"}    -> "RW"
           [] OTHER                                                  -> "RD"

op6502 ==
  [op \in 0..255 |->
     LET name == Named6502(op)[1]
         arg  == IF name = "ill" THEN "non" ELSE Named6502(op)[2]
     IN  [name |-> name, arg |-> arg, access |-> Access(name, arg)]]

\* A mutant: an index moves on into the next page.
IndexedInPage_RunsOn(addr, index) == addr + index
IndexedInPage(addr, index) == (addr + index) % 256

\* A value as it is shown, with the digits of its kind.
set_ea_info(arg, result) ==
  IF arg \in {"imm", "zpg", "zpx", "zpy"} THEN result % 256 ELSE result % 65536

\* The listing of the instruction at pc, with the registers of s.  The address
\* goes to set_ea_info; of an indexed operand the text has only the base.
Dasm6502(s, pc) ==
  LET o     == op6502[Peek(s.mem, pc)]
      At(k) == Peek(s.mem, (pc + k) % 65536)
      word  == Word(At(1), At(2))
      RDMEM2(a, b) == Word(Peek(s.mem, a), Peek(s.mem, b))
      Pointer(z)   == RDMEM2(z, (z + 1) % 256)
      length == CASE o.arg \in {"imp", "acc", "non"} -> 1
                  [] o.arg \in {"adr", "aba", "abx", "aby", "ind"} -> 3
                  [] OTHER -> 2
      ea == CASE o.arg = "rel" -> pc + 2 + Signed(At(1)) + 65536
              [] o.arg \in {"imm", "zpg"} -> At(1)
              [] o.arg = "zpx" -> IndexedInPage(At(1), s.x)
              [] o.arg = "zpy" -> IndexedInPage(At(1), s.y)
              [] o.arg = "idx" -> Pointer(IndexedInPage(At(1), s.x))
              [] o.arg = "idy" -> (Pointer(At(1)) + s.y) % 65536
              [] o.arg \in {"adr", "aba"} -> word
              [] o.arg = "abx" -> (word + s.x) % 65536
              [] o.arg = "aby" -> (word + s.y) % 65536
              [] o.arg = "ind" -> RDMEM2(word, (word + 1) % 65536)
              [] OTHER -> pc
  IN  [name |-> o.name, access |-> o.access, length |-> length,
       ea |-> set_ea_info(o.arg, ea)]
-----------------------------------------------------------------------------
(* The prompt and the hooks. *)

VARIABLES
  script,        (* the program that runs                                    *)
  s,             (* the processor, as in M6502                               *)
  at,            (* what m6502_execute does next                             *)
  lines,         (* irq_state, pending_irq and after_cli of the core         *)
  cpu_pc,        (* the last address that change_pc16 was told               *)
  prompt,        (* the user is in monitor_enter                             *)
  running,       (* frontend_running                                         *)
  stop,          (* is_enabled, is_step, is_stop_at_addr, stop_at_addr,      *)
                 (* is_stop_at_ret, and cpu_6502_frame, which is read only   *)
                 (* with it                                                  *)
  breakpoints, reg,
  monitor_edits, monitor_events, (* so far                                   *)
  watched,       (* history: the breakpoints that the user has set and not   *)
                 (* deleted                                                  *)
  frames,        (* history: the stack pointer in each subroutine and handler *)
                 (* entered since pc was set by hand                         *)
  asked          (* history since the prompt: the command that went on, with *)
                 (* its address, stack pointer and number of frames; the     *)
                 (* instructions and interrupts since then; whether the last *)
                 (* instruction jumped to itself, and pc was set by hand     *)

monitorVars == <<script, s, at, lines, cpu_pc, prompt, running, stop, breakpoints, reg,
                 monitor_edits, monitor_events, watched, frames, asked>>

NoStop == [enabled |-> FALSE, step |-> FALSE, at_addr |-> FALSE, addr |-> 0, at_ret |-> FALSE,
           frame |-> 0]
IsRet(t) == Peek(t.mem, t.pc) \in {96, 64}
IsBreak(t) == Peek(t.mem, t.pc) = 0

\* compy_init: the options -M and -m, and the reset of the processor.
Init ==
  /\ script \in DOMAIN MonitorPrograms
  /\ \E start \in MonitorStarts[script] :
       /\ s = start.s /\ breakpoints = start.breakpoints
       /\ prompt = (start.prompt \/ IsBreak(s))
  /\ at = "loop" /\ cpu_pc = s.pc
  /\ lines = [irq_state |-> FALSE, pending_irq |-> FALSE, after_cli |-> FALSE]
  /\ running = TRUE /\ stop = NoStop /\ reg = "none"
  /\ monitor_edits = 0 /\ monitor_events = 0
  /\ watched = {breakpoints[i] : i \in DOMAIN breakpoints} /\ frames = <<>>
  /\ asked = [command |-> "none", addr |-> 0, sp |-> 0, goal |-> 0, ran |-> 0, taken |-> 0,
              again |-> FALSE, moved |-> FALSE]
-----------------------------------------------------------------------------
(* The processor *)

monitor_is_breakpoint(addr) == \E i \in DOMAIN breakpoints : breakpoints[i] = addr

monitor_is_stop(t) ==
  \/ monitor_is_breakpoint(t.pc)
  \/ stop.step
  \/ stop.at_addr /\ t.pc = stop.addr
  \/ stop.at_ret /\ IsRet(t) /\ stop.frame = t.sp

\* A mutant: what the last command asked for is still asked for.
monitor_enter_KeepsAddress ==
  /\ prompt' = running
  /\ stop' = IF running THEN [stop EXCEPT !.enabled = FALSE, !.step = FALSE, !.at_ret = FALSE, !.frame = 0]
             ELSE stop
monitor_enter ==
  /\ prompt' = running
  /\ stop' = IF running THEN NoStop ELSE stop

\* A mutant: the monitor looks at an address again.
change_pc16_Always(t) ==
  /\ s' = t /\ cpu_pc' = t.pc
  /\ IF stop.enabled \/ monitor_is_stop(t) \/ IsBreak(t) THEN monitor_enter
     ELSE UNCHANGED <<prompt, stop>>
change_pc16(t) ==
  /\ s' = t /\ cpu_pc' = t.pc
  /\ IF cpu_pc # t.pc /\ (stop.enabled \/ monitor_is_stop(t) \/ IsBreak(t)) THEN monitor_enter
     ELSE UNCHANGED <<prompt, stop>>

\* More than one is counted for a step only.
Counted(n) == IF n > 0 /\ asked.command # "s" THEN 1 ELSE IF n > 1 THEN 2 ELSE n + 1
Moved == asked.moved /\ cpu_pc' = cpu_pc

\* The processor enters a handler.
Interrupted(t) ==
  /\ change_pc16(t)
  /\ frames' = Append(frames, t.sp)
  /\ asked' = [asked EXCEPT !.taken = Counted(@), !.again = FALSE, !.moved = Moved]

m6502_take_irq_now ==
  /\ lines' = [lines EXCEPT !.pending_irq = FALSE]
  /\ IF s.i = 0 THEN Interrupted(m6502_take_irq(s))
     ELSE UNCHANGED <<s, cpu_pc, prompt, stop, frames, asked>>

Top ==
  /\ at = "loop" /\ s.pc \in MonitorPrograms[script].code
  /\ at' = "take" /\ change_pc16(s)
  /\ asked' = [asked EXCEPT !.moved = Moved]
  /\ UNCHANGED <<lines, frames, monitor_events>>

Take ==
  /\ at = "take" /\ at' = "insn"
  /\ IF lines.pending_irq THEN m6502_take_irq_now
     ELSE UNCHANGED <<s, lines, cpu_pc, prompt, stop, frames, asked>>
  /\ UNCHANGED monitor_events

Op(t) == op6502[Peek(t.mem, t.pc)].name
\* The opcodes that M6502 leaves out do nothing.
Ran(t) ==
  IF Op(t) # "ill" THEN Execute(t) ELSE [t EXCEPT !.pc = (t.pc + 1) % 65536]

\* A branch that is not taken leaves the program counter to the core.
Jumps(t) ==
  \/ Op(t) \in {"JMP", "JSR", "BRK", "RTS", "RTI"}
  \/ Op(t) \in DOMAIN Branches /\ t[Branches[Op(t)][1]] = Branches[Op(t)][2]

\* CLI, PLP and RTI look at the line.
SetsAfterCli(t, u) ==
  /\ lines.irq_state /\ u.i = 0
  /\ Op(t) = "RTI" \/ (Op(t) \in {"CLI", "PLP"} /\ t.i = 1)

Framed(t, u) ==
  CASE Op(t) \in {"JSR", "BRK"} -> Append(frames, u.sp)
    [] Op(t) \in {"RTS", "RTI"} /\ frames # <<>> -> SubSeq(frames, 1, Len(frames) - 1)
    [] OTHER -> frames

Insn ==
  /\ at = "insn" /\ at' = "after"
  /\ LET t == Ran(s)
     IN  /\ IF Jumps(s) THEN change_pc16(t)
            ELSE s' = t /\ UNCHANGED <<cpu_pc, prompt, stop>>
         /\ lines' = [lines EXCEPT !.after_cli = SetsAfterCli(s, t)]
         /\ frames' = Framed(s, t)
         /\ asked' = [asked EXCEPT !.ran = IF asked.again THEN @ ELSE Counted(@),
                                   !.again = t.pc = s.pc, !.moved = Moved]
  /\ UNCHANGED monitor_events

After ==
  /\ at = "after" /\ at' = "loop"
  /\ IF lines.after_cli
     THEN /\ lines' = [lines EXCEPT !.after_cli = FALSE,
                                    !.pending_irq = @ \/ lines.irq_state]
          /\ UNCHANGED <<s, cpu_pc, prompt, stop, frames, asked>>
     ELSE IF lines.pending_irq THEN m6502_take_irq_now
     ELSE UNCHANGED <<s, lines, cpu_pc, prompt, stop, frames, asked>>
  /\ UNCHANGED monitor_events

\* Between slices; the NMI line goes up and down.
MoreEvents ==
  /\ monitor_events < MonitorPrograms[script].events
  /\ monitor_events' = monitor_events + 1
SetIrqLine(state) ==
  /\ at = "loop" /\ MoreEvents /\ lines.irq_state # state
  /\ lines' = [lines EXCEPT !.irq_state = state, !.pending_irq = @ \/ state]
  /\ UNCHANGED <<s, at, cpu_pc, prompt, stop, frames, asked>>
\* A handler runs for a slice before the next NMI.
Nmi ==
  /\ at = "loop" /\ MoreEvents /\ s.pc # Vector(s, NMI_VEC) /\ Interrupted(m6502_nmi(s))
  /\ UNCHANGED <<at, lines>>

Runs ==
  /\ ~prompt
  /\ Top \/ Take \/ Insn \/ After \/ Nmi \/ \E b \in BOOLEAN : SetIrqLine(b)
  /\ UNCHANGED <<script, running, breakpoints, reg, monitor_edits, watched>>
-----------------------------------------------------------------------------
(* The commands *)

Editing ==
  /\ monitor_edits < MonitorPrograms[script].edits
  /\ monitor_edits' = monitor_edits + 1

monitor_breakpoint_set(addr) ==
  /\ breakpoints' = IF Len(breakpoints) = MAX_BREAKPOINTS \/ monitor_is_breakpoint(addr)
                    THEN breakpoints ELSE Append(breakpoints, addr)
  /\ watched' = IF Len(breakpoints) = MAX_BREAKPOINTS THEN watched ELSE watched \cup {addr}

\* A mutant: the last breakpoint goes, not the one at the index.
Without_Last(index) == SubSeq(breakpoints, 1, Len(breakpoints) - 1)
Without(index) ==
  SubSeq(breakpoints, 1, index) \o SubSeq(breakpoints, index + 2, Len(breakpoints))

\* The user reads the index in the list.
monitor_breakpoint_del(index) ==
  /\ breakpoints' = Without(index)
  /\ watched' = watched \ {breakpoints[index + 1]}

Breakpoints ==
  /\ Editing
  /\ \/ \E addr \in Typed : monitor_breakpoint_set(addr)
     \/ \E index \in 0 .. Len(breakpoints) - 1 : monitor_breakpoint_del(index)
  /\ UNCHANGED <<s, reg, frames, asked>>

\* A name that is no register's stands for the one of the last time.
set_register ==
  /\ Editing
  /\ \E name \in {"pc", "other"}, value \in Typed :
       /\ reg' = IF name = "other" THEN reg ELSE name
       /\ s' = IF reg' = "pc" THEN [s EXCEPT !.pc = value] ELSE s
       /\ asked' = [asked EXCEPT !.moved = @ \/ reg' = "pc"]
       /\ frames' = IF reg' = "pc" THEN <<>> ELSE frames
  /\ UNCHANGED <<breakpoints, watched>>

\* A command that leaves the prompt; goal is the subroutine the user wants to
\* see the end of, when nothing is on the stack in it.
Leaves(command, next) ==
  /\ prompt' = FALSE /\ stop' = next
  /\ asked' = [asked EXCEPT
       !.command = command, !.addr = next.addr, !.ran = 0, !.taken = 0, !.again = FALSE,
       !.sp = IF command = "g r" THEN s.sp ELSE 0,
       !.goal = IF command = "g r" /\ ~IsRet(s) /\ frames # <<>> /\ frames[Len(frames)] = s.sp
                THEN Len(frames) ELSE 0]

GoTo(command, addr) == Leaves(command, [stop EXCEPT !.at_addr = TRUE, !.addr = addr])

Go ==
  /\ \/ /\ \/ Leaves("g", stop)
           \/ \E addr \in Typed : GoTo("g addr", addr)
           \/ Leaves("g r", [stop EXCEPT !.at_ret = TRUE, !.frame = s.sp])
           \/ GoTo("t", s.pc + Dasm6502(s, s.pc).length)
           \/ Leaves("s", [stop EXCEPT !.step = TRUE])
        /\ UNCHANGED running
     \/ Leaves("x", stop) /\ running' = FALSE
  /\ UNCHANGED <<s, breakpoints, reg, monitor_edits, watched, frames>>

Command ==
  /\ prompt
  /\ \/ (Breakpoints \/ set_register) /\ UNCHANGED <<prompt, stop, running>>
     \/ Go
  /\ UNCHANGED <<script, at, lines, cpu_pc, monitor_events>>

\* Ctrl+F1, from the thread of the window: in the middle of an instruction, or
\* while the prompt is open, which then opens once more.
monitor_enable ==
  /\ MoreEvents /\ ~stop.enabled /\ stop' = [stop EXCEPT !.enabled = TRUE]
  /\ UNCHANGED <<script, s, at, lines, cpu_pc, prompt, running, breakpoints, reg, monitor_edits,
                 watched, frames, asked>>

Next == Runs \/ Command \/ monitor_enable
Spec == Init /\ [][Next]_monitorVars
-----------------------------------------------------------------------------
(* Properties *)

\* What the user has asked for, said of the processor about to run: a
\* breakpoint, a BRK, the next instruction, an address, the end of a
\* subroutine.
Wanted(t) ==
  \/ t.pc \in watched \/ IsBreak(t)
  \/ asked.command = "s"
  \/ asked.command \in {"g addr", "t"} /\ t.pc = asked.addr
  \/ asked.command = "g r" /\ IsRet(t) /\ t.sp = asked.sp

Opens == ~prompt /\ prompt'
JustLeft == asked.ran = 0 /\ asked.taken = 0 /\ asked.command # "none"

\* An instruction where the user wants to stop is run only from the prompt,
\* unless it jumps to itself or pc was set by hand.
NeverRunsPast ==
  at = "insn" /\ at' = "after" /\ running /\ Wanted(s)
    => JustLeft \/ asked.again \/ asked.moved

\* The prompt opens where that is wanted, and for nothing that was wanted
\* before an earlier prompt.
OpensWhereWanted == Opens => stop.enabled \/ Wanted(s')

\* A step is one instruction, the entry of a handler, or both.
StepsOnce ==
  Opens /\ asked.command = "s" /\ ~asked.moved =>
    asked'.ran <= 1 /\ asked'.taken <= 1 /\ asked'.ran + asked'.taken >= 1

\* The subroutine that the user wants to see the end of is not left before the
\* prompt opens, and no other's end opens it.
EndsItsSubroutine ==
  asked.goal > 0 /\ running =>
    /\ at = "insn" /\ at' = "after" => Len(frames') >= asked.goal
    /\ Opens /\ ~stop.enabled /\ s'.pc \notin watched /\ ~IsBreak(s')
         => Len(frames') = asked.goal

StopsAsAsked == NeverRunsPast /\ OpensWhereWanted /\ StepsOnce /\ EndsItsSubroutine

\* The listing of an instruction has the bytes the processor takes, the
\* address it reads, writes or goes to, and what it does there.  Only in
\* JMP ($xxFF) it has the address that the processor should have taken.
ListsTheInstruction(t, u) ==
  LET d == Dasm6502(t, t.pc)
      after   == (t.pc + d.length) % 65536
      changed == {a \in DOMAIN u.mem : Peek(u.mem, a) # Peek(t.mem, a)}
      pages   == t.pc < 65533 /\ Peek(t.mem, t.pc + 1) = 255
  IN  /\ CASE d.access = "JMP" -> u.pc = d.ea \/ (Peek(t.mem, t.pc) = 108 /\ pages)
           [] d.access = "BRA" -> u.pc \in {after, d.ea}
           [] OTHER -> u.pc = after \/ d.name \in {"BRK", "RTS", "RTI"}
      /\ CASE d.access \in {"WR", "RW"} -> changed \subseteq {d.ea}
           [] d.name \in {"PHA", "PHP", "JSR", "BRK"} -> changed \subseteq 256..511
           [] OTHER -> changed = {}
      /\ d.access = "WR" => Peek(u.mem, d.ea) \in {t.a, t.x, t.y}
      /\ d.name = "LDA" => u.a = IF d.access = "VAL" THEN d.ea ELSE Peek(t.mem, d.ea)
      /\ d.name = "LDX" => u.x = IF d.access = "VAL" THEN d.ea ELSE Peek(t.mem, d.ea)
      /\ d.name = "LDY" => u.y = IF d.access = "VAL" THEN d.ea ELSE Peek(t.mem, d.ea)

RunsAsListed == at = "insn" /\ at' = "after" => ListsTheInstruction(s, s')
=============================================================================
