------------------------------- MODULE Timers -------------------------------
(***************************************************************************)
(* The timers of src/system.c and src/sys_timer.c, and the IRQ they raise. *)
(* compy_run_frame advances them at the end of a scanline and only then    *)
(* moves the IRQ line of the CPU: an acknowledged timer keeps the line up  *)
(* until the scanline ends, and the handler is entered again and again.    *)
(*                                                                         *)
(* The guest is a main program, which may store anything in the registers  *)
(* of the timers, and a handler that acknowledges the timers it finds in   *)
(* SYS_TIMER_IRQ and returns.  The three bytes of a timeout are one store. *)
(***************************************************************************)
EXTENDS Integers, TLAPS

CONSTANTS
  MAX_TIMERS,
  Selectable,  (* how many of them SYS_TIMER_NDX tells apart               *)
  Timeouts,    (* the timeouts the program uses, in microseconds           *)
  Tick,        (* the microseconds of a scanline                           *)
  Word,        (* 2^32: elapsed is an unsigned int                         *)
  Steps        (* instructions of the guest in a scanline                  *)

ASSUME TimersAssumption ==
  /\ MAX_TIMERS \in Nat /\ Selectable \in 1 .. MAX_TIMERS
  /\ Timeouts \subseteq Nat /\ 0 \in Timeouts
  /\ Tick \in Nat \ {0} /\ Word \in Nat /\ Steps \in Nat \ {0}
  /\ \A t \in Timeouts : t + Tick < Word

Index == 0 .. MAX_TIMERS - 1

VARIABLES
  timers,         (* elapsed, timeout, enabled and triggered of each       *)
  timer_index,    (* the timer the registers are those of                  *)
  sys_timer_irq,  (* the timers found triggered at the last line end       *)
  pending_irq,    (* the CPU takes an IRQ before its next instruction      *)
  I,              (* the interrupt flag of the main program                *)
  handler,        (* what the handler does next, "out" when it is not run  *)
  steps,          (* instructions of this scanline so far                  *)
  quiet           (* history: the last line ends that found no timer       *)
                  (* triggered, up to two                                  *)

timersVars == <<timers, timer_index, sys_timer_irq, pending_irq, I, handler, steps, quiet>>

TimersInit ==
  /\ timers = [i \in Index |-> [elapsed |-> 0, timeout |-> 0,
                                enabled |-> FALSE, triggered |-> FALSE]]
  /\ timer_index = 0
  /\ sys_timer_irq = {}
  /\ pending_irq = FALSE /\ I = TRUE /\ handler = "out"
  /\ steps = 0 /\ quiet = 2
-----------------------------------------------------------------------------
(* The end of a scanline *)

sys_timer_run_Exact(t) ==
  LET elapsed == (t.elapsed + Tick) % Word
  IN  IF elapsed = t.timeout
      THEN [t EXCEPT !.triggered = t.enabled, !.elapsed = elapsed - t.timeout]
      ELSE [t EXCEPT !.elapsed = elapsed]

sys_timer_run_AlwaysTriggers(t) ==
  LET elapsed == (t.elapsed + Tick) % Word
  IN  [t EXCEPT !.triggered = t.enabled,
                !.elapsed = IF elapsed >= t.timeout THEN elapsed - t.timeout
                            ELSE elapsed]

\* A timer takes one timeout off in a scanline, however far behind it is.
sys_timer_run(t) ==
  LET elapsed == (t.elapsed + Tick) % Word
  IN  IF elapsed >= t.timeout
      THEN [t EXCEPT !.triggered = t.enabled, !.elapsed = elapsed - t.timeout]
      ELSE [t EXCEPT !.elapsed = elapsed]

\* The line going down does not take a pending IRQ back.
cpuexec_irq(raised) == pending_irq' = (pending_irq \/ raised)

scanline_ends ==
  /\ steps = Steps /\ steps' = 0
  /\ timers' = [i \in Index |-> sys_timer_run(timers[i])]
  /\ sys_timer_irq' = {i \in Index : timers'[i].triggered}
  /\ cpuexec_irq(sys_timer_irq' # {})
  /\ quiet' = IF sys_timer_irq' # {} THEN 0 ELSE IF quiet = 2 THEN 2 ELSE quiet + 1
  /\ UNCHANGED <<timer_index, I, handler>>
-----------------------------------------------------------------------------
(* The instructions of the guest *)

sys_timer_store ==
  /\ \/ \E t \in Timeouts : timers' = [timers EXCEPT ![timer_index].timeout = t]
     \/ \E b \in BOOLEAN  : timers' = [timers EXCEPT ![timer_index].enabled = b]
     \/ timers' = [timers EXCEPT ![timer_index].triggered = FALSE]
  /\ UNCHANGED <<timer_index, I>>

select_timer ==
  /\ timer_index' \in 0 .. Selectable - 1
  /\ UNCHANGED <<timers, I>>

\* An IRQ that is pending while interrupts are off is forgotten: CLI makes it
\* pending again if the line is still up.
main_program ==
  /\ handler = "out" /\ ~(pending_irq /\ ~I)
  /\ \/ (sys_timer_store \/ select_timer) /\ pending_irq' = FALSE
     \/ /\ I' = TRUE /\ pending_irq' = FALSE
        /\ UNCHANGED <<timers, timer_index>>
     \/ /\ I' = FALSE /\ pending_irq' = (I /\ sys_timer_irq # {})
        /\ UNCHANGED <<timers, timer_index>>
  /\ UNCHANGED handler

\* The CPU takes the IRQ and runs the first instruction of the handler.
m6502_take_irq ==
  /\ handler = "out" /\ pending_irq /\ ~I
  /\ pending_irq' = FALSE
  /\ handler' = "acknowledges"
  /\ UNCHANGED <<timers, timer_index, I>>

\* The handler selects each timer in turn, and selects the old one again.
acknowledges ==
  /\ handler = "acknowledges" /\ handler' = "returns"
  /\ timers' = [i \in Index |->
       IF i \in sys_timer_irq /\ i < Selectable
       THEN [timers[i] EXCEPT !.triggered = FALSE] ELSE timers[i]]
  /\ pending_irq' = FALSE
  /\ UNCHANGED <<timer_index, I>>

RTI_AlwaysPending ==
  /\ handler = "returns" /\ handler' = "out"
  /\ pending_irq' = TRUE
  /\ UNCHANGED <<timers, timer_index, I>>

\* The main program goes on with interrupts on: a line that is up is taken
\* before its next instruction.
RTI ==
  /\ handler = "returns" /\ handler' = "out"
  /\ pending_irq' = (sys_timer_irq # {})
  /\ UNCHANGED <<timers, timer_index, I>>

m6502_execute ==
  /\ steps < Steps /\ steps' = steps + 1
  /\ main_program \/ m6502_take_irq \/ acknowledges \/ RTI
  /\ UNCHANGED <<sys_timer_irq, quiet>>

TimersNext == scanline_ends \/ m6502_execute

\* The emulator thread is scheduled.
TimersSpec ==
  /\ TimersInit /\ [][TimersNext]_timersVars
  /\ WF_timersVars(scanline_ends) /\ WF_timersVars(m6502_execute)
-----------------------------------------------------------------------------
(* Properties *)

\* The handler is entered for nothing at most in the scanlines that follow an
\* expiry: a line end that finds no timer triggered stops it, but for the IRQ
\* that is already pending.
StrayInterruptsEnd ==
  [][handler = "out" /\ handler' = "acknowledges" => quiet <= 1]_timersVars

\* A timer that stays enabled interrupts a program that keeps interrupts on
\* again and again, whatever its timeout was before.
TimersInterrupt ==
  \A i \in 0 .. Selectable - 1, t \in Timeouts :
    <>[](timers[i].enabled /\ timers[i].timeout = t /\ ~I)
      => []<>(handler = "returns")

\* However often an expiry enters the handler, and however far a timer was
\* behind, the main program is not starved by one timer that is slower than
\* the scanlines.
ProgramGoesOn ==
  \A i \in 0 .. Selectable - 1, t \in Timeouts :
    t > Tick /\ <>[](/\ timers[i].timeout = t
                     /\ \A j \in Index \ {i} : ~timers[j].enabled)
      => []<>(steps < Steps /\ handler = "out" /\ ~(pending_irq /\ ~I))
-----------------------------------------------------------------------------
(* Proofs *)

\* A line end that finds no timer triggered leaves the line down: whatever the
\* guest does next forgets an IRQ that is pending, and none is pending once a
\* second line end has found no timer either.
Quietness ==
  /\ quiet \in 0 .. 2 /\ steps \in 0 .. Steps
  /\ quiet >= 1 => sys_timer_irq = {}
  /\ quiet >= 1 /\ steps >= 1 => ~pending_irq
  /\ quiet = 2 => ~pending_irq

LEMMA InitQuietness == TimersInit => Quietness
  BY TimersAssumption DEF TimersInit, Quietness

LEMMA NextQuietness == Quietness /\ [TimersNext]_timersVars => Quietness'
<1> SUFFICES ASSUME Quietness, [TimersNext]_timersVars PROVE Quietness'
  OBVIOUS
<1> USE TimersAssumption DEF Quietness
<1>1. CASE scanline_ends
  \* The line that ends had an instruction, so it leaves nothing pending.
  <2>1. quiet >= 1 => ~pending_irq
    BY <1>1 DEF scanline_ends
  <2>2. steps' = 0 /\ quiet' = IF sys_timer_irq' # {} THEN 0
                               ELSE IF quiet = 2 THEN 2 ELSE quiet + 1
    BY <1>1 DEF scanline_ends
  <2>3. quiet' \in 0 .. 2 /\ steps' \in 0 .. Steps
    <3>1. quiet \in 0 .. 2
      OBVIOUS
    <3> QED
      BY <2>2, <3>1
  <2>4. quiet' >= 1 => sys_timer_irq' = {}
    BY <2>2
  <2>5. quiet' = 2 => ~pending_irq'
    <3>1. sys_timer_irq' = {} /\ ~pending_irq => ~pending_irq'
      BY <1>1, Zenon DEF scanline_ends, cpuexec_irq
    <3>2. quiet' = 2 => sys_timer_irq' = {} /\ quiet >= 1
      <4>1. quiet \in 0 .. 2
        OBVIOUS
      <4> QED
        BY <2>2, <4>1
    <3> QED
      BY <2>1, <3>1, <3>2, Zenon
  <2> QED
    BY <2>2, <2>3, <2>4, <2>5
<1>2. CASE m6502_execute
  <2> SUFFICES sys_timer_irq = {} => ~pending_irq'
    BY <1>2 DEF m6502_execute
  <2>1. CASE main_program
    BY <2>1 DEF main_program
  <2>2. CASE m6502_take_irq
    BY <2>2 DEF m6502_take_irq
  <2>3. CASE acknowledges
    BY <2>3 DEF acknowledges
  <2>4. CASE RTI
    BY <2>4 DEF RTI
  <2> QED
    BY <1>2, <2>1, <2>2, <2>3, <2>4 DEF m6502_execute
<1>3. CASE UNCHANGED timersVars
  BY <1>3 DEF timersVars
<1> QED
  BY <1>1, <1>2, <1>3 DEF TimersNext

\* An interrupt is entered for nothing at most in the two scanlines after the
\* last expiry, for any number of timers and whatever is stored in them.
THEOREM StrayInterrupts == TimersSpec => StrayInterruptsEnd
<1>1. Quietness /\ [TimersNext]_timersVars
        => [handler = "out" /\ handler' = "acknowledges" => quiet <= 1]_timersVars
  <2> SUFFICES ASSUME Quietness, [TimersNext]_timersVars,
                      handler = "out", handler' = "acknowledges"
               PROVE quiet <= 1
    BY DEF timersVars
  <2>1. handler' # handler
    OBVIOUS
  <2>2. m6502_execute
    BY <2>1 DEF TimersNext, scanline_ends, timersVars
  <2>3. m6502_take_irq
    BY <2>1, <2>2 DEF m6502_execute, main_program, acknowledges, RTI
  <2> QED
    BY <2>3 DEF m6502_take_irq, Quietness
<1> QED
  BY <1>1, InitQuietness, NextQuietness, PTL DEF TimersSpec, StrayInterruptsEnd
=============================================================================
