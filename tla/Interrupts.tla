----------------------------- MODULE Interrupts -----------------------------
(***************************************************************************)
(* The two interrupts of the machine: the NMI, which Chroni raises within  *)
(* a scanline (Machine), and the IRQ, which the timers raise when it ends  *)
(* (Timers).  compy_run_frame runs both, but neither reads what the other  *)
(* writes: a handler only changes which stores of the guest come next, and *)
(* each model allows them all.  In a behaviour one of them is at work.     *)
(***************************************************************************)
EXTENDS Machine, Timers

VARIABLE interrupt
interruptsVars == <<interrupt, vars, timersVars>>

InterruptsInit == interrupt \in {"nmi", "irq"} /\ Init /\ TimersInit

OfNmi == interrupt = "nmi" /\ UNCHANGED <<interrupt, timersVars>>
OfIrq == interrupt = "irq" /\ UNCHANGED <<interrupt, vars>>

Frames    == compy_run_frame /\ OfNmi
Closes    == frontend_shutdown /\ OfNmi
TimersRun == scanline_ends /\ OfIrq
GuestRuns == m6502_execute /\ OfIrq

InterruptsNext == Frames \/ Closes \/ TimersRun \/ GuestRuns

\* The emulator thread is scheduled.
InterruptsSpec ==
  /\ InterruptsInit /\ [][InterruptsNext]_interruptsVars
  /\ WF_interruptsVars(Frames)
  /\ WF_interruptsVars(TimersRun) /\ WF_interruptsVars(GuestRuns)
=============================================================================
