--------------------------- MODULE Machine_proofs ---------------------------
(***************************************************************************)
(* Proofs about the frame loop.  The cycle counters are their own          *)
(* invariant: the drift is what was stolen less what was saved.  For the   *)
(* NMI the invariant follows one line: the line is down and STATUS_HBLANK  *)
(* clear from the display on, the status names the cause while the handler *)
(* has not run, and the porch is long enough for it to run at once.        *)
(***************************************************************************)
EXTENDS Machine, TLAPS

Clock ==
  /\ drift = cycles_stolen - cycles_acum
  /\ cycles_acum - cycles_stolen < MinCycles

LineInFrame ==
  pc \in {"back_porch", "run_back", "display", "run_display", "front_porch"} =>
    output_scanline < Total

NmiLineDown ==
  pc \in {"run_display", "front_porch"} =>
    nmi_state = 0 /\ cause = "none" /\ vector = "none" /\ ~hblank

StatusNamesCause ==
  pc = "run_front" =>
    /\ ~halted
    /\ vector = "none"
    /\ cause = "vblank" => vblank /\ ~hblank
    /\ cause = "hblank" => hblank

IInv ==
  /\ TypeOK
  /\ Clock
  /\ LineInFrame
  /\ NmiLineDown
  /\ StatusNamesCause
  /\ NmiReachesItsVector

\* The sum of the parts of a frame.
LEMMA TotalIsNat == Total \in Nat
  BY MachineAssumption DEF Total

\* A machine that is switched on satisfies the invariant.
LEMMA InitInv == Init => IInv
  <1> SUFFICES ASSUME Init PROVE IInv
    OBVIOUS
  <1> USE CpuAssumption, MachineAssumption DEF Init, cpuexec_init
  <1>1. TypeOK
    <2>1. cycles_acum \in Nat /\ cycles_stolen \in 0 .. MaxOver /\ drift \in Int
      OBVIOUS
    <2>2. output_scanline \in 0 .. Total /\ scanline_interrupt \in Lines
      BY TotalIsNat
    <2> QED
      BY <2>1, <2>2 DEF TypeOK
  <1>2. Clock
    BY DEF Clock
  <1>3. LineInFrame /\ NmiLineDown /\ StatusNamesCause /\ NmiReachesItsVector
    BY DEF LineInFrame, NmiLineDown, StatusNamesCause, NmiReachesItsVector
  <1> QED
    BY <1>1, <1>2, <1>3 DEF IInv

\* However a slice ends, the counters keep their types and the clock.
LEMMA SliceKeepsClock ==
  ASSUME IInv, NEW n \in Nat, cpuexec_run(n)
  PROVE  /\ cycles_acum' \in Nat /\ cycles_stolen' \in 0 .. MaxOver
         /\ halted' \in BOOLEAN /\ drift' \in Int
         /\ scanline_interrupt' \in Lines /\ ints' \in BOOLEAN
         /\ vector' \in {"none", "hblank", "vblank", "ignored"}
         /\ Clock'
  <1>0. /\ MinCycles \in Nat \ {0} /\ MaxOver \in Nat
        /\ cycles_acum \in Nat /\ cycles_stolen \in 0 .. MaxOver /\ drift \in Int
        /\ drift = cycles_stolen - cycles_acum
        /\ cycles_acum - cycles_stolen < MinCycles
    BY CpuAssumption DEF IInv, TypeOK, Clock
  <1>1. CASE halted \/ closed
    <2>1. forget_time /\ UNCHANGED <<chroniVars, vector>>
      BY <1>1 DEF cpuexec_run
    <2>2. cycles_acum' = 0 /\ cycles_stolen' = 0 /\ drift' = 0 /\ halted' = halted
      BY <2>1 DEF forget_time
    <2>3. Clock'
      BY <1>0, <2>2 DEF Clock
    <2>4. cycles_acum' \in Nat /\ cycles_stolen' \in 0 .. MaxOver /\ drift' \in Int
      BY <1>0, <2>2
    <2> QED
      BY <2>1, <2>2, <2>3, <2>4 DEF chroniVars, IInv, TypeOK
  <1>2. CASE ~(halted \/ closed) /\ ToRun(n) < MinCycles
    <2>1. save_time(n) /\ UNCHANGED <<chroniVars, vector>>
      BY <1>2 DEF cpuexec_run
    <2>2. /\ cycles_acum' = cycles_acum + n /\ cycles_stolen' = cycles_stolen
          /\ drift' = drift - n /\ halted' = halted
      BY <2>1 DEF save_time
    <2>3. Clock'
      BY <1>0, <1>2, <2>2 DEF Clock, ToRun
    <2>4. cycles_acum' \in Nat /\ cycles_stolen' \in 0 .. MaxOver /\ drift' \in Int
      BY <1>0, <2>2
    <2> QED
      BY <2>1, <2>2, <2>3, <2>4 DEF chroniVars, IInv, TypeOK
  <1>3. CASE ~(halted \/ closed) /\ ~(ToRun(n) < MinCycles)
    <2>1. run_for(n) /\ Guest
      BY <1>3 DEF cpuexec_run
    <2>2. 0 \in 0 .. MaxOver
      BY <1>0
    <2>3. /\ cycles_acum' = 0 /\ cycles_stolen' \in 0 .. MaxOver
          /\ drift' = drift + ToRun(n) + cycles_stolen' - n
      BY <2>1, <2>2 DEF run_for
    <2>4. PICK stolen \in 0 .. MaxOver : cycles_stolen' = stolen
      BY <2>3
    <2>5. drift' = stolen
      <3>1. drift + ToRun(n) + stolen - n = stolen
        BY <1>0 DEF ToRun
      <3> QED
        BY <2>3, <2>4, <3>1
    <2>6. Clock'
      <3>1. stolen = stolen - 0 /\ 0 - stolen < MinCycles
        BY <1>0
      <3> QED
        BY <2>3, <2>4, <2>5, <3>1 DEF Clock
    <2>7. cycles_acum' \in Nat /\ drift' \in Int
      BY <1>0, <2>3, <2>5
    <2>8. halted' \in BOOLEAN
      BY <2>1 DEF run_for
    <2>9. /\ vector' \in {"none", "hblank", "vblank", "ignored"}
          /\ scanline_interrupt' \in Lines /\ ints' \in BOOLEAN
      BY <2>1 DEF Guest, nmi_os, IInv, TypeOK
    <2> QED
      BY <2>3, <2>6, <2>7, <2>8, <2>9
  <1> QED
    BY <1>1, <1>2, <1>3

\* A slice as long as a porch is run at once: the debt of the slice before
\* it is smaller.
LEMMA PorchIsRun ==
  ASSUME IInv, ~halted, ~closed, cpuexec_run(PorchCycles)
  PROVE  run_for(PorchCycles) /\ Guest
  <1>1. ToRun(PorchCycles) >= MinCycles
    BY CpuAssumption, MachineAssumption DEF IInv, TypeOK, ToRun
  <1>2. ToRun(PorchCycles) \in Int
    BY CpuAssumption, MachineAssumption DEF IInv, TypeOK, ToRun
  <1>3. ~(ToRun(PorchCycles) < MinCycles)
    BY <1>1, <1>2, CpuAssumption
  <1> QED
    BY <1>3 DEF cpuexec_run

\* Every step of the two threads keeps the invariant.
LEMMA NextInv == IInv /\ [Next]_vars => IInv'
  <1> SUFFICES ASSUME IInv, [Next]_vars PROVE IInv'
    OBVIOUS
  <1> USE TotalIsNat, CpuAssumption, MachineAssumption
  <1>1. CASE chroni_frame_start
    <2> USE <1>1 DEF chroni_frame_start, Goto, IInv, cpuVars, chroniVars, nmiVars
    <2>1. TypeOK'
      BY DEF TypeOK, Total
    <2>2. Clock'
      BY DEF Clock
    <2>3. LineInFrame'
      BY DEF LineInFrame, Total
    <2>4. NmiLineDown' /\ StatusNamesCause' /\ NmiReachesItsVector'
      BY DEF NmiLineDown, StatusNamesCause, NmiReachesItsVector
    <2> QED
      BY <2>1, <2>2, <2>3, <2>4
  <1>2. CASE chroni_scanline_back_porch
    <2> USE <1>2 DEF chroni_scanline_back_porch, Goto, IInv, cpuVars, chroniVars, nmiVars
    <2>1. TypeOK' /\ Clock'
      BY DEF TypeOK, Clock
    <2>2. LineInFrame'
      BY DEF LineInFrame
    <2>3. NmiLineDown' /\ StatusNamesCause' /\ NmiReachesItsVector'
      BY DEF NmiLineDown, StatusNamesCause, NmiReachesItsVector
    <2> QED
      BY <2>1, <2>2, <2>3
  <1>3. CASE CPU_GO("run_back", "display", PorchCycles)
    <2> USE <1>3 DEF CPU_GO, Goto, IInv
    <2>1. TypeOK' /\ Clock'
      BY SliceKeepsClock DEF TypeOK
    <2>2. LineInFrame'
      BY DEF LineInFrame
    <2>3. NmiLineDown' /\ StatusNamesCause' /\ NmiReachesItsVector'
      BY DEF NmiLineDown, StatusNamesCause, NmiReachesItsVector
    <2> QED
      BY <2>1, <2>2, <2>3
  <1>4. CASE chroni_scanline_display
    <2> USE <1>4 DEF chroni_scanline_display, Goto, IInv, cpuVars, chroniVars
    <2>1. TypeOK' /\ Clock'
      BY DEF TypeOK, Clock
    <2>2. LineInFrame'
      BY DEF LineInFrame
    <2>3. NmiLineDown' /\ StatusNamesCause' /\ NmiReachesItsVector'
      BY DEF NmiLineDown, StatusNamesCause, NmiReachesItsVector
    <2> QED
      BY <2>1, <2>2, <2>3
  <1>5. CASE CPU_GO("run_display", "front_porch", DisplayCycles)
    <2> USE <1>5 DEF CPU_GO, Goto, IInv
    <2>1. TypeOK' /\ Clock'
      BY SliceKeepsClock DEF TypeOK
    <2>2. LineInFrame'
      BY DEF LineInFrame
    <2>3. vector' = vector
      BY DEF NmiLineDown, cpuexec_run, Guest, nmi_os
    <2>4. NmiLineDown' /\ StatusNamesCause' /\ NmiReachesItsVector'
      BY <2>3 DEF NmiLineDown, StatusNamesCause, NmiReachesItsVector
    <2> QED
      BY <2>1, <2>2, <2>4
  <1>6. CASE chroni_scanline_front_porch
    <2> USE <1>6 DEF chroni_scanline_front_porch, Goto, IInv
    <2>1. output_scanline' \in 0 .. Total
      BY DEF LineInFrame, TypeOK
    <2>2. /\ UNCHANGED <<cycles_acum, cycles_stolen, drift>>
          /\ halted' = FALSE
      BY DEF cpuexec_halt
    <2>3. /\ nmi_state' \in {0, 1}
          /\ vector' = "none"
          /\ \/ cause' = "none"
             \/ cause' = "vblank" /\ vblank_starts
             \/ cause' = "hblank" /\ ~vblank_starts
      BY DEF NmiLineDown, cpuexec_nmi, nmiVars
    <2>4. /\ vblank' \in BOOLEAN /\ hblank' \in BOOLEAN
          /\ IF vblank_starts THEN vblank' /\ ~hblank' ELSE hblank'
      BY DEF NmiLineDown, set_status, TypeOK
    <2>5. TypeOK'
      BY <2>1, <2>2, <2>3, <2>4 DEF TypeOK, chroniVars
    <2>6. Clock'
      BY <2>2 DEF Clock
    <2>7. StatusNamesCause'
      BY <2>2, <2>3, <2>4 DEF StatusNamesCause
    <2>8. LineInFrame' /\ NmiLineDown' /\ NmiReachesItsVector'
      BY DEF LineInFrame, NmiLineDown, NmiReachesItsVector
    <2> QED
      BY <2>5, <2>6, <2>7, <2>8
  <1>7. CASE line_ends
    <2> USE <1>7 DEF line_ends, CPU_GO, Goto, IInv
    <2>1. TypeOK' /\ Clock'
      BY SliceKeepsClock DEF TypeOK
    <2>2. LineInFrame'
      BY DEF LineInFrame, TypeOK
    <2>3. ASSUME cause # "none", ~closed PROVE vector' = cause
      <3>1. Guest
        BY <2>3, PorchIsRun DEF StatusNamesCause
      <3>2. cause = "vblank" \/ cause = "hblank"
        BY <2>3 DEF TypeOK
      <3> QED
        BY <2>3, <3>1, <3>2 DEF Guest, nmi_os, StatusNamesCause
    <2>4. NmiReachesItsVector'
      BY <2>3 DEF NmiReachesItsVector
    <2>5. NmiLineDown' /\ StatusNamesCause'
      BY DEF NmiLineDown, StatusNamesCause
    <2> QED
      BY <2>1, <2>2, <2>4, <2>5
  <1>8. CASE frontend_shutdown
    <2> USE <1>8 DEF frontend_shutdown, IInv, cpuVars, chroniVars, nmiVars
    <2>1. TypeOK' /\ Clock'
      BY DEF TypeOK, Clock
    <2>2. LineInFrame' /\ NmiLineDown' /\ StatusNamesCause' /\ NmiReachesItsVector'
      BY DEF LineInFrame, NmiLineDown, StatusNamesCause, NmiReachesItsVector
    <2> QED
      BY <2>1, <2>2
  <1>9. CASE UNCHANGED vars
    BY <1>9 DEF vars, cpuVars, chroniVars, nmiVars, IInv, TypeOK, Clock, LineInFrame,
                NmiLineDown, StatusNamesCause, NmiReachesItsVector
  <1> QED
    BY <1>1, <1>2, <1>3, <1>4, <1>5, <1>6, <1>7, <1>8, <1>9 DEF Next, compy_run_frame

\* The invariant holds in every state of the frame loop.
THEOREM Invariance == Spec => []IInv
  BY InitInv, NextInv, PTL DEF Spec

\* compy_run_frame and its slices keep the counters, the scanline and the
\* status within their types.
THEOREM TypeCorrect == Spec => []TypeOK
  <1>1. IInv => TypeOK
    BY DEF IInv
  <1> QED
    BY Invariance, <1>1, PTL

\* cpuexec_run gives the CPU the time of the raster, whatever the lengths of
\* the slices and of the instructions.
THEOREM Timekeeping == Spec => []CpuKeepsTime
  <1>1. IInv => CpuKeepsTime
    BY CpuAssumption DEF IInv, TypeOK, Clock, CpuKeepsTime
  <1> QED
    BY Invariance, <1>1, PTL

\* nmi_os goes to the vector of the interrupt that Chroni raised, as long as
\* a porch is longer than an instruction can overrun its slice.
THEOREM NmiDispatch == Spec => []NmiReachesItsVector
  <1>1. IInv => NmiReachesItsVector
    BY DEF IInv
  <1> QED
    BY Invariance, <1>1, PTL
=============================================================================
