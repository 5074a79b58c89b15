------------------------------- MODULE Machine ------------------------------
(***************************************************************************)
(* The frame loop of src/clc88.c and the slices of CPU time of             *)
(* src/cpuexec.c that it grants.  A slice pays back the cycles that the    *)
(* last instruction of the one before took too many.  The CPU itself is    *)
(* external: cpu->run executes whole instructions until the cycles are     *)
(* used up, or until a store to WSYNC halts it.                            *)
(*   Each scanline is a back porch, a display and a front porch of Chroni  *)
(* (src/video/chroni.c), each followed by a slice.  Chroni raises the NMI  *)
(* in the front porch, for the end of the picture or for the line the      *)
(* guest chose; the handler of the OS (nmi_os in                           *)
(* asm/6502/os/interrupts.asm) finds out which of the two it was by        *)
(* reading the status of Chroni when it runs.                              *)
(*   What the guest does in a slice is any of the stores that matter here: *)
(* WSYNC, the interrupt enable of VSTATUS, and the interrupt scanline. The *)
(* sound and the timers, which the loop runs after each scanline, have     *)
(* modules of their own: they change nothing of this state.                *)
(***************************************************************************)
EXTENDS Integers

CONSTANTS
  MinCycles,  (* MIN_CYCLES: a shorter slice is saved for the next one      *)
  MaxOver     (* how far the last instruction of a run can pass its cycles  *)

ASSUME CpuAssumption == MinCycles \in Nat \ {0} /\ MaxOver \in Nat

VARIABLES
  cycles_acum,    (* cycles granted and not run yet                         *)
  cycles_stolen,  (* cycles run that were not granted yet                   *)
  halted,         (* the CPU waits for the end of the scanline              *)
  drift           (* history: cycles run less cycles granted since the      *)
                  (* counts were last reset                                 *)

cpuVars == <<cycles_acum, cycles_stolen, halted, drift>>

cpuexec_init ==
  /\ cycles_acum = 0 /\ cycles_stolen = 0
  /\ halted = FALSE
  /\ drift = 0

\* What a slice of n cycles lets the CPU run.
ToRun(n) == cycles_acum + n - cycles_stolen

\* The CPU is halted, or the frontend is not running: time is not kept.
forget_time ==
  /\ cycles_acum' = 0 /\ cycles_stolen' = 0
  /\ drift' = 0
  /\ UNCHANGED halted

\* The slice is too short to be run.
save_time(n) ==
  /\ cycles_acum' = cycles_acum + n
  /\ drift' = drift - n
  /\ UNCHANGED <<cycles_stolen, halted>>

run_for_KeepsAcum(n) ==
  /\ cycles_acum' = cycles_acum + n
  /\ cycles_stolen' \in 0 .. MaxOver
  /\ halted' = FALSE
  /\ drift' = drift + ToRun(n) + cycles_stolen' - n

\* A run that ends in WSYNC is taken to have used what it was given.
run_for(n) ==
  /\ cycles_acum' = 0
  /\ \/ /\ cycles_stolen' \in 0 .. MaxOver
        /\ halted' = FALSE
     \/ /\ cycles_stolen' = 0
        /\ halted' = TRUE
  /\ drift' = drift + ToRun(n) + cycles_stolen' - n

cpuexec_halt_NeverResumes(halt) ==
  /\ halted' = (halted \/ halt)
  /\ UNCHANGED <<cycles_acum, cycles_stolen, drift>>

cpuexec_halt(halt) ==
  /\ halted' = halt
  /\ UNCHANGED <<cycles_acum, cycles_stolen, drift>>
-----------------------------------------------------------------------------
CONSTANTS
  PorchCycles,    (* cpu_cycles_front_porch and cpu_cycles_back_porch       *)
  DisplayCycles,  (* cpu_cycles_display                                     *)
  Blank,          (* SCANLINES_BLANK                                        *)
  Display,        (* SCANLINES_DISPLAY                                      *)
  Lines           (* the interrupt scanlines the guest chooses              *)

\* The porch is long enough for the debt of the slice before it.
ASSUME MachineAssumption ==
  /\ PorchCycles \in Nat /\ DisplayCycles \in Nat
  /\ PorchCycles >= MaxOver + MinCycles
  /\ Blank \in Nat \ {0} /\ Display \in Nat \ {0}
  /\ Lines \subseteq Nat /\ 0 \in Lines

Total == Blank + Display + Blank

VARIABLES
  output_scanline,
  scanline_interrupt,
  vblank, hblank, ints,  (* STATUS_VBLANK, STATUS_HBLANK, STATUS_ENABLE_INTS *)
  nmi_state,             (* the NMI line of the CPU                          *)
  cause,                 (* what raised the NMI line, or "none"              *)
  vector,                (* where nmi_os went for it, or "none" so far       *)
  closed,                (* the window has been closed                       *)
  pc                     (* the next call of compy_run_frame                 *)

chroniVars == <<scanline_interrupt, ints>>
nmiVars    == <<nmi_state, cause, vector>>
vars == <<cpuVars, output_scanline, chroniVars, vblank, hblank, nmiVars, closed, pc>>

Init ==
  /\ cpuexec_init
  /\ output_scanline = 0
  /\ scanline_interrupt = 0
  /\ vblank = FALSE /\ hblank = FALSE /\ ints = FALSE
  /\ nmi_state = 0 /\ cause = "none" /\ vector = "none"
  /\ closed = FALSE
  /\ pc = "frame_start"

Goto(from, to) == pc = from /\ pc' = to
-----------------------------------------------------------------------------
(* Chroni *)

chroni_frame_start ==
  /\ Goto("frame_start", "back_porch")
  /\ vblank' = TRUE
  /\ output_scanline' = 0
  /\ UNCHANGED <<cpuVars, chroniVars, hblank, nmiVars, closed>>

chroni_scanline_back_porch ==
  /\ Goto("back_porch", "run_back")
  /\ hblank' = TRUE
  /\ UNCHANGED <<cpuVars, output_scanline, chroniVars, vblank, nmiVars, closed>>

\* The NMI line goes down: it is raised again as an edge.
chroni_scanline_display ==
  /\ Goto("display", "run_display")
  /\ hblank' = FALSE
  /\ nmi_state' = 0 /\ cause' = "none" /\ vector' = "none"
  /\ UNCHANGED <<cpuVars, output_scanline, chroniVars, vblank, closed>>

vblank_starts == output_scanline = Blank + Display
line_interrupt == output_scanline = Blank + scanline_interrupt

set_status_AlwaysHblank ==
  /\ vblank' = (vblank \/ vblank_starts)
  /\ hblank' = TRUE

\* The line that starts the vertical blank sets STATUS_VBLANK, and leaves
\* STATUS_HBLANK as the display left it.
set_status ==
  IF vblank_starts
  THEN vblank' = TRUE /\ UNCHANGED hblank
  ELSE hblank' = TRUE /\ UNCHANGED vblank

\* m6502_set_irq_line takes the NMI at once, when the line goes up.
cpuexec_nmi(from) ==
  IF nmi_state = 1 THEN UNCHANGED nmiVars
  ELSE nmi_state' = 1 /\ cause' = from /\ vector' = "none"

chroni_scanline_front_porch ==
  /\ Goto("front_porch", "run_front")
  /\ set_status
  /\ cpuexec_halt(FALSE)
  /\ IF (line_interrupt \/ vblank_starts) /\ ints
     THEN cpuexec_nmi(IF vblank_starts THEN "vblank" ELSE "hblank")
     ELSE UNCHANGED nmiVars
  /\ output_scanline' = output_scanline + 1
  /\ UNCHANGED <<chroniVars, closed>>
-----------------------------------------------------------------------------
(* The CPU *)

\* nmi_os, with which the CPU goes on after an NMI: the shortest slice that
\* is run reaches its BIT VSTATUS.
nmi_os ==
  vector' = IF cause = "none" \/ vector # "none" THEN vector
            ELSE IF hblank THEN "hblank"
            ELSE IF vblank THEN "vblank" ELSE "ignored"

Guest ==
  /\ nmi_os
  /\ ints' \in BOOLEAN
  /\ scanline_interrupt' \in Lines

cpuexec_run(n) ==
  IF halted \/ closed
  THEN forget_time /\ UNCHANGED <<chroniVars, vector>>
  ELSE IF ToRun(n) < MinCycles
  THEN save_time(n) /\ UNCHANGED <<chroniVars, vector>>
  ELSE run_for(n) /\ Guest

CPU_GO(from, to, n) ==
  /\ Goto(from, to)
  /\ cpuexec_run(n)
  /\ UNCHANGED <<output_scanline, vblank, hblank, nmi_state, cause, closed>>

\* The slice after the front porch ends the turn of the loop.
line_ends ==
  CPU_GO("run_front",
         IF output_scanline # Total THEN "back_porch"
         ELSE IF closed THEN "ended" ELSE "frame_start",
         PorchCycles)

frontend_shutdown ==
  /\ ~closed
  /\ closed' = TRUE
  /\ UNCHANGED <<cpuVars, output_scanline, chroniVars, vblank, hblank, nmiVars, pc>>

compy_run_frame ==
  \/ chroni_frame_start
  \/ chroni_scanline_back_porch
  \/ CPU_GO("run_back", "display", PorchCycles)
  \/ chroni_scanline_display
  \/ CPU_GO("run_display", "front_porch", DisplayCycles)
  \/ chroni_scanline_front_porch
  \/ line_ends

Next == compy_run_frame \/ frontend_shutdown

Spec == Init /\ [][Next]_vars
-----------------------------------------------------------------------------
(* Properties *)

TypeOK ==
  /\ cycles_acum \in Nat /\ cycles_stolen \in 0 .. MaxOver
  /\ halted \in BOOLEAN /\ drift \in Int
  /\ output_scanline \in 0 .. Total
  /\ scanline_interrupt \in Lines
  /\ vblank \in BOOLEAN /\ hblank \in BOOLEAN /\ ints \in BOOLEAN
  /\ nmi_state \in {0, 1}
  /\ cause \in {"none", "hblank", "vblank"}
  /\ vector \in {"none", "hblank", "vblank", "ignored"}
  /\ closed \in BOOLEAN
  /\ pc \in {"frame_start", "back_porch", "run_back", "display", "run_display",
             "front_porch", "run_front", "ended"}

\* Over any stretch of slices the CPU keeps step with the raster: it is never
\* a saved slice or more behind, nor more than its last instruction ahead.
CpuKeepsTime == -MinCycles < drift /\ drift <= MaxOver

\* nmi_os reads the status in the very slice in which the NMI was raised, so
\* each interrupt reaches the vector of its own cause: a slice later the
\* status says STATUS_HBLANK for both.
NmiReachesItsVector ==
  pc \in {"back_porch", "frame_start"} /\ cause # "none" /\ ~closed =>
    vector = cause

\* With interrupts enabled the vertical blank handler runs again and again,
\* whatever the program does with WSYNC.
FramesAreCounted ==
  <>[]ints => []<>(vector = "vblank") \/ <>closed
=============================================================================
