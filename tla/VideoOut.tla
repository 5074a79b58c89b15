------------------------------ MODULE VideoOut ------------------------------
(***************************************************************************)
(* What the frontend promises of the picture: the main thread draws the    *)
(* frames the emulator hands over whole, each once and in order, or drops  *)
(* one that SDL refuses to draw; the emulator is at most two frames ahead. *)
(***************************************************************************)
EXTENDS Naturals

CONSTANT MaxFrame  (* bound of the frames that are emulated *)

VARIABLES
  handed,  (* the last frame the emulator handed over       *)
  taken,   (* the last frame that was drawn, or was dropped *)
  shown    (* the last frame that was drawn                 *)

vars == <<handed, taken, shown>>

Init == handed = 0 /\ taken = 0 /\ shown = 0

HandOver ==
  /\ handed < MaxFrame /\ handed < taken + 2
  /\ handed' = handed + 1
  /\ UNCHANGED <<taken, shown>>

Draw ==
  /\ taken < handed
  /\ taken' = taken + 1
  /\ shown' = taken + 1
  /\ UNCHANGED handed

Drop ==
  /\ taken < handed
  /\ taken' = taken + 1
  /\ UNCHANGED <<handed, shown>>

Spec == Init /\ [][HandOver \/ Draw \/ Drop]_vars
=============================================================================
