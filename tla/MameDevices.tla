----------------------------- MODULE MameDevices ----------------------------
(***************************************************************************)
(* What the emulator takes from MAME to keep time and to sound: its timers *)
(* (MameTimer) and its POKEY chips (Pokey).  They do not meet, and in a    *)
(* behaviour one of them is at work.                                       *)
(***************************************************************************)
EXTENDS MameTimer, Pokey

VARIABLE work
devicesVars == <<work, vars, pokeyVars>>

\* Pokeys that are not at work have nothing to play.
DevicesInit ==
  /\ work \in {"timers", "pokeys"} /\ Init /\ PokeyInit
  /\ work = "timers" => tune = <<>>

OfTimers   == work = "timers" /\ UNCHANGED <<work, pokeyVars>>
TimersStep == Next /\ OfTimers
TimersLoop == Loop /\ OfTimers
PokeysPlay == work = "pokeys" /\ PokeyNext /\ UNCHANGED <<work, vars>>

DevicesNext == TimersStep \/ PokeysPlay

\* timer_adjust_global_time is a loop.
DevicesSpec == DevicesInit /\ [][DevicesNext]_devicesVars /\ WF_devicesVars(TimersLoop)
=============================================================================
