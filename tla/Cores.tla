-------------------------------- MODULE Cores -------------------------------
(***************************************************************************)
(* The cores the emulator takes from other emulators, each at work by      *)
(* itself: the Z80 (Z80Run), the AY-3-8910 (Ay8910) and the 6502,          *)
(* with the monitor that watches it (Monitor).                             *)
(***************************************************************************)
EXTENDS Z80Run

CONSTANTS
  STEP, UpdateStep, PsgSongs, PsgWrites, PortReads, Lengths, MaxPsgOps,
  MAX_BREAKPOINTS, MonitorStarts, MonitorPrograms, Typed

VARIABLES
  core,
  psg, psg_buffer, by_tick, every_tick, latch, psg_ops,
  script, processor, at, lines, cpu_pc, prompt, running, stop, breakpoints, reg,
  monitor_edits, monitor_events, watched, frames, asked

Psg == INSTANCE Ay8910
Mon == INSTANCE Monitor WITH s <- processor

ASSUME CoresAssumption == Psg!PsgConstants /\ Mon!MonitorConstants

psgVars == <<psg, psg_buffer, by_tick, every_tick, latch, psg_ops>>
monVars == <<script, processor, at, lines, cpu_pc, prompt, running, stop, breakpoints, reg,
             monitor_edits, monitor_events, watched, frames, asked>>
coresVars == <<core, vars, psgVars, monVars>>

\* The cores that are not at work.
NoZ80 == /\ job = [kind |-> "off"] /\ fast = "off" /\ plain = "off"
         /\ slices = "off" /\ events = "off"
NoPsg == /\ psg = "off" /\ psg_buffer = "off" /\ by_tick = "off" /\ every_tick = "off"
         /\ latch = "off" /\ psg_ops = "off"
NoMon == /\ script = "off" /\ processor = "off" /\ at = "off" /\ lines = "off"
         /\ cpu_pc = "off" /\ prompt = "off" /\ running = "off" /\ stop = "off"
         /\ breakpoints = "off" /\ reg = "off" /\ monitor_edits = "off"
         /\ monitor_events = "off" /\ watched = "off" /\ frames = "off" /\ asked = "off"

CoresInit ==
  \/ core = "z80"     /\ Init /\ NoPsg /\ NoMon
  \/ core = "psg"     /\ NoZ80 /\ Psg!Init /\ NoMon
  \/ core = "monitor" /\ NoZ80 /\ NoPsg /\ Mon!Init

StepZ80 == core = "z80" /\ Next /\ UNCHANGED <<core, psgVars, monVars>>
StepPsg == core = "psg" /\ Psg!Next /\ UNCHANGED <<core, vars, monVars>>
StepMon == core = "monitor" /\ Mon!Next /\ UNCHANGED <<core, vars, psgVars>>

CoresNext == StepZ80 \/ StepPsg \/ StepMon
CoresSpec == CoresInit /\ [][CoresNext]_coresVars
-----------------------------------------------------------------------------
(* Properties, beside those of the Z80 *)

\* The AY-3-8910 plays what a chip plays that counts every tick, though it
\* works in stretches: however long the updates are and whatever is written
\* between them.  Its ports put on their pins what the program wrote.
PsgSoundsAsTicked ==
  core = "psg" => Psg!PlaysEveryTick /\ Psg!PortsHoldTheirByte

\* The prompt of the monitor opens where the user asked and nowhere else: no
\* instruction at a breakpoint or an address asked for is run past, a step is
\* one instruction or the entry of a handler, and the end of a subroutine is
\* the end of that one.
StopsWhereAsked == [][core = "monitor" => Mon!StopsAsAsked]_coresVars

\* The listings of both processors tell the instructions that run: how long
\* they are and where they may go; and of the 6502, what they touch there.
ListsWhatRuns ==
  [][/\ core = "z80" => RunsAsListed
     /\ core = "monitor" => Mon!RunsAsListed]_coresVars
=============================================================================
