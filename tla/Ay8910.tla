------------------------------- MODULE Ay8910 -------------------------------
(***************************************************************************)
(* The AY-3-8910 of sound/ay8910/ay8910.c.  AY8910Update works out a       *)
(* sample in the stretches between two steps of the noise, and what is in  *)
(* them by arithmetic; a channel that is not heard is left behind.  Beside *)
(* it runs a plain chip that counts every tick of the clock and takes the  *)
(* envelope from the table of its shapes.  A level is an index of          *)
(* VolTable, and a sample of a channel how many ticks it was on, and at    *)
(* which level.                                                            *)
(***************************************************************************)
EXTENDS Integers, Sequences, FiniteSetsExt, SequencesExt, TLC

CONSTANTS
  STEP,       (* ticks of a sample                                     *)
  UpdateStep, (* ticks of a period of one                              *)
  PsgSongs,   (* writes a program starts with: <<register, value>>     *)
  PsgWrites,  (* writes it does later                                  *)
  PortReads,  (* what a device can put on the pins of a port           *)
  Lengths,    (* samples that can be due when the stream is updated    *)
  MaxPsgOps

PsgConstants ==
  /\ STEP \in Nat \ {0} /\ UpdateStep \in Nat
  /\ UpdateStep > 1 \* or the envelope never steps

Channels == {"A", "B", "C"}
Counters == Channels \cup {"N", "E"}
\* Functions of them.
Each(f)  == [A |-> f["A"], B |-> f["B"], C |-> f["C"]]
Every(f) == [A |-> f["A"], B |-> f["B"], C |-> f["C"], N |-> f["N"], E |-> f["E"]]
AY_ENABLE == 7
AY_ESHAPE == 13
AY_VOL   == [A |-> 8, B |-> 9, C |-> 10]
AY_FINE  == [A |-> 0, B |-> 2, C |-> 4, N |-> 6, E |-> 11]
AY_PORT  == [A |-> 14, B |-> 15]
Unknown  == -1

VARIABLES
  psg,        (* the chip                                                    *)
  psg_buffer, (* what it played last                                         *)
  by_tick,    (* the plain chip, its envelope as shape and steps             *)
  every_tick, (* what it played                                              *)
  latch,      (* what the program wrote to a port, if nothing was read since *)
  psg_ops

vars == <<psg, psg_buffer, by_tick, every_tick, latch, psg_ops>>

Bit(v, k) == (v \div 2 ^ k) % 2
Index(c) == CASE c = "A" -> 0 [] c = "B" -> 1 [] c = "C" -> 2
ToneOff(p, c)  == Bit(p.Regs[AY_ENABLE], Index(c)) = 1
NoiseOff(p, c) == Bit(p.Regs[AY_ENABLE], 3 + Index(c)) = 1
Xor(attack, n) == IF attack THEN 31 - n ELSE n
-----------------------------------------------------------------------------
(* _AYWriteReg *)

\* The bits a register has.
Kept(r, v) ==
  CASE r \in {1, 3, 5, 13}  -> v % 16
    [] r \in {6, 8, 9, 10}  -> v % 32
    [] OTHER                -> v

\* A counter counts down to 0, and keeps what it has counted.
Period(p, t) ==
  LET r     == AY_FINE[t]
      ticks == (p.Regs[r] + (IF t = "N" THEN 0 ELSE 256 * p.Regs[r + 1])) * UpdateStep
  IN  IF ticks > 0 THEN ticks ELSE IF t = "E" THEN UpdateStep \div 2 ELSE UpdateStep
Retimed(p, t) ==
  LET count == p.Count[t] + Period(p, t) - p.Period[t]
  IN  [p EXCEPT !.Period[t] = Period(p, t), !.Count[t] = IF count <= 0 THEN 1 ELSE count]

Leveled(p, c) ==
  LET v == p.Regs[AY_VOL[c]]
  IN  [p EXCEPT !.Envelope[c] = v > 15,
                !.Vol[c] = IF v > 15 THEN p.VolE ELSE IF v = 0 THEN 0 ELSE 2 * v + 1]

\* Every channel that follows the envelope.
Reloaded(p, level) ==
  [p EXCEPT !.VolE = level,
            !.Vol = Each([c \in Channels |-> IF p.Envelope[c] THEN level ELSE p.Vol[c]])]

Shaped(p) ==
  LET v      == p.Regs[AY_ESHAPE]
      attack == Bit(v, 2) = 1
  IN  Reloaded([p EXCEPT !.Attack = attack,
                         !.Hold = Bit(v, 3) = 0 \/ Bit(v, 0) = 1,
                         !.Alternate = IF Bit(v, 3) = 0 THEN attack ELSE Bit(v, 1) = 1,
                         !.Count["E"] = p.Period["E"], !.CountEnv = 31, !.Holding = FALSE],
               Xor(attack, 31))

\* The direction of port a, 1 for output, is a bit of the enable register.
Ports == {"A", "B"}
Direction(enable, a) == Bit(enable, IF a = "A" THEN 6 ELSE 7)
Enabled(p, v) ==
  [p EXCEPT !.lastEnable = v,
            !.pins = [a \in Ports |->
               IF p.lastEnable # -1 /\ Direction(p.lastEnable, a) = Direction(v, a) THEN @[a]
               ELSE IF Direction(v, a) = 1 THEN p.Regs[AY_PORT[a]] ELSE 255]]
PortWrite_AnyDirection(p, a, v) == [p EXCEPT !.pins[a] = v]
PortWrite(p, a, v) ==
  IF Direction(p.Regs[AY_ENABLE], a) = 1 THEN [p EXCEPT !.pins[a] = v] ELSE p

WriteReg(p, r, v) ==
  LET q == [p EXCEPT !.Regs[r] = Kept(r, v)]
  IN  CASE r \in 0..1          -> Retimed(q, "A")
        [] r \in 2..3          -> Retimed(q, "B")
        [] r \in 4..5          -> Retimed(q, "C")
        [] r = 6               -> Retimed(q, "N")
        [] r = AY_ENABLE       -> Enabled(q, v)
        [] r \in 8..10         -> Leveled(q, CHOOSE c \in Channels : AY_VOL[c] = r)
        [] r \in 11..12        -> Retimed(q, "E")
        [] r = AY_ESHAPE       -> Shaped(q)
        [] OTHER               -> PortWrite(q, CHOOSE a \in Ports : AY_PORT[a] = r, v)

-----------------------------------------------------------------------------
(* AY8910Update *)

\* The tones and the noise that are not heard do not turn over in an update.
Silent(p, c) == ToneOff(p, c) \/ p.Regs[AY_VOL[c]] = 0
NoNoise(p)   == \A c \in Channels : NoiseOff(p, c)
LeftBehind(p, t) == IF t = "N" THEN NoNoise(p) ELSE t # "E" /\ Silent(p, t)
Prepared(p, length) ==
  [p EXCEPT
     !.Count = Every([t \in Counters |-> IF LeftBehind(p, t) /\ p.Count[t] <= length * STEP
                                THEN p.Count[t] + length * STEP ELSE p.Count[t]]),
     !.Output = Each([c \in Channels |-> IF ToneOff(p, c) THEN 1 ELSE p.Output[c]])]

\* d ticks of the tone of channel c: how often it turns over, and how many of
\* the ticks it is on.
Turns(p, c, d) ==
  IF p.Count[c] > d THEN 0 ELSE 1 + (d - p.Count[c]) \div p.Period[c]
Passed(p, c, d) ==
  LET n == Turns(p, c, d)
  IN  [count |-> p.Count[c] + n * p.Period[c] - d,
       output |-> IF n % 2 = 1 THEN 1 - p.Output[c] ELSE p.Output[c]]
TicksOn(p, c, d) ==
  LET n == Turns(p, c, d)
      e == Passed(p, c, d)
  IN  p.Output[c] * p.Count[c] + (n \div 2 + (n % 2) * e.output) * p.Period[c]
        - e.output * e.count

\* A step of the shift register; 147456 is 0x24000.
NoiseTurns(rng) == (rng + 1) % 4 >= 2
Shifted(rng) ==
  LET flipped == rng + (1 - 2 * Bit(rng, 14)) * 16384 + (1 - 2 * Bit(rng, 17)) * 131072
  IN  (IF rng % 2 = 1 THEN flipped ELSE rng) \div 2
NoiseStep(p) ==
  [p EXCEPT !.OutputN = IF NoiseTurns(p.RNG) THEN 1 - @ ELSE @, !.RNG = Shifted(@),
            !.Count["N"] = @ + p.Period["N"]]

\* The rest of a sample, on being the ticks so far.
RECURSIVE Stretches(_, _, _)
Stretches(p, left, on) ==
  LET d == Min({p.Count["N"], left})
      q == [p EXCEPT !.Count = Every([t \in Counters |->
                                        CASE t \in Channels -> Passed(p, t, d).count
                                          [] t = "N"        -> p.Count[t] - d
                                          [] t = "E"        -> p.Count[t]]),
                     !.Output = Each([c \in Channels |-> Passed(p, c, d).output])]
      heard == Each([c \in Channels |->
                 on[c] + (IF p.OutputN = 1 \/ NoiseOff(p, c) THEN TicksOn(p, c, d) ELSE 0)])
  IN  IF left = 0 THEN [p |-> p, on |-> on]
      ELSE Stretches(IF q.Count["N"] <= 0 THEN NoiseStep(q) ELSE q, left - d, heard)

\* The envelope moves at the end of a sample, and may go through its shape
\* more than once.  An odd number of times has bit 5 set.
OddCycles_Always(env) == TRUE
OddCycles(env) == Bit(env, 5) = 1
Looped(p) ==
  CASE p.CountEnv >= 0 -> p
    [] p.CountEnv < 0 /\ p.Hold ->
         [p EXCEPT !.Attack = @ # p.Alternate, !.Holding = TRUE, !.CountEnv = 0]
    [] p.CountEnv < 0 /\ ~p.Hold ->
         [p EXCEPT !.Attack = @ # (p.Alternate /\ OddCycles(p.CountEnv)), !.CountEnv = @ % 32]
EnvelopeStep(p) ==
  LET count == p.Count["E"] - STEP
      n     == 1 + (-count) \div p.Period["E"]
      q     == Looped([p EXCEPT !.Count["E"] = count + n * p.Period["E"], !.CountEnv = @ - n])
  IN  IF p.Holding THEN p
      ELSE IF count > 0 THEN [p EXCEPT !.Count["E"] = count]
      ELSE Reloaded(q, Xor(q.Attack, q.CountEnv))

Sample(on, p) == Each([c \in Channels |-> <<on[c], p.Vol[c]>>])
Nothing == Each([c \in Channels |-> 0])
RECURSIVE Buffered(_, _)
Buffered(w, length) ==
  LET s == Stretches(w.p, STEP, Nothing)
      p == EnvelopeStep(s.p)
  IN  IF length = 0 THEN w
      ELSE Buffered([p |-> p, out |-> Append(w.out, Sample(s.on, p))], length - 1)
AY8910Update(p, length) == Buffered([p |-> Prepared(p, length), out |-> <<>>], length)
-----------------------------------------------------------------------------
(* The plain chip. *)

\* The level of an envelope of the shape v after n steps.
Level(v, n) ==
  LET up   == Bit(v, 2) = 1
      odd  == (n \div 32) % 2 = 1
      Ramp(rises) == IF rises THEN n % 32 ELSE 31 - (n % 32)
  IN  CASE n < 32                                      -> Ramp(up)
        [] n >= 32 /\ Bit(v, 3) = 0                    -> 0
        [] n >= 32 /\ Bit(v, 3) = 1 /\ Bit(v, 0) = 0   -> Ramp(up # (Bit(v, 1) = 1 /\ odd))
        [] n >= 32 /\ Bit(v, 3) = 1 /\ Bit(v, 0) = 1   -> IF up # (Bit(v, 1) = 1) THEN 31 ELSE 0

\* The bits 0 and 3 of the shift register are fed back to bit 17.
Tick(w) ==
  LET p      == w.p
      Due(t) == p.Count[t] = 1
      steps  == IF Due("E") THEN p.steps + 1 ELSE p.steps
  IN  [p |-> [p EXCEPT
         !.Count  = Every([t \in Counters |-> IF LeftBehind(p, t) THEN p.Count[t]
                                     ELSE IF Due(t) THEN p.Period[t] ELSE p.Count[t] - 1]),
         !.Output = Each([c \in Channels |-> IF ToneOff(p, c) THEN 1
                                    ELSE IF ~Silent(p, c) /\ Due(c) THEN 1 - p.Output[c]
                                    ELSE p.Output[c]]),
         !.OutputN = IF ~NoNoise(p) /\ Due("N") /\ NoiseTurns(p.RNG) THEN 1 - @ ELSE @,
         !.RNG     = IF ~NoNoise(p) /\ Due("N") THEN Shifted(@) ELSE @,
         !.steps   = steps],
       on |-> Each([c \in Channels |->
                w.on[c] + (IF p.OutputN = 1 \/ NoiseOff(p, c)
                           THEN IF ToneOff(p, c) THEN 1 ELSE p.Output[c] ELSE 0)]),
       left |-> w.left - 1]

RECURSIVE Ticked(_)
Ticked(w) == IF w.left = 0 THEN w ELSE Ticked(Tick(w))
OneSample(w) ==
  LET s == Ticked([p |-> w.p, on |-> Nothing, left |-> STEP])
      p == Reloaded(s.p, Level(s.p.Regs[AY_ESHAPE], s.p.steps))
  IN  [p |-> p, out |-> Append(w.out, Sample(s.on, p))]
RECURSIVE Counted(_, _)
Counted(w, length) == IF length = 0 THEN w ELSE Counted(OneSample(w), length - 1)
-----------------------------------------------------------------------------
AY8910_init ==
  [Regs |-> [r \in 0..15 |-> 0], lastEnable |-> -1, register_latch |-> 0,
   Period |-> Every([t \in Counters |-> 0]), Count |-> Every([t \in Counters |-> 0]),
   Output |-> Each([c \in Channels |-> 0]), OutputN |-> 1, RNG |-> 1,
   Envelope |-> Each([c \in Channels |-> FALSE]), Vol |-> Each([c \in Channels |-> 0]), VolE |-> 0,
   Attack |-> FALSE, Alternate |-> FALSE, Hold |-> FALSE, Holding |-> FALSE, CountEnv |-> 0,
   pins |-> [a \in Ports |-> 0]]
RECURSIVE Written(_, _)
Written(p, writes) ==
  IF writes = <<>> THEN p
  ELSE Written(WriteReg(p, Head(writes)[1], Head(writes)[2]), Tail(writes))
AY8910_reset(p) ==
  Written([p EXCEPT !.register_latch = 0, !.RNG = 1, !.Output = Nothing, !.OutputN = 1,
                    !.lastEnable = -1],
          [r \in 1..14 |-> <<r - 1, 0>>])

Init ==
  /\ \E tune \in PsgSongs : psg = Written(AY8910_reset(AY8910_init), tune)
  /\ psg_buffer = <<>> /\ every_tick = <<>>
  /\ by_tick = psg @@ [steps |-> 0]
  /\ latch = [a \in Ports |-> 0]
  /\ psg_ops = 0

\* The stream is updated: length samples are due, or none.
Stream(length) ==
  LET w == IF length = 0 THEN [p |-> psg, out |-> <<>>] ELSE AY8910Update(psg, length)
      i == Counted([p |-> by_tick, out |-> <<>>], length)
  IN  [psg |-> w.p, psg_buffer |-> w.out, every_tick |-> i.out,
       \* what is not heard has its own time
       by_tick |-> [i.p EXCEPT !.Count = Every([t \in Counters |-> IF LeftBehind(psg, t)
                                                        THEN w.p.Count[t] ELSE @[t]])]]
Played(s) == psg_buffer' = s.psg_buffer /\ every_tick' = s.every_tick

Counts == psg_ops < MaxPsgOps /\ psg_ops' = psg_ops + 1

stream_update ==
  /\ Counts
  /\ \E length \in Lengths :
       LET s == Stream(length) IN psg' = s.psg /\ by_tick' = s.by_tick /\ Played(s)
  /\ UNCHANGED latch

\* A program writes the number of the register, then its value.
AY8910Write(r, v) ==
  /\ Counts
  /\ \E length \in IF r < 14 /\ (r = AY_ESHAPE \/ psg.Regs[r] # v) THEN {0} \cup Lengths ELSE {0} :
       LET s == Stream(length)
           Store(p) == [WriteReg(p, r, v) EXCEPT !.register_latch = r]
       IN  /\ psg' = Store(s.psg)
           /\ by_tick' = [Store(s.by_tick) EXCEPT !.steps = IF r = AY_ESHAPE THEN 0 ELSE @]
           /\ Played(s)
  /\ latch' = [a \in Ports |-> IF r = AY_PORT[a] THEN v ELSE latch[a]]

\* A read of a port stores what the device puts there, whatever the direction.
AY8910Read ==
  /\ Counts
  /\ \E a \in Ports, v \in PortReads :
       LET Store(p) == [p EXCEPT !.register_latch = AY_PORT[a], !.Regs[AY_PORT[a]] = v]
       IN  /\ psg' = Store(psg) /\ by_tick' = Store(by_tick)
           /\ latch' = [latch EXCEPT ![a] = IF v = latch[a] THEN v ELSE Unknown]
  /\ UNCHANGED <<psg_buffer, every_tick>>

AY8910_sh_reset ==
  /\ Counts
  /\ psg' = AY8910_reset(psg)
  /\ by_tick' = [AY8910_reset(by_tick) EXCEPT !.steps = 0]
  /\ UNCHANGED <<psg_buffer, every_tick, latch>>

Next ==
  \/ stream_update
  \/ \E w \in PsgWrites : AY8910Write(w[1], w[2])
  \/ AY8910Read
  \/ AY8910_sh_reset
Spec == Init /\ [][Next]_vars
-----------------------------------------------------------------------------
(* Properties *)

\* Working in stretches plays what counting ticks plays, envelope included,
\* however long the updates are and whatever is written between them.
PlaysEveryTick ==
  /\ psg_buffer = every_tick
  /\ psg.Count["N"] = by_tick.Count["N"] /\ psg.RNG = by_tick.RNG
  /\ \A c \in Channels : psg.Count[c] = by_tick.Count[c] /\ psg.Vol[c] = by_tick.Vol[c]

\* A port set to input puts nothing on its pins, and one set to output the
\* last byte the program wrote, if it has not read something else there.
PortsHoldTheirByte ==
  \A a \in Ports :
    IF Direction(psg.Regs[AY_ENABLE], a) = 0 THEN psg.pins[a] = 255
    ELSE latch[a] # Unknown => psg.pins[a] = latch[a]
=============================================================================
