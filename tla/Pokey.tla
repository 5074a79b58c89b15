-------------------------------- MODULE Pokey -------------------------------
(***************************************************************************)
(* The two POKEY chips of sound/pokey/pokey.c and their mix in sound.c.    *)
(* pokey_process does not count clocks: it jumps from event to event, a    *)
(* channel that reloads or a sample that is due, and leaves the polynomial *)
(* counters behind until a channel needs them.  Beside each chip runs a    *)
(* plain one, which goes ahead clock by clock to the next event and works  *)
(* out all its channels after every write.                                 *)
(***************************************************************************)
EXTENDS Integers, Sequences

CONSTANTS
  SampNMax,   (* Samp_n_max, the clocks of a sample in 24.8 fixed point   *)
  Samples,    (* the samples of a call, POKEY_BUFFER_SIZE / 2             *)
  Noise(_),   (* bit17, filled with random bits                           *)
  Songs,      (* what a program starts with: AUDCTL of the chips, and     *)
              (* other writes <<chip, register, value>>                   *)
  Pokes,      (* writes it does later                                     *)
  MaxPokes, MaxCalls

Chips    == {0, 1}
Channels == 1..4
Forever  == 2147483647
Gain     == 64
Byte     == 0..255

ASSUME PokeyAssumption ==
  /\ SampNMax \in Nat /\ Samples \in Nat \ {0} /\ MaxPokes \in Nat /\ MaxCalls \in Nat
  /\ Pokes \subseteq Chips \X (0..15) \X Byte
  /\ \A song \in Songs : /\ song.AUDCTL \in [Chips -> Byte]
                         /\ song.writes \in Seq(Chips \X (0..15) \X Byte)

VARIABLES
  registers,    (* of each chip                                               *)
  chips,        (* the counters and outputs                                   *)
  Samp_n_cnt,   (* the clocks to the next sample, shared by the chips         *)
  stage, chip, samples_left,
                (* sound_process is not called, pokey_process plays a chip, or *)
                (* both are mixed                                             *)
  cur_val,      (* the output of the two sides                                *)
  pokey_buffer, sound_buffer,
  clocks,       (* history: the clocks a chip has played                      *)
  began,        (* history: these, and Samp_n_cnt, when a chip began its call *)
  by_clock,     (* the plain chips, with t, the clocks they have counted      *)
  heard,        (* what they play                                             *)
  expected,     (* and the mix of it                                          *)
  overslept,    (* history: a channel that does not count came near its end   *)
  tune, pokes, calls

processVars == <<stage, chip, samples_left, cur_val, pokey_buffer, sound_buffer>>
plainVars   == <<by_clock, heard, expected>>
pokeyVars   == <<registers, chips, Samp_n_cnt, processVars, clocks, began, plainVars, overslept,
                 tune, pokes, calls>>

On(v, bit) == (v \div bit) % 2 = 1
NOTPOLY5(r, k) == On(r.AUDC[k], 128)
POLY4(r, k)    == On(r.AUDC[k], 64)
PURE(r, k)     == On(r.AUDC[k], 32)
VOL_ONLY(r, k) == On(r.AUDC[k], 16)
POLY9(r)       == On(r.AUDCTL, 128)
CLOCK_15(r)    == On(r.AUDCTL, 1)
\* Channels 1 and 3 at 1.79 MHz, and each clocking the next channel.
Fast(r, k) == On(r.AUDCTL, IF k <= 2 THEN 64 ELSE 32)
Tied(r, k) == On(r.AUDCTL, IF k <= 2 THEN 16 ELSE 8)

bit4 == <<1, 1, 0, 1, 1, 1, 0, 0, 0, 0, 1, 0, 1, 0, 0>>
bit5 == <<0, 0, 1, 1, 0, 0, 0, 1, 1, 1, 1, 0, 0, 1, 0, 1, 0, 1, 1, 0, 1, 1, 1, 0, 1, 0, 0, 0,
          0, 0, 1>>
POLY4_SIZE  == 15
POLY5_SIZE  == 31
POLY9_SIZE  == 511
POLY17_SIZE == 131071
-----------------------------------------------------------------------------
(* pokey_update_sound *)

Stored(r, reg, val) ==
  LET k == reg \div 2 + 1
  IN  CASE reg \in {0, 2, 4, 6} -> [r EXCEPT !.AUDF[k] = val]
        [] reg \in {1, 3, 5, 7} ->
             [r EXCEPT !.AUDC[k] = val, !.AUDV[k] = ((val % 16) * Gain) \div 16]
        [] reg = 8              -> [r EXCEPT !.AUDCTL = val]
        [] reg = 12             -> [r EXCEPT !.AUDPAN = val]
        [] OTHER                -> r

chan_mask_Untied(r, reg) ==
  LET k == reg \div 2 + 1
  IN  CASE reg \in 0..7 -> {{k}}
        [] reg = 8      -> {Channels}
        [] reg = 12     -> SUBSET Channels
        [] OTHER        -> {{}}

\* The values chan_mask can have.  A write to AUDPAN leaves it uninitialized.
chan_mask(r, reg) ==
  LET k == reg \div 2 + 1
  IN  CASE reg \in {0, 4} -> {IF Tied(r, k) THEN {k, k + 1} ELSE {k}}
        [] reg \in {1, 2, 3, 5, 6, 7} -> {{k}}
        [] reg = 8        -> {Channels}
        [] reg = 12       -> SUBSET Channels
        [] OTHER          -> {{}}

new_val(r, k) ==
  LET n    == r.AUDF[k]
      word == 256 * r.AUDF[k] + r.AUDF[k - 1]
      mult == IF CLOCK_15(r) THEN 114 ELSE 28
  IN  IF k \in {1, 3} THEN IF Fast(r, k) THEN n + 4 ELSE (n + 1) * mult
      ELSE IF ~Tied(r, k) THEN (n + 1) * mult
      ELSE IF Fast(r, k) THEN word + 7 ELSE (word + 1) * mult

\* Channels that only have a volume, or none, or are faster than the samples.
Off(r, k) == VOL_ONLY(r, k) \/ r.AUDC[k] % 16 = 0 \/ new_val(r, k) < SampNMax \div 256

\* The counters of the channels in mask, and which of them do not count.
Updated(c, r, mask) ==
  LET new(k) == new_val(r, k)
      cut(k) == new(k) # c.max[k] /\ c.cnt[k] > new(k)
  IN  [c EXCEPT
         !.max = [k \in Channels |-> IF k \notin mask THEN @[k]
                                     ELSE IF Off(r, k) THEN Forever ELSE new(k)],
         !.cnt = [k \in Channels |-> IF k \notin mask THEN @[k]
                                     ELSE IF Off(r, k) THEN Forever
                                     ELSE IF cut(k) THEN new(k) ELSE @[k]],
         !.out = [k \in Channels |-> IF k \in mask /\ Off(r, k) THEN 1 ELSE @[k]]]

pokey_update_sound(i, reg, val) ==
  LET r == Stored(registers[i], reg, val)
  IN  /\ registers' = [registers EXCEPT ![i] = r]
      /\ \E mask \in chan_mask(r, reg) : chips' = [chips EXCEPT ![i] = Updated(@, r, mask)]
      /\ by_clock' = [by_clock EXCEPT ![i] = Updated(@, r, Channels)]
-----------------------------------------------------------------------------
(* pokey_process *)

\* Whether the output of channel k, which is out, changes when it reloads.
Toggles(r, k, out, p4, p5, p9, p17) ==
  /\ NOTPOLY5(r, k) \/ bit5[p5 + 1] = 1
  /\ \/ PURE(r, k)
     \/ ~PURE(r, k) /\ POLY4(r, k) /\ bit4[p4 + 1] = 1 - out
     \/ ~PURE(r, k) /\ ~POLY4(r, k) /\ Noise(IF POLY9(r) THEN p9 ELSE p17) = 1 - out

\* Channel k has the bits 2 * (k - 1) and 2 * (k - 1) + 1 of AUDPAN.
PAN_MASK == <<1, 4, 16, 64>>
Volume(r, k, side) == IF On(r.AUDPAN, PAN_MASK[k] * (side + 1)) THEN r.AUDV[k] ELSE 0
Swing(r, out, k, side) == out[k] * Volume(r, k, side) - Volume(r, k, side) \div 2
Output(r, out) ==
  [side \in 0..1 |-> 128 + Swing(r, out, 1, side) + Swing(r, out, 2, side)
                         + Swing(r, out, 3, side) + Swing(r, out, 4, side)]
Clip(v) == IF v > 255 THEN 255 ELSE IF v < 0 THEN 0 ELSE v

Lesser(a, b) == IF b <= a THEN b ELSE a
event_min ==
  LET cnt == chips[chip].cnt
  IN  Lesser(Lesser(Lesser(Lesser(Samp_n_cnt \div 256, cnt[1]), cnt[2]), cnt[3]), cnt[4])

\* How far the plain chip is ahead: it goes to the next event first.
ahead == by_clock[chip].t - clocks[chip]

Counts(c, k) == c.max[k] # Forever

\* Longer than any period of a channel.
Longest == 65536 * 114

Elapsed_KeepsAdjust(c, d) == [c EXCEPT !.cnt = [k \in Channels |-> @[k] - d]]

\* d clocks later; a channel that does not count should not come to its end.
Elapsed(c, d) ==
  [c EXCEPT !.cnt = [k \in Channels |-> @[k] - d], !.Poly_adjust = @ + d]
Passed(d) ==
  /\ clocks' = [clocks EXCEPT ![chip] = @ + d]
  /\ overslept' = (overslept
       \/ \E k \in Channels : ~Counts(chips[chip], k) /\ chips[chip].cnt[k] - d <= Longest)

\* Channel k reloads.
channel_event(c, r, k) ==
  LET p4  == (c.p4 + c.Poly_adjust) % POLY4_SIZE
      p5  == (c.p5 + c.Poly_adjust) % POLY5_SIZE
      p9  == (c.p9 + c.Poly_adjust) % POLY9_SIZE
      p17 == (c.p17 + c.Poly_adjust) % POLY17_SIZE
      out == IF Toggles(r, k, c.out[k], p4, p5, p9, p17) THEN 1 - c.out[k] ELSE c.out[k]
  IN  [out |-> [c.out EXCEPT ![k] = out], cnt |-> [c.cnt EXCEPT ![k] = @ + c.max[k]], max |-> c.max,
       p4 |-> p4, p5 |-> p5, p9 |-> p9, p17 |-> p17, Poly_adjust |-> 0]

\* The loop takes the last of the channels that are due, before a sample; the
\* output follows the channel.
Event ==
  /\ stage = "play" /\ ahead = event_min
  /\ \E k \in Channels :
       LET r     == registers[chip]
           c     == channel_event(Elapsed(chips[chip], ahead), r, k)
           moved == c.out[k] # chips[chip].out[k]
       IN  /\ chips[chip].cnt[k] = ahead
           /\ \A j \in Channels : j > k => chips[chip].cnt[j] # ahead
           /\ chips' = [chips EXCEPT ![chip] = c]
           /\ cur_val' = [side \in 0..1 |->
                IF ~moved THEN cur_val[side]
                ELSE IF c.out[k] = 1 THEN cur_val[side] + Volume(r, k, side)
                ELSE cur_val[side] - Volume(r, k, side)]
  /\ Samp_n_cnt' = Samp_n_cnt - 256 * ahead
  /\ Passed(ahead)
  /\ UNCHANGED <<registers, stage, chip, samples_left, pokey_buffer, sound_buffer, began,
                 plainVars, tune, pokes, calls>>

\* The second chip begins with the counter the first has left.
Begins(i, cs, cnt) ==
  /\ chip' = i /\ samples_left' = Samples
  /\ cur_val' = Output(registers[i], cs[i].out)
  /\ began' = [began EXCEPT ![i] = [clocks |-> clocks[i], cnt |-> cnt]]

Sample ==
  /\ stage = "play" /\ ahead = event_min
  /\ \A k \in Channels : chips[chip].cnt[k] # ahead
  /\ chips' = [chips EXCEPT ![chip] = Elapsed(@, ahead)]
  /\ Samp_n_cnt' = Samp_n_cnt - 256 * ahead + SampNMax
  /\ Passed(ahead)
  /\ pokey_buffer' = [pokey_buffer EXCEPT ![chip] =
                        Append(@, [side \in 0..1 |-> Clip(cur_val[side])])]
  /\ heard' = [heard EXCEPT ![chip] = Append(@, Output(registers[chip], by_clock[chip].out))]
  /\ IF samples_left > 1
     THEN /\ samples_left' = samples_left - 1
          /\ UNCHANGED <<stage, chip, cur_val, began>>
     ELSE IF chip = 0 THEN Begins(1, chips', Samp_n_cnt') /\ UNCHANGED stage
     ELSE stage' = "mix" /\ UNCHANGED <<chip, samples_left, cur_val, began>>
  /\ UNCHANGED <<registers, sound_buffer, by_clock, expected, tune, pokes, calls>>
-----------------------------------------------------------------------------
(* The plain chip. *)

\* One clock later.
Ticked(r, c) ==
  LET t == c.t + 1
      reloads(k) == Counts(c, k) /\ c.cnt[k] = 1
  IN  [c EXCEPT
         !.t = t,
         !.cnt = [k \in Channels |-> IF reloads(k) THEN c.max[k]
                                     ELSE IF Counts(c, k) THEN c.cnt[k] - 1 ELSE c.cnt[k]],
         !.out = [k \in Channels |->
           IF reloads(k) /\ Toggles(r, k, c.out[k], t % POLY4_SIZE, t % POLY5_SIZE, t % POLY9_SIZE, t % POLY17_SIZE)
           THEN 1 - c.out[k] ELSE c.out[k]]]

Clock ==
  /\ stage = "play" /\ ahead < event_min
  /\ by_clock' = [by_clock EXCEPT ![chip] = Ticked(registers[chip], @)]
  /\ UNCHANGED <<registers, chips, Samp_n_cnt, processVars, clocks, began, heard, expected,
                 overslept, tune, pokes, calls>>
-----------------------------------------------------------------------------
(* sound.c *)

sound_register_write ==
  /\ stage = "rest"
  /\ \/ /\ tune # <<>> /\ tune' = Tail(tune) /\ pokes' = pokes
        /\ pokey_update_sound(Head(tune)[1], Head(tune)[2], Head(tune)[3])
     \/ /\ tune = <<>> /\ pokes < MaxPokes /\ pokes' = pokes + 1 /\ tune' = tune
        /\ \E w \in Pokes : pokey_update_sound(w[1], w[2], w[3])
  /\ UNCHANGED <<Samp_n_cnt, processVars, clocks, began, heard, expected, overslept, calls>>

sound_process ==
  /\ stage = "rest" /\ tune = <<>> /\ calls < MaxCalls
  /\ stage' = "play" /\ calls' = calls + 1
  /\ Begins(0, chips, Samp_n_cnt)
  /\ pokey_buffer' = [i \in Chips |-> <<>>] /\ heard' = [i \in Chips |-> <<>>]
  /\ UNCHANGED <<registers, chips, Samp_n_cnt, sound_buffer, clocks, by_clock, expected,
                 overslept, tune, pokes>>

Int16(v) == ((v + 32768) % 65536) - 32768

Mix ==
  /\ stage = "mix" /\ stage' = "rest"
  /\ sound_buffer' = [i \in 1..Len(pokey_buffer[0]) |-> [side \in 0..1 |->
       Int16(256 * (pokey_buffer[0][i][side] - 128) + 256 * (pokey_buffer[1][i][side] - 128))]]
  /\ expected' = [i \in 1..Len(heard[0]) |-> [side \in 0..1 |->
       heard[0][i][side] + heard[1][i][side] - 256]]
  /\ UNCHANGED <<registers, chips, Samp_n_cnt, chip, samples_left, cur_val, pokey_buffer, clocks,
                 began, by_clock, heard, overslept, tune, pokes, calls>>
-----------------------------------------------------------------------------
pokey_sound_init ==
  [AUDF |-> [k \in Channels |-> 0], AUDC |-> [k \in Channels |-> 0],
   AUDV |-> [k \in Channels |-> 0], AUDCTL |-> 0, AUDPAN |-> 255]
counters_init ==
  [out |-> [k \in Channels |-> 0], cnt |-> [k \in Channels |-> 0],
   max |-> [k \in Channels |-> Forever], p4 |-> 0, p5 |-> 0, p9 |-> 0, p17 |-> 0, Poly_adjust |-> 0]
plain_init ==
  [t |-> 0, out |-> [k \in Channels |-> 0], cnt |-> [k \in Channels |-> 0],
   max |-> [k \in Channels |-> Forever]]

\* The first write is one to AUDCTL.
PokeyInit ==
  /\ \E song \in Songs :
       /\ registers = [i \in Chips |-> Stored(pokey_sound_init, 8, song.AUDCTL[i])]
       /\ tune = song.writes
  /\ chips = [i \in Chips |-> Updated(counters_init, registers[i], Channels)]
  /\ by_clock = [i \in Chips |-> Updated(plain_init, registers[i], Channels)]
  /\ Samp_n_cnt = 0
  /\ stage = "rest" /\ chip = 0 /\ samples_left = 0
  /\ cur_val = [side \in 0..1 |-> 128]
  /\ pokey_buffer = [i \in Chips |-> <<>>] /\ heard = [i \in Chips |-> <<>>]
  /\ sound_buffer = <<>> /\ expected = <<>>
  /\ clocks = [i \in Chips |-> 0] /\ began = [i \in Chips |-> [clocks |-> 0, cnt |-> 0]]
  /\ overslept = FALSE /\ pokes = 0 /\ calls = 0

PokeyNext == sound_register_write \/ sound_process \/ Clock \/ Event \/ Sample \/ Mix
-----------------------------------------------------------------------------
(* Properties *)

SameState(c, p) ==
  \A k \in Channels :
    /\ c.max[k] = p.max[k] /\ c.out[k] = p.out[k]
    /\ Counts(c, k) => c.cnt[k] = p.cnt[k]

\* Jumping from event to event plays what the plain chips play, and the mix
\* is their sum, cut to the sixteen bits of a sample; whatever is written in
\* between, and whatever bits the uninitialized mask of a write to AUDPAN has:
\* unless a channel that does not count was left alone for twenty minutes.
PlaysEveryClock ==
  ~overslept =>
    /\ stage = "rest" => \A i \in Chips : SameState(chips[i], by_clock[i])
    /\ pokey_buffer = heard
    /\ sound_buffer = [i \in DOMAIN expected |-> [side \in 0..1 |-> Int16(256 * expected[i][side])]]

\* The chips take the clocks to the next sample from each other.  A call plays
\* as many clocks of one as of the other, up to one; in the first, the second
\* plays a sample more.
Played(i) == clocks[i] - began[i].clocks
ChipsKeepPace ==
  stage = "mix" =>
    Played(1) - Played(0) \in IF calls = 1 THEN SampNMax \div 256 .. SampNMax \div 256 + 2 ELSE -1 .. 1

SoundsAsClocked == PlaysEveryClock /\ ChipsKeepPace
=============================================================================
