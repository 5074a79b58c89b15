------------------------------ MODULE MameTimer -----------------------------
(***************************************************************************)
(* The timers of mame_timer.c: a list sorted by when they expire, counted  *)
(* from the start of the slice a CPU is running, and the free ones.  A     *)
(* slice ends when the first of the list expires, or earlier when one is   *)
(* put before it; then timer_adjust_global_time calls back those that are  *)
(* due.  The program and the callbacks make, change and remove timers.     *)
(* One timer, Refresh, pulses for ever: without one that is still to come  *)
(* the loop of timer_adjust_global_time would not end.                     *)
(***************************************************************************)
EXTENDS Integers, Sequences, FiniteSetsExt, SequencesExt

CONSTANTS
  MAX_TIMERS,
  NSec,       (* TIME_IN_NSEC(1), the slop of comparisons *)
  TIME_NEVER,
  Durations, Periods, RefreshPeriod,
  Tags,       (* resource tags                            *)
  MaxTime,    (* bound of the time                        *)
  MaxTimerOps (* bound of what programs do                *)

Timers     == 1..MAX_TIMERS
Refresh    == 1
RefreshTag == 0
NoTag      == -1

\* No time that is asked for comes near TIME_NEVER, and no program frees the
\* timers of Refresh.
ASSUME TimerAssumption ==
  /\ MAX_TIMERS \in Nat \ {0} /\ NSec \in Nat \ {0} /\ TIME_NEVER \in Nat
  /\ Durations \subseteq Nat /\ Periods \subseteq Nat /\ RefreshPeriod \in Nat \ {0}
  /\ Tags \subseteq Nat \ {RefreshTag}
  /\ MaxTime \in Nat /\ MaxTimerOps \in Nat
  /\ \A d \in Durations \cup Periods \cup {RefreshPeriod} :
       MaxTime + d + 2 * NSec < TIME_NEVER

VARIABLES
  timers,     (* the records                                                *)
  order,      (* the list from timer_head on                                *)
  free,       (* the list from timer_free_head on                           *)
  pc,         (* a CPU runs a slice, or timer_adjust_global_time is in its  *)
              (* loop or in a callback                                      *)
  local,      (* the time of the CPU in its slice                           *)
  slice,      (* the end of the slice                                       *)
  callback_timer, callback_timer_modified, callback_timer_expire_time,
  offset,     (* global_offset                                              *)
  due,        (* the time of the world a timer should be called at          *)
  called,     (* the time the callback was asked to be called at            *)
  disturbed,  (* history: since the slice began, a timer was enabled without *)
              (* a new time or the first was taken away                     *)
  timer_ops

list == <<order, free>>
callback == <<callback_timer, callback_timer_modified, callback_timer_expire_time>>
clock == <<local, slice, offset>>
vars == <<timers, list, pc, callback, clock, due, called, disturbed, timer_ops>>

FreeTimer ==
  [enabled |-> FALSE, temporary |-> FALSE, tag |-> NoTag, period |-> 0, expire |-> TIME_NEVER,
   handle |-> FALSE] \* whether the program knows it
-----------------------------------------------------------------------------
\* In the slice a CPU is active, in a callback none: that is what mame_timer.c
\* asks of cpu_getactivecpu.  The stub of cpu.c always names a CPU, whose time is
\* 0, for want of anything that calls a timer.
get_relative_time_OfSlice == IF pc = "callback" THEN 0 ELSE local
get_relative_time == IF pc = "callback" THEN callback_timer_expire_time ELSE local

\* A disabled timer goes where one that never expires goes.
Place_Raw(timer) == timer.expire
Place(timer) == IF timer.enabled THEN timer.expire ELSE TIME_NEVER
Inserted(l, ts, t) ==
  LET later == {i \in DOMAIN l : ts[l[i]].expire - Place(ts[t]) > NSec}
  IN  IF later = {} THEN Append(l, t) ELSE InsertAt(l, Min(later), t)

\* What a list has left without some timers.
Without(l, gone) ==
  LET upTo[n \in 0..Len(l)] ==
        IF n = 0 THEN <<>>
        ELSE IF l[n] \notin gone THEN Append(upTo[n - 1], l[n])
        ELSE upTo[n - 1]
  IN  upTo[Len(l)]

Moved(l, ts, t) == Inserted(Without(l, {t}), ts, t)

Later(timer, d) == [timer EXCEPT !.expire = IF @ = TIME_NEVER THEN @ ELSE @ + d]

Freed(timer) == [timer EXCEPT !.tag = NoTag, !.handle = FALSE]
\* timer_remove; a timer is removed but once.
Removed(t) ==
  IF timers[t].tag = NoTag THEN UNCHANGED <<timers, list>>
  ELSE /\ timers' = [timers EXCEPT ![t] = Freed(@)]
       /\ order' = Without(order, {t})
       /\ free' = Append(free, t)
-----------------------------------------------------------------------------
(* What programs and callbacks do. *)

Calls == pc \in {"slice", "callback"} /\ timer_ops < MaxTimerOps /\ timer_ops' = timer_ops + 1

\* The time of the world a program thinks it is.
Time == IF pc = "callback" THEN called ELSE offset + local

\* The slice was to end when the first timer expires.
FirstTakenAway == pc = "slice" /\ Head(order') # Head(order)

\* timer_adjust: ts are the records before.  A timer at the head ends the slice.
Adjusted(ts, l, t, duration, period) ==
  LET timer == [ts[t] EXCEPT !.enabled = TRUE, !.expire = get_relative_time + duration,
                             !.period = period]
  IN  /\ timers' = [ts EXCEPT ![t] = timer]
      /\ order' = Moved(l, timers', t)
      /\ callback_timer_modified' = (callback_timer_modified \/ t = callback_timer)
      /\ slice' = IF pc = "slice" /\ Head(order') = t THEN local ELSE slice
      /\ due' = [due EXCEPT ![t] = Time + duration]
      /\ disturbed' = (disturbed \/ (FirstTakenAway /\ Head(order') # t))
      /\ UNCHANGED <<pc, callback_timer, callback_timer_expire_time, local, offset, called>>

NewTimer(tag) == [FreeTimer EXCEPT !.tag = tag]

\* It fails when no timer is free.
timer_alloc ==
  /\ Calls /\ free # <<>>
  /\ \E tag \in Tags :
       timers' = [timers EXCEPT ![Head(free)] = [NewTimer(tag) EXCEPT !.handle = TRUE]]
  /\ order' = Inserted(order, timers', Head(free))
  /\ free' = Tail(free)
  /\ UNCHANGED <<pc, callback, clock, due, called, disturbed>>

\* timer_set and timer_pulse: nobody gets to know the timer.
Started(temporary, duration, period) ==
  LET t == Head(free)
  IN  /\ free # <<>>
      /\ \E tag \in Tags :
           LET ts == [timers EXCEPT ![t] = [NewTimer(tag) EXCEPT !.temporary = temporary]]
           IN  Adjusted(ts, Inserted(order, ts, t), t, duration, period)
      /\ free' = Tail(free)
timer_set   == Calls /\ \E duration \in Durations : Started(TRUE, duration, 0)
timer_pulse == Calls /\ \E period \in Periods \ {0} : Started(FALSE, period, period)

timer_adjust ==
  /\ Calls
  /\ \E t \in Timers, duration \in Durations, period \in Periods :
       timers[t].handle /\ Adjusted(timers, order, t, duration, period)
  /\ UNCHANGED free

timer_reset ==
  /\ Calls
  /\ \E t \in Timers, duration \in Durations :
       timers[t].handle /\ Adjusted(timers, order, t, duration, timers[t].period)
  /\ UNCHANGED free

\* It does not end the slice.
timer_enable ==
  /\ Calls
  /\ \E t \in Timers, enable \in BOOLEAN :
       /\ timers[t].handle
       /\ timers' = [timers EXCEPT ![t].enabled = enable]
       /\ order' = Moved(order, timers', t)
       /\ disturbed' = (disturbed \/ enable \/ FirstTakenAway)
  /\ UNCHANGED <<free, pc, callback, clock, due, called>>

\* The callback of a timer that is not temporary does not remove it: the loop
\* would put it back into the list.
OwnTimer(t) == pc = "callback" /\ t = callback_timer
timer_remove ==
  /\ Calls
  /\ \E t \in Timers : timers[t].handle /\ ~OwnTimer(t) /\ Removed(t)
  /\ disturbed' = (disturbed \/ FirstTakenAway)
  /\ UNCHANGED <<pc, callback, clock, due, called>>

\* All timers of a tag.
timer_free ==
  /\ Calls
  /\ \E tag \in Tags :
       LET gone == {t \in Timers : timers[t].tag = tag}
       IN  /\ \A t \in gone : OwnTimer(t) => timers[t].temporary
           /\ timers' = [t \in Timers |-> IF t \in gone THEN Freed(timers[t]) ELSE timers[t]]
           /\ order' = Without(order, gone)
           /\ free' = free \o Without(order, Timers \ gone)
  /\ disturbed' = (disturbed \/ FirstTakenAway)
  /\ UNCHANGED <<pc, callback, clock, due, called>>
-----------------------------------------------------------------------------
(* The CPU and timer_adjust_global_time. *)

Run ==
  /\ pc = "slice" /\ local < slice /\ offset + local < MaxTime
  /\ local' = local + 1
  /\ UNCHANGED <<timers, list, pc, callback, slice, offset, due, called, disturbed, timer_ops>>

timer_adjust_global_time ==
  /\ pc = "slice" /\ (local > 0 \/ local = slice)
  /\ offset' = offset + local
  /\ timers' = [t \in Timers |-> IF timers[t].tag = NoTag THEN timers[t]
                                 ELSE Later(timers[t], -local)]
  /\ pc' = "loop" /\ local' = 0
  /\ UNCHANGED <<list, callback, slice, due, called, disturbed, timer_ops>>

Overdue == timers[Head(order)].expire < NSec

\* A timer that was called, or passed over for being disabled, comes again.
Rescheduled(ts, t) ==
  /\ timers' = [ts EXCEPT ![t] = Later(@, @.period)]
  /\ order' = Moved(order, timers', t)
  /\ due' = [due EXCEPT ![t] = @ + ts[t].period]
  /\ UNCHANGED free

Fire ==
  /\ pc = "loop" /\ Overdue
  /\ LET t  == Head(order)
         ts == [timers EXCEPT ![t].enabled = @ /\ timers[t].period # 0]
     IN  IF timers[t].enabled
         THEN /\ timers' = ts
              /\ pc' = "callback"
              /\ callback_timer' = t
              /\ callback_timer_modified' = FALSE
              /\ callback_timer_expire_time' = timers[t].expire
              /\ called' = due[t]
              /\ UNCHANGED <<list, due>>
         ELSE Rescheduled(ts, t) /\ UNCHANGED <<pc, callback, called>>
  /\ UNCHANGED <<clock, disturbed, timer_ops>>

Return ==
  /\ pc = "callback"
  /\ pc' = "loop"
  /\ LET t == callback_timer
     IN  CASE callback_timer_modified -> UNCHANGED <<timers, list, due>>
           [] ~callback_timer_modified /\ timers[t].temporary -> Removed(t) /\ UNCHANGED due
           [] OTHER -> Rescheduled(timers, t)
  /\ callback_timer' = 0
  /\ UNCHANGED <<callback_timer_modified, callback_timer_expire_time, clock, called, disturbed,
                 timer_ops>>

\* The next slice ends at timer_time_until_next_timer.
EndLoop ==
  /\ pc = "loop" /\ ~Overdue
  /\ pc' = "slice"
  /\ slice' = timers[Head(order)].expire /\ disturbed' = FALSE
  /\ UNCHANGED <<timers, list, callback, local, offset, due, called, timer_ops>>

Loop == Fire \/ Return \/ EndLoop

Init ==
  /\ timers = [t \in Timers |->
       IF t = Refresh THEN [FreeTimer EXCEPT !.enabled = TRUE, !.tag = RefreshTag,
                                             !.period = RefreshPeriod, !.expire = RefreshPeriod]
       ELSE FreeTimer]
  /\ order = <<Refresh>>
  /\ free = [i \in 1..MAX_TIMERS - 1 |-> i + 1]
  /\ pc = "slice" /\ local = 0 /\ slice = RefreshPeriod /\ offset = 0
  /\ callback_timer = 0 /\ callback_timer_modified = FALSE /\ callback_timer_expire_time = 0
  /\ due = [t \in Timers |-> IF t = Refresh THEN RefreshPeriod ELSE 0]
  /\ called = 0 /\ disturbed = FALSE
  /\ timer_ops = 0

Next ==
  \/ timer_alloc \/ timer_set \/ timer_pulse \/ timer_adjust \/ timer_reset
  \/ timer_enable \/ timer_remove \/ timer_free
  \/ Run \/ timer_adjust_global_time \/ Loop

Spec == Init /\ [][Next]_vars /\ WF_vars(Loop)
-----------------------------------------------------------------------------
(* Properties *)

\* A timer is in the list once, or free once.
NoneLost ==
  /\ IsInjective(order \o free) /\ Range(order \o free) = Timers
  /\ \A t \in Timers : timers[t].tag = NoTag <=> t \in Range(free)

\* The list is sorted up to the slop, disabled timers being anywhere after
\* those that expire before them.
Sorted ==
  \A i, j \in DOMAIN order :
    i < j /\ timers[order[j]].enabled =>
      timers[order[i]].expire <= timers[order[j]].expire + NSec

\* Whatever is done in slices and callbacks, a timer is called at the time it
\* was asked for, counted from when the program or the callback asked, and a
\* pulse does not drift.  It is not called late either, the slop aside, and no
\* slice begins with one that is overdue: unless in this slice a timer was
\* enabled without a new time, or the first of the list was removed, disabled
\* or put off.  Neither changes the end of the slice, and what is first then
\* keeps the timers that are set behind it from ending the slice.
CalledOnTime ==
  /\ \A t \in Range(order) :
       timers[t].enabled => timers[t].expire \in {due[t] - offset, TIME_NEVER}
  /\ pc = "callback" =>
       /\ offset + callback_timer_expire_time = called
       /\ disturbed \/ callback_timer_expire_time >= -NSec
  /\ pc = "slice" /\ ~disturbed =>
       \A t \in Range(order) : timers[t].enabled => timers[t].expire >= 0

TimersKeepTheirTime == NoneLost /\ Sorted /\ CalledOnTime

\* The loop that calls the timers back ends.
LoopEnds == pc # "slice" ~> pc = "slice"
=============================================================================
