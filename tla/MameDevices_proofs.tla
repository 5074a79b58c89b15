------------------------- MODULE MameDevices_proofs --------------------------
(***************************************************************************)
(* Whatever programs and callbacks do, no timer of mame_timer.c is lost,   *)
(* the list stays sorted and every timer is called at its time.  Whatever  *)
(* programs write, the POKEY chips of pokey.c, which jump from event to    *)
(* event, play what chips play that count every clock.                     *)
(***************************************************************************)
EXTENDS MameDevices, SequenceTheorems, NaturalsInduction, WellFoundedInduction, TLAPS
-----------------------------------------------------------------------------
(* The timers: the invariant *)
\* A timer as timer_alloc and the calls that change it leave it.
TimerRecord ==
  [enabled : BOOLEAN, temporary : BOOLEAN, tag : Tags \cup {RefreshTag, NoTag},
   period : Periods \cup {0, RefreshPeriod}, expire : Int, handle : BOOLEAN]

\* The types of the other variables.
Types ==
  /\ pc \in {"slice", "loop", "callback"}
  /\ local \in Nat /\ slice \in Int /\ offset \in Nat /\ offset + local <= MaxTime
  /\ callback_timer \in 0 .. MAX_TIMERS /\ callback_timer_modified \in BOOLEAN
  /\ callback_timer_expire_time \in Int
  /\ due \in [Timers -> Int] /\ called \in Int
  /\ disturbed \in BOOLEAN /\ timer_ops \in Nat

\* The list, or the free list, holds a timer; and no timer twice.
In(l, t)    == \E i \in 1 .. Len(l) : l[i] = t
Distinct(l) == \A i, j \in 1 .. Len(l) : l[i] = l[j] => i = j

\* A timer is in the list once, or free once.
Lists(ts, o, f) ==
  /\ Distinct(o) /\ Distinct(f)
  /\ \A t \in Timers : /\ ts[t].tag = NoTag <=> In(f, t)
                       /\ ts[t].tag # NoTag <=> In(o, t)
                       /\ ts[t].handle => ts[t].tag # NoTag

\* Those that are enabled expire in the order of the list, up to the slop.
SortedBy(l, ts) ==
  \A i, j \in 1 .. Len(l) :
    i < j /\ ts[l[j]].enabled => ts[l[i]].expire <= ts[l[j]].expire + NSec

\* A timer of the list expires at its time, short of TIME_NEVER, or never.
OnTime(ts, d, now) ==
  \A t \in Timers : ts[t].tag # NoTag =>
    \/ ts[t].expire = TIME_NEVER
    \/ ts[t].expire = d[t] - now /\ ts[t].expire + NSec < TIME_NEVER

\* The timer that refreshes is never disabled, removed or changed.
RefreshGoesOn(ts) ==
  /\ ts[Refresh].enabled /\ ts[Refresh].tag = RefreshTag
  /\ ~ts[Refresh].temporary /\ ~ts[Refresh].handle /\ ts[Refresh].period = RefreshPeriod

\* What the records ts, the lists o and f and the times d have to do with
\* each other.
Consistent(ts, o, f, d, now) ==
  /\ ts \in [Timers -> TimerRecord] /\ o \in Seq(Timers) /\ f \in Seq(Timers)
  /\ Lists(ts, o, f) /\ SortedBy(o, ts) /\ OnTime(ts, d, now) /\ RefreshGoesOn(ts)

\* The timer that is called back is not removed unless it is temporary, and
\* expires when it did unless it was given a new time.
CallbackTimer(ts) ==
  pc = "callback" =>
    /\ callback_timer \in Timers
    /\ callback_timer_expire_time < NSec
    /\ offset + callback_timer_expire_time = called
    /\ disturbed \/ callback_timer_expire_time >= -NSec
    /\ ts[callback_timer].temporary \/ ts[callback_timer].tag # NoTag
    /\ ~callback_timer_modified /\ ts[callback_timer].tag # NoTag =>
         ts[callback_timer].expire \in {callback_timer_expire_time, TIME_NEVER}

\* A timer that is to come expires at that time or later.
NotBefore(ts, time) ==
  \A t \in Timers : ts[t].tag # NoTag /\ ts[t].enabled => ts[t].expire >= time

\* A slice ends before the first timer expires, and no timer is overdue.
Punctual(ts, o) ==
  /\ pc = "slice" => local <= slice
  /\ pc # "slice" => local = 0
  /\ pc = "slice" /\ ~disturbed => slice <= ts[o[1]].expire /\ NotBefore(ts, 0)
  /\ pc # "slice" /\ ~disturbed => NotBefore(ts, -NSec)

\* The inductive invariant.
IInv ==
  /\ Types /\ Consistent(timers, order, free, due, offset)
  /\ CallbackTimer(timers) /\ Punctual(timers, order)
-----------------------------------------------------------------------------
(* The lists *)

\* A set of natural numbers that is not empty has a least one.
LEMMA LeastOfNats ==
  ASSUME NEW S \in SUBSET Nat, S # {}
  PROVE  \E x \in S : \A y \in S : x <= y
<1>1. PICK x \in S : \A y \in S : ~(<<y, x>> \in OpToRel(<, Nat))
  BY NatLessThanWellFounded, WFMin, Zenon
<1>2. \A y \in S : ~(y < x)
  <2> SUFFICES ASSUME NEW y \in S, y < x PROVE FALSE
    OBVIOUS
  <2>1. <<y, x>> \in OpToRel(<, Nat)
    BY Zenon DEF OpToRel
  <2> QED
    BY <1>1, <2>1, Zenon
<1> QED
  BY <1>2

\* What one more position adds to what is left without some timers.
LeaveNext(l, gone, f, k) ==
  IF k = 0 THEN <<>>
  ELSE IF l[k] \notin gone THEN Append(f[k - 1], l[k])
  ELSE f[k - 1]

\* s has the elements of the list at the gone up to n, in their order.
LeftUpTo(s, l, gone, n) ==
  /\ s \in Seq(Timers)
  /\ \A j \in 1 .. Len(s) : \E i \in 1 .. n : l[i] \notin gone /\ s[j] = l[i]
  /\ \A i \in 1 .. n : l[i] \notin gone => \E j \in 1 .. Len(s) : s[j] = l[i]
  /\ \A j, k \in 1 .. Len(s), a, b \in 1 .. Len(l) :
       j < k /\ s[j] = l[a] /\ s[k] = l[b] => a < b

\* The recursive function of Without exists, up to any position.
LEMMA LeavesExist ==
  ASSUME NEW l, NEW gone, NEW n \in Nat
  PROVE  \E f : f = [k \in 0 .. n |-> LeaveNext(l, gone, f, k)]
<1> DEFINE Leaves(f, m) == f = [k \in 0 .. m |-> LeaveNext(l, gone, f, k)]
           Failing == {m \in Nat : ~ \E f : Leaves(f, m)}
<1>1. ASSUME Failing # {} PROVE FALSE
  <2>1. PICK m \in Failing : \A y \in Failing : m <= y
    <3>1. Failing \in SUBSET Nat
      OBVIOUS
    <3> HIDE DEF Failing
    <3> QED
      BY <1>1, <3>1, LeastOfNats
  <2>2. m # 0
    <3>1. Leaves([k \in 0 .. 0 |-> <<>>], 0)
      BY DEF LeaveNext
    <3> QED
      BY <3>1, <2>1
  <2>3. m \in Nat /\ m - 1 \in Nat
    BY <2>1, <2>2
  <2>4. PICK f : Leaves(f, m - 1)
    <3> HIDE DEF Leaves
    <3>1. m - 1 \notin Failing
      BY <2>3, <2>1
    <3> QED
      BY <2>3, <3>1
  <2> DEFINE g == [k \in 0 .. m |-> IF k = m THEN LeaveNext(l, gone, f, k) ELSE f[k]]
  <2>5. \A k \in 0 .. m : g[k] = LeaveNext(l, gone, g, k)
    <3> SUFFICES ASSUME NEW k \in 0 .. m PROVE g[k] = LeaveNext(l, gone, g, k)
      OBVIOUS
    <3>1. k # 0 => g[k - 1] = f[k - 1]
      <4>1. k # 0 => k - 1 \in 0 .. m /\ k - 1 # m
        BY <2>3
      <4> QED
        BY <4>1
    <3>2. LeaveNext(l, gone, g, k) = LeaveNext(l, gone, f, k)
      <4> HIDE DEF g
      <4> QED
        BY <3>1, Zenon DEF LeaveNext
    <3>3. k # m => f[k] = LeaveNext(l, gone, f, k)
      <4>1. k # m => k \in 0 .. m - 1
        BY <2>3
      <4> QED
        BY <2>4, <4>1
    <3>4. g[k] = IF k = m THEN LeaveNext(l, gone, f, k) ELSE f[k]
      OBVIOUS
    <3> HIDE DEF g
    <3> QED
      BY <3>2, <3>3, <3>4, Zenon
  <2>6. Leaves(g, m)
    BY <2>5
  <2> QED
    BY <2>6, <2>1
<1> QED
  BY <1>1

\* One more position keeps what is left in order.
LEMMA LeaveNextInOrder ==
  ASSUME NEW l \in Seq(Timers), Distinct(l), NEW gone,
         NEW n \in 1 .. Len(l), NEW s, LeftUpTo(s, l, gone, n - 1)
  PROVE  LeftUpTo(IF l[n] \notin gone THEN Append(s, l[n]) ELSE s, l, gone, n)
<1>1. /\ Len(l) \in Nat /\ n \in Nat /\ n >= 1 /\ n <= Len(l) /\ l[n] \in Timers
      /\ s \in Seq(Timers) /\ Len(s) \in Nat
  BY LenProperties, ElementOfSeq DEF LeftUpTo
<1>2. \A i \in 1 .. n : i \in 1 .. n - 1 \/ i = n
  BY <1>1
<1>3. \A i \in 1 .. n - 1 : i \in 1 .. n /\ i \in 1 .. Len(l) /\ i < n
  BY <1>1
<1>4. CASE l[n] \in gone
  BY <1>2, <1>3, <1>4, Zenon DEF LeftUpTo
<1>5. CASE l[n] \notin gone
  <2> DEFINE t == Append(s, l[n])
  <2>1. /\ t \in Seq(Timers) /\ Len(t) = Len(s) + 1 /\ t[Len(s) + 1] = l[n]
        /\ \A j \in 1 .. Len(s) : t[j] = s[j]
    BY <1>1, AppendProperties
  <2> HIDE DEF t
  <2>2. /\ Len(s) + 1 \in 1 .. Len(t)
        /\ \A j \in 1 .. Len(s) : j \in 1 .. Len(t)
        /\ \A j \in 1 .. Len(t) : j \in 1 .. Len(s) \/ j = Len(s) + 1
    BY <1>1, <2>1
  <2>3. ASSUME NEW j \in 1 .. Len(t)
        PROVE  \E i \in 1 .. n : l[i] \notin gone /\ t[j] = l[i]
    <3>1. CASE j \in 1 .. Len(s)
      <4>1. PICK i \in 1 .. n - 1 : l[i] \notin gone /\ s[j] = l[i]
        BY <3>1 DEF LeftUpTo
      <4> QED
        BY <1>3, <2>1, <3>1, <4>1, Zenon
    <3>2. CASE j = Len(s) + 1
      BY <1>1, <1>5, <2>1, <3>2
    <3> QED
      BY <2>2, <3>1, <3>2
  <2>4. ASSUME NEW i \in 1 .. n, l[i] \notin gone
        PROVE  \E j \in 1 .. Len(t) : t[j] = l[i]
    <3>1. CASE i = n
      BY <2>1, <2>2, <3>1, Zenon
    <3>2. CASE i \in 1 .. n - 1
      <4>1. PICK j \in 1 .. Len(s) : s[j] = l[i]
        BY <2>4, <3>2 DEF LeftUpTo
      <4> QED
        BY <2>1, <2>2, <4>1, Zenon
    <3> QED
      BY <1>2, <3>1, <3>2, Zenon
  <2>5. ASSUME NEW j \in 1 .. Len(t), NEW k \in 1 .. Len(t),
               NEW a \in 1 .. Len(l), NEW b \in 1 .. Len(l),
               j < k, t[j] = l[a], t[k] = l[b]
        PROVE  a < b
    <3>1. j \in 1 .. Len(s)
      BY <1>1, <2>1, <2>5
    <3>2. s[j] = l[a]
      BY <2>1, <2>5, <3>1, Zenon
    <3>3. CASE k \in 1 .. Len(s)
      <4>1. s[k] = l[b]
        BY <2>1, <2>5, <3>3, Zenon
      <4> QED
        BY <2>5, <3>1, <3>2, <3>3, <4>1, Zenon DEF LeftUpTo
    <3>4. CASE k = Len(s) + 1
      <4>1. l[b] = l[n]
        BY <2>1, <2>5, <3>4, Zenon
      <4>2. b = n
        BY <4>1, Zenon DEF Distinct
      <4>3. PICK i \in 1 .. n - 1 : s[j] = l[i]
        BY <3>1 DEF LeftUpTo
      <4>4. a = i
        BY <1>3, <3>2, <4>3, Zenon DEF Distinct
      <4> QED
        BY <1>3, <4>2, <4>3, <4>4, Zenon
    <3> QED
      BY <2>2, <3>3, <3>4, Zenon
  <2>6. LeftUpTo(t, l, gone, n)
    BY <2>1, <2>3, <2>4, <2>5, Zenon DEF LeftUpTo
  <2> QED
    BY <1>5, <2>6, Zenon DEF t
<1> QED
  BY <1>4, <1>5

\* Without has the other elements, in their order.
LEMMA WithoutIsInOrder ==
  ASSUME NEW l \in Seq(Timers), Distinct(l), NEW gone
  PROVE  LeftUpTo(Without(l, gone), l, gone, Len(l))
<1>1. PICK n \in Nat : n = Len(l)
  BY LenProperties
<1> DEFINE upTo == CHOOSE f : f = [k \in 0 .. n |-> LeaveNext(l, gone, f, k)]
<1>2. upTo = [k \in 0 .. n |-> LeaveNext(l, gone, upTo, k)]
  BY LeavesExist, Zenon
<1>3. Without(l, gone) = upTo[n]
  BY <1>1, Zenon DEF Without, LeaveNext
<1> HIDE DEF upTo
<1>4. upTo[0] = <<>>
  <2>1. upTo[0] = LeaveNext(l, gone, upTo, 0)
    <3>1. 0 \in 0 .. n
      OBVIOUS
    <3> QED
      BY <1>2, <3>1
  <2> QED
    BY <2>1, Zenon DEF LeaveNext
<1>5. \A k \in 1 .. n :
        upTo[k] = IF l[k] \notin gone THEN Append(upTo[k - 1], l[k]) ELSE upTo[k - 1]
  <2> SUFFICES ASSUME NEW k \in 1 .. n
               PROVE  upTo[k] = IF l[k] \notin gone THEN Append(upTo[k - 1], l[k])
                                ELSE upTo[k - 1]
    OBVIOUS
  <2>1. k \in 0 .. n /\ k # 0
    OBVIOUS
  <2>2. upTo[k] = LeaveNext(l, gone, upTo, k)
    BY <1>2, <2>1
  <2> QED
    BY <2>1, <2>2, Zenon DEF LeaveNext
<1> DEFINE Wrong == {k \in 0 .. n : ~LeftUpTo(upTo[k], l, gone, k)}
<1>6. ASSUME Wrong # {} PROVE FALSE
  <2>1. PICK m \in Wrong : \A y \in Wrong : m <= y
    <3>1. Wrong \in SUBSET Nat
      OBVIOUS
    <3> HIDE DEF Wrong
    <3> QED
      BY <1>6, <3>1, LeastOfNats
  <2>2. m \in 0 .. n /\ ~LeftUpTo(upTo[m], l, gone, m)
    BY <2>1
  <2>3. m # 0
    <3>1. <<>> \in Seq(Timers) /\ Len(<<>>) = 0
      BY EmptySeq
    <3>2. 1 .. 0 = {}
      OBVIOUS
    <3>3. LeftUpTo(<<>>, l, gone, 0)
      BY <3>1, <3>2 DEF LeftUpTo
    <3> QED
      BY <1>4, <2>2, <3>3
  <2>4. m \in 1 .. n /\ m - 1 \in 0 .. n /\ ~(m <= m - 1)
    BY <2>2, <2>3
  <2>5. LeftUpTo(upTo[m - 1], l, gone, m - 1)
    BY <2>1, <2>4
  <2>6. LeftUpTo(IF l[m] \notin gone THEN Append(upTo[m - 1], l[m]) ELSE upTo[m - 1],
                   l, gone, m)
    BY <1>1, <2>4, <2>5, LeaveNextInOrder
  <2> QED
    BY <1>5, <2>2, <2>4, <2>6, Zenon
<1> QED
  BY <1>1, <1>3, <1>6

\* What is left of a list is a list in the same order.
LEMMA WithoutSome ==
  ASSUME NEW l \in Seq(Timers), Distinct(l), NEW gone
  PROVE  LET q == Without(l, gone)
         IN  /\ q \in Seq(Timers) /\ Distinct(q)
             /\ \A t : In(q, t) <=> In(l, t) /\ t \notin gone
             /\ \A ts : SortedBy(l, ts) => SortedBy(q, ts)
             /\ Len(l) > 0 /\ l[1] \notin gone => Len(q) > 0 /\ q[1] = l[1]
<1> DEFINE q == Without(l, gone)
<1>1. LeftUpTo(q, l, gone, Len(l))
  BY WithoutIsInOrder, Zenon
<1> HIDE DEF q
<1>2. /\ q \in Seq(Timers) /\ Len(q) \in Nat /\ Len(l) \in Nat
      /\ \A j \in 1 .. Len(q) : \E i \in 1 .. Len(l) : l[i] \notin gone /\ q[j] = l[i]
      /\ \A i \in 1 .. Len(l) : l[i] \notin gone => \E j \in 1 .. Len(q) : q[j] = l[i]
      /\ \A j, k \in 1 .. Len(q), a, b \in 1 .. Len(l) :
           j < k /\ q[j] = l[a] /\ q[k] = l[b] => a < b
  BY <1>1, LenProperties DEF LeftUpTo
<1>3. Distinct(q)
  <2> SUFFICES ASSUME NEW j \in 1 .. Len(q), NEW k \in 1 .. Len(q), q[j] = q[k], j < k
               PROVE  FALSE
    BY <1>2 DEF Distinct
  <2>1. PICK a \in 1 .. Len(l) : q[j] = l[a]
    BY <1>2
  <2>2. a < a
    BY <1>2, <2>1, Zenon
  <2> QED
    BY <1>2, <2>2
<1>4. \A t : In(q, t) <=> In(l, t) /\ t \notin gone
  BY <1>2, Zenon DEF In
<1>5. ASSUME NEW ts, SortedBy(l, ts) PROVE SortedBy(q, ts)
  <2> SUFFICES ASSUME NEW j \in 1 .. Len(q), NEW k \in 1 .. Len(q), j < k, ts[q[k]].enabled
               PROVE  ts[q[j]].expire <= ts[q[k]].expire + NSec
    BY DEF SortedBy
  <2>1. PICK a \in 1 .. Len(l) : q[j] = l[a]
    BY <1>2
  <2>2. PICK b \in 1 .. Len(l) : q[k] = l[b]
    BY <1>2
  <2>3. a < b
    BY <1>2, <2>1, <2>2, Zenon
  <2> QED
    BY <1>5, <2>1, <2>2, <2>3, Zenon DEF SortedBy
<1>6. ASSUME Len(l) > 0, l[1] \notin gone PROVE Len(q) > 0 /\ q[1] = l[1]
  <2>1. 1 \in 1 .. Len(l)
    BY <1>2, <1>6
  <2>2. PICK j \in 1 .. Len(q) : q[j] = l[1]
    BY <1>2, <1>6, <2>1
  <2>3. 1 \in 1 .. Len(q)
    BY <1>2, <2>2
  <2>4. PICK a \in 1 .. Len(l) : q[1] = l[a]
    BY <1>2, <2>3
  <2>5. j # 1 => a < 1
    <3>1. j # 1 => 1 < j
      OBVIOUS
    <3> QED
      BY <1>2, <2>1, <2>2, <2>3, <2>4, <3>1, Zenon
  <2>6. j = 1
    BY <2>5
  <2> QED
    BY <1>2, <2>2, <2>3, <2>6
<1> QED
  BY <1>2, <1>3, <1>4, <1>5, <1>6 DEF q

\* The lowest of some positions is one of them, and has none below.
LEMMA LowestPosition ==
  ASSUME NEW S \in SUBSET Nat, S # {}
  PROVE  Min(S) \in S /\ \A y \in S : Min(S) <= y
BY LeastOfNats DEF Min

\* The elements of a list with one more.
LEMMA InsertedAt ==
  ASSUME NEW l \in Seq(Timers), NEW n \in 1 .. Len(l) + 1, NEW t \in Timers
  PROVE  LET q == InsertAt(l, n, t)
         IN  /\ q \in Seq(Timers) /\ Len(q) = Len(l) + 1
             /\ \A i \in 1 .. Len(q) :
                  q[i] = IF i < n THEN l[i] ELSE IF i = n THEN t ELSE l[i - 1]
<1> DEFINE before == SubSeq(l, 1, n - 1)
           after  == SubSeq(l, n, Len(l))
<1>1. Len(l) \in Nat /\ \A i \in 1 .. Len(l) : l[i] \in Timers
  BY LenProperties, ElementOfSeq
<1>2. /\ before \in Seq(Timers) /\ Len(before) = n - 1
      /\ \A i \in 1 .. n - 1 : before[i] = l[i]
  <2>1. \A i \in 1 .. n - 1 : l[i] \in Timers
    BY <1>1
  <2>2. /\ before \in Seq(Timers) /\ Len(before) = IF 1 <= n - 1 THEN n - 1 - 1 + 1 ELSE 0
        /\ \A i \in 1 .. n - 1 - 1 + 1 : before[i] = l[1 + i - 1]
    <3>1. 1 \in Int /\ n - 1 \in Int
      BY <1>1
    <3> QED
      BY <2>1, <3>1, SubSeqProperties
  <2> HIDE DEF before
  <2> QED
    BY <1>1, <2>2
<1>3. /\ after \in Seq(Timers) /\ Len(after) = Len(l) - n + 1
      /\ \A i \in 1 .. Len(l) - n + 1 : after[i] = l[n + i - 1]
  <2>1. \A i \in n .. Len(l) : l[i] \in Timers
    BY <1>1
  <2>2. /\ after \in Seq(Timers) /\ Len(after) = IF n <= Len(l) THEN Len(l) - n + 1 ELSE 0
        /\ \A i \in 1 .. Len(l) - n + 1 : after[i] = l[n + i - 1]
    <3>1. n \in Int /\ Len(l) \in Int
      BY <1>1
    <3> QED
      BY <2>1, <3>1, SubSeqProperties
  <2> HIDE DEF after
  <2> QED
    BY <1>1, <2>2
<1> HIDE DEF before, after
<1>4. <<t>> \in Seq(Timers) /\ Len(<<t>>) = 1 /\ <<t>>[1] = t
  OBVIOUS
<1>5. /\ before \o <<t>> \in Seq(Timers) /\ Len(before \o <<t>>) = n
      /\ \A i \in 1 .. n : (before \o <<t>>)[i] = IF i < n THEN l[i] ELSE t
  <2>1. /\ before \o <<t>> \in Seq(Timers) /\ Len(before \o <<t>>) = n - 1 + 1
        /\ \A i \in 1 .. n - 1 + 1 :
             (before \o <<t>>)[i] = IF i <= n - 1 THEN before[i] ELSE <<t>>[i - (n - 1)]
    BY <1>2, <1>4, ConcatProperties
  <2> QED
    BY <1>1, <1>2, <1>4, <2>1
<1> DEFINE left == before \o <<t>>
           q    == left \o after
<1>6. InsertAt(l, n, t) = q
  BY DEF InsertAt, before, after
<1>7. left \in Seq(Timers) /\ Len(left) = n /\ \A i \in 1 .. n : left[i] = IF i < n THEN l[i] ELSE t
  BY <1>5
<1> HIDE DEF left
<1>8. /\ q \in Seq(Timers) /\ Len(q) = n + (Len(l) - n + 1)
      /\ \A i \in 1 .. n + (Len(l) - n + 1) :
           q[i] = IF i <= n THEN left[i] ELSE after[i - n]
  BY <1>3, <1>7, ConcatProperties
<1> HIDE DEF q
<1>9. Len(q) = Len(l) + 1 /\ n \in Nat
  BY <1>1, <1>8
<1>10. ASSUME NEW i \in 1 .. Len(q)
       PROVE  q[i] = IF i < n THEN l[i] ELSE IF i = n THEN t ELSE l[i - 1]
  <2>1. i \in Nat /\ i >= 1 /\ i <= Len(l) + 1
    BY <1>1, <1>9
  <2>2. q[i] = IF i <= n THEN left[i] ELSE after[i - n]
    BY <1>1, <1>8, <1>9, <2>1
  <2>3. CASE i <= n
    BY <1>7, <1>9, <2>1, <2>2, <2>3
  <2>4. CASE i > n
    <3>1. i - n \in 1 .. Len(l) - n + 1 /\ n + (i - n) - 1 = i - 1
      BY <1>1, <1>9, <2>1, <2>4
    <3>2. after[i - n] = l[i - 1]
      BY <1>3, <3>1
    <3> QED
      BY <1>9, <2>1, <2>2, <2>4, <3>2
  <2> QED
    BY <1>9, <2>1, <2>3, <2>4
<1> QED
  BY <1>6, <1>8, <1>9, <1>10

\* A timer that is put into a sorted list leaves it sorted, and stays behind
\* the first one or becomes the first.
LEMMA InsertedInOrder ==
  ASSUME NEW l \in Seq(Timers), Distinct(l), NEW ts \in [Timers -> TimerRecord],
         SortedBy(l, ts), NEW t \in Timers, ~In(l, t),
         \A u \in Timers : In(l, u) => ts[u].expire <= TIME_NEVER
  PROVE  LET q == Inserted(l, ts, t)
         IN  /\ q \in Seq(Timers) /\ Distinct(q) /\ SortedBy(q, ts)
             /\ \A u : In(q, u) <=> In(l, u) \/ u = t
             /\ Len(q) > 0
             /\ Len(l) > 0 => q[1] = l[1] \/ q[1] = t
             /\ Len(l) > 0 /\ ~ts[t].enabled => q[1] = l[1]
<1> DEFINE later == {i \in DOMAIN l : ts[l[i]].expire - Place(ts[t]) > NSec}
           q     == Inserted(l, ts, t)
<1>1. /\ Len(l) \in Nat /\ DOMAIN l = 1 .. Len(l) /\ NSec \in Nat /\ TIME_NEVER \in Nat
      /\ \A i \in 1 .. Len(l) : /\ l[i] \in Timers /\ ts[l[i]].expire \in Int
                                /\ ts[l[i]].expire <= TIME_NEVER /\ l[i] # t
      /\ ts[t].expire \in Int /\ ts[t].enabled \in BOOLEAN
  BY LenProperties, ElementOfSeq, TimerAssumption DEF TimerRecord, In
\* q is the list with t at n, behind timers that expire no later.
<1> DEFINE At(n) ==
      /\ n \in 1 .. Len(l) + 1
      /\ q \in Seq(Timers) /\ Len(q) = Len(l) + 1
      /\ \A i \in 1 .. Len(q) :
           q[i] = IF i < n THEN l[i] ELSE IF i = n THEN t ELSE l[i - 1]
      /\ ts[t].enabled => \A i \in 1 .. n - 1 : ts[l[i]].expire <= ts[t].expire + NSec
      /\ n <= Len(l) => ts[t].enabled /\ ts[l[n]].expire > ts[t].expire + NSec
<1>2. \E n : At(n)
  <2>1. CASE later = {}
    <3>1. q = Append(l, t)
      BY <2>1 DEF Inserted
    <3>2. /\ q \in Seq(Timers) /\ Len(q) = Len(l) + 1 /\ q[Len(l) + 1] = t
          /\ \A i \in 1 .. Len(l) : q[i] = l[i]
      BY <3>1, AppendProperties
    <3> HIDE DEF q
    <3>3. \A i \in 1 .. Len(l) : ~(ts[l[i]].expire - Place(ts[t]) > NSec)
      BY <1>1, <2>1
    <3>4. ts[t].enabled => \A i \in 1 .. Len(l) : ts[l[i]].expire <= ts[t].expire + NSec
      BY <1>1, <3>3 DEF Place
    <3>5. \A i \in 1 .. Len(q) : i \in 1 .. Len(l) \/ i = Len(l) + 1
      BY <1>1, <3>2
    <3>6. At(Len(l) + 1)
      BY <1>1, <3>2, <3>4, <3>5
    <3> QED
      BY <3>6
  <2>2. CASE later # {}
    <3>1. later \in SUBSET Nat
      BY <1>1
    <3>2. Min(later) \in later /\ \A y \in later : Min(later) <= y
      <4> HIDE DEF later
      <4> QED
        BY <2>2, <3>1, LowestPosition
    <3>3. q = InsertAt(l, Min(later), t)
      BY <2>2 DEF Inserted
    <3>4. PICK n \in later : n = Min(later) /\ \A y \in later : n <= y
      BY <3>2, Zenon
    <3>5. n \in 1 .. Len(l) /\ ts[l[n]].expire - Place(ts[t]) > NSec
      BY <1>1, <3>4
    <3>6. ts[t].enabled /\ ts[l[n]].expire > ts[t].expire + NSec
      BY <1>1, <3>5 DEF Place
    <3>7. \A i \in 1 .. n - 1 : ts[l[i]].expire <= ts[t].expire + NSec
      <4> SUFFICES ASSUME NEW i \in 1 .. n - 1 PROVE ts[l[i]].expire <= ts[t].expire + NSec
        OBVIOUS
      <4>1. i \in 1 .. Len(l) /\ ~(n <= i)
        BY <1>1, <3>5
      <4>2. i \notin later
        <5> HIDE DEF later
        <5> QED
          BY <3>4, <4>1
      <4>3. ~(ts[l[i]].expire - Place(ts[t]) > NSec)
        BY <1>1, <4>1, <4>2
      <4> QED
        BY <1>1, <3>6, <4>1, <4>3 DEF Place
    <3>8. n \in 1 .. Len(l) + 1
      BY <1>1, <3>5
    <3>9. /\ q \in Seq(Timers) /\ Len(q) = Len(l) + 1
          /\ \A i \in 1 .. Len(q) :
               q[i] = IF i < n THEN l[i] ELSE IF i = n THEN t ELSE l[i - 1]
      <4>1. q = InsertAt(l, n, t)
        BY <3>3, <3>4, Zenon
      <4>2. /\ InsertAt(l, n, t) \in Seq(Timers) /\ Len(InsertAt(l, n, t)) = Len(l) + 1
            /\ \A i \in 1 .. Len(InsertAt(l, n, t)) :
                 InsertAt(l, n, t)[i] = IF i < n THEN l[i] ELSE IF i = n THEN t ELSE l[i - 1]
        <5> HIDE DEF q, later, At
        <5> QED
          BY <3>8, InsertedAt, SMTT(30)
      <4> HIDE DEF q, later
      <4> QED
        BY <4>1, <4>2
    <3>10. At(n)
      <4> HIDE DEF q, later
      <4> QED
        BY <3>6, <3>7, <3>8, <3>9
    <3> QED
      BY <3>10
  <2> QED
    BY <2>1, <2>2
<1>3. PICK n : At(n)
  BY <1>2
<1> HIDE DEF q
<1>4. n \in Nat /\ n >= 1 /\ n <= Len(l) + 1 /\ n \in 1 .. Len(q) /\ Len(q) = Len(l) + 1
  BY <1>1, <1>3
<1>5. /\ q[n] = t
      /\ \A i \in 1 .. Len(l) : i < n => i \in 1 .. Len(q) /\ q[i] = l[i]
      /\ \A i \in 1 .. Len(l) : i >= n => i + 1 \in 1 .. Len(q) /\ q[i + 1] = l[i]
  BY <1>1, <1>3, <1>4
\* Each position of q but n is one of the list, in the same order.
<1>6. \A i \in 1 .. Len(q) :
        i # n => \E a \in 1 .. Len(l) : q[i] = l[a] /\ (i < n => a = i) /\ (i > n => a = i - 1)
  <2> SUFFICES ASSUME NEW i \in 1 .. Len(q), i # n
               PROVE  \E a \in 1 .. Len(l) :
                        q[i] = l[a] /\ (i < n => a = i) /\ (i > n => a = i - 1)
    OBVIOUS
  <2>1. CASE i < n
    <3>1. i \in 1 .. Len(l) /\ q[i] = l[i]
      BY <1>3, <1>4, <2>1
    <3> QED
      BY <1>4, <2>1, <3>1
  <2>2. CASE i > n
    <3>1. i - 1 \in 1 .. Len(l) /\ q[i] = l[i - 1]
      BY <1>1, <1>3, <1>4, <2>2
    <3> QED
      BY <1>4, <2>2, <3>1
  <2> QED
    BY <1>4, <2>1, <2>2
<1>7. Distinct(q)
  <2> SUFFICES ASSUME NEW i \in 1 .. Len(q), NEW j \in 1 .. Len(q), q[i] = q[j] PROVE i = j
    BY DEF Distinct
  <2>1. CASE i = n \/ j = n
    BY <1>1, <1>5, <1>6, <2>1
  <2>2. CASE i # n /\ j # n
    <3>1. PICK a \in 1 .. Len(l) : q[i] = l[a] /\ (i < n => a = i) /\ (i > n => a = i - 1)
      BY <1>6, <2>2
    <3>2. PICK b \in 1 .. Len(l) : q[j] = l[b] /\ (j < n => b = j) /\ (j > n => b = j - 1)
      BY <1>6, <2>2
    <3>3. a = b
      BY <3>1, <3>2, Zenon DEF Distinct
    <3> QED
      BY <1>4, <2>2, <3>1, <3>2, <3>3
  <2> QED
    BY <2>1, <2>2
<1>8. SortedBy(q, ts)
  <2> SUFFICES ASSUME NEW i \in 1 .. Len(q), NEW j \in 1 .. Len(q), i < j, ts[q[j]].enabled
               PROVE  ts[q[i]].expire <= ts[q[j]].expire + NSec
    BY DEF SortedBy
  <2>1. CASE j = n
    BY <1>3, <1>4, <1>5, <2>1
  <2>2. CASE i = n
    <3>1. PICK b \in 1 .. Len(l) : q[j] = l[b] /\ b = j - 1
      BY <1>4, <1>6, <2>2
    <3>2. n <= Len(l) /\ n <= b /\ n \in 1 .. Len(l)
      BY <1>1, <1>4, <2>2, <3>1
    <3>3. ts[l[n]].expire > ts[t].expire + NSec
      BY <1>3, <3>2
    <3>4. n < b => ts[l[n]].expire <= ts[l[b]].expire + NSec
      BY <3>1, <3>2 DEF SortedBy
    <3>5. ts[l[n]].expire <= ts[l[b]].expire + NSec
      <4>1. n < b \/ n = b
        BY <1>4, <3>1, <3>2
      <4> QED
        BY <1>1, <3>1, <3>2, <3>4, <4>1
    <3>6. ts[t].expire <= ts[l[b]].expire + NSec
      <4>1. /\ ts[l[n]].expire \in Int /\ ts[l[b]].expire \in Int /\ ts[t].expire \in Int
            /\ NSec \in Nat
        BY <1>1, <3>1, <3>2
      <4> QED
        BY <3>3, <3>5, <4>1
    <3> QED
      BY <1>5, <2>2, <3>1, <3>6, Zenon
  <2>3. CASE i # n /\ j # n
    <3>1. PICK a \in 1 .. Len(l) : q[i] = l[a] /\ (i < n => a = i) /\ (i > n => a = i - 1)
      BY <1>6, <2>3
    <3>2. PICK b \in 1 .. Len(l) : q[j] = l[b] /\ (j < n => b = j) /\ (j > n => b = j - 1)
      BY <1>6, <2>3
    <3>3. a < b
      BY <1>4, <2>3, <3>1, <3>2
    <3> QED
      BY <3>1, <3>2, <3>3, Zenon DEF SortedBy
  <2> QED
    BY <2>1, <2>2, <2>3
<1>9. \A u : In(q, u) <=> In(l, u) \/ u = t
  <2>1. ASSUME NEW u, In(q, u) PROVE In(l, u) \/ u = t
    BY <1>5, <1>6, <2>1, Zenon DEF In
  <2>2. ASSUME NEW i \in 1 .. Len(l) PROVE In(q, l[i])
    <3>1. i < n \/ i >= n
      BY <1>4
    <3> QED
      BY <1>5, <3>1, Zenon DEF In
  <2>3. In(q, t)
    BY <1>4, <1>5, Zenon DEF In
  <2> QED
    BY <2>1, <2>2, <2>3, Zenon DEF In
<1>10. ASSUME Len(l) > 0
       PROVE  /\ q[1] = l[1] \/ q[1] = t
              /\ ~ts[t].enabled => q[1] = l[1]
  <2>1. CASE n = 1
    <3>1. n <= Len(l)
      BY <1>1, <1>10, <2>1
    <3> QED
      BY <1>3, <1>5, <2>1, <3>1
  <2>2. CASE n # 1
    <3>1. 1 \in 1 .. Len(q) /\ 1 < n
      BY <1>1, <1>4, <2>2
    <3> QED
      BY <1>3, <3>1
  <2> QED
    BY <2>1, <2>2
<1>11. Len(q) > 0 /\ q \in Seq(Timers)
  BY <1>1, <1>3, <1>4
<1> QED
  BY <1>7, <1>8, <1>9, <1>10, <1>11 DEF q
-----------------------------------------------------------------------------
(* What is done to the lists *)

\* Refresh is in the list, and no timer of the list expires after TIME_NEVER.
LEMMA ListIsNotEmpty ==
  ASSUME NEW ts, NEW o, NEW f, NEW d, NEW now, Consistent(ts, o, f, d, now)
  PROVE  /\ Len(o) \in Nat /\ Len(o) > 0 /\ o[1] \in Timers /\ In(o, o[1]) /\ Head(o) = o[1]
         /\ \A u \in Timers : In(o, u) => ts[u].expire <= TIME_NEVER
         /\ Refresh \in Timers
<1>1. /\ o \in Seq(Timers) /\ Len(o) \in Nat /\ Refresh \in Timers /\ NoTag # RefreshTag
      /\ NSec \in Nat /\ TIME_NEVER \in Nat
  BY LenProperties, TimerAssumption DEF Consistent, Timers, Refresh, NoTag, RefreshTag
<1>2. In(o, Refresh)
  BY <1>1, Zenon DEF Consistent, Lists, RefreshGoesOn
<1>3. 1 \in 1 .. Len(o) /\ o # <<>>
  BY <1>1, <1>2 DEF In
<1>4. o[1] \in Timers /\ In(o, o[1]) /\ Head(o) = o[1]
  BY <1>1, <1>3, ElementOfSeq DEF In
<1>5. ASSUME NEW u \in Timers, In(o, u) PROVE ts[u].expire <= TIME_NEVER
  <2>1. ts[u].tag # NoTag /\ ts[u].expire \in Int
    BY <1>5 DEF Consistent, Lists, TimerRecord
  <2> QED
    BY <1>1, <2>1 DEF Consistent, OnTime
<1> QED
  BY <1>1, <1>3, <1>4, <1>5

\* The time of one timer is near enough, or it never expires.
TimeFits(ts, t, d, now) ==
  \/ ts[t].expire = TIME_NEVER
  \/ ts[t].expire = d[t] - now /\ ts[t].expire + NSec < TIME_NEVER

\* A timer of the list gets another time or is enabled or disabled.
LEMMA MovedIsConsistent ==
  ASSUME NEW ts, NEW o, NEW f, NEW d, NEW now, Consistent(ts, o, f, d, now),
         NEW t \in Timers, ts[t].tag # NoTag,
         NEW ts2 \in [Timers -> TimerRecord], NEW d2,
         \A u \in Timers : u # t => ts2[u] = ts[u] /\ d2[u] = d[u],
         ts2[t].tag = ts[t].tag, TimeFits(ts2, t, d2, now),
         RefreshGoesOn(ts2)
  PROVE  LET q == Moved(o, ts2, t)
         IN  /\ Consistent(ts2, q, f, d2, now)
             /\ t # o[1] => q[1] = t \/ q[1] = o[1]
             /\ t # o[1] /\ ~ts2[t].enabled => q[1] = o[1]
<1> DEFINE w == Without(o, {t})
           q == Moved(o, ts2, t)
<1>1. /\ ts \in [Timers -> TimerRecord] /\ o \in Seq(Timers) /\ f \in Seq(Timers)
      /\ Lists(ts, o, f) /\ SortedBy(o, ts) /\ OnTime(ts, d, now) /\ Distinct(o)
  BY Zenon DEF Consistent, Lists
<1>2. /\ w \in Seq(Timers) /\ Distinct(w) /\ SortedBy(w, ts)
      /\ \A u : In(w, u) <=> In(o, u) /\ u # t
      /\ Len(o) > 0 /\ o[1] # t => Len(w) > 0 /\ w[1] = o[1]
  BY <1>1, WithoutSome
<1>3. q = Inserted(w, ts2, t)
  BY DEF Moved
<1> HIDE DEF w, q
<1>4. SortedBy(w, ts2)
  <2>1. \A i \in 1 .. Len(w) : w[i] \in Timers /\ w[i] # t
    <3>1. \A i \in 1 .. Len(w) : w[i] \in Timers /\ In(w, w[i])
      BY <1>2, ElementOfSeq DEF In
    <3> QED
      BY <1>2, <3>1
  <2>2. \A i \in 1 .. Len(w) : ts2[w[i]] = ts[w[i]]
    BY <2>1
  <2> QED
    BY <1>2, <2>2 DEF SortedBy
<1>5. \A u \in Timers : In(w, u) => ts2[u].expire <= TIME_NEVER
  BY <1>2, ListIsNotEmpty
<1>6. /\ q \in Seq(Timers) /\ Distinct(q) /\ SortedBy(q, ts2)
      /\ \A u : In(q, u) <=> In(w, u) \/ u = t
      /\ Len(q) > 0
      /\ Len(w) > 0 => q[1] = w[1] \/ q[1] = t
      /\ Len(w) > 0 /\ ~ts2[t].enabled => q[1] = w[1]
  <2>1. ~In(w, t)
    BY <1>2, Zenon
  <2> QED
    BY <1>2, <1>3, <1>4, <1>5, <2>1, InsertedInOrder
<1>7. In(o, t)
  BY <1>1 DEF Lists
<1>8. Lists(ts2, q, f)
  <2>1. ASSUME NEW u \in Timers
        PROVE  /\ ts2[u].tag = NoTag <=> In(f, u)
               /\ ts2[u].tag # NoTag <=> In(q, u)
               /\ ts2[u].handle => ts2[u].tag # NoTag
    <3>1. ts2[u].tag = ts[u].tag
      BY Zenon
    <3>2. ts2[u].handle => ts2[u].tag # NoTag
      BY <1>1, <3>1, Zenon DEF Lists
    <3>3. In(q, u) <=> In(o, u)
      BY <1>2, <1>6, <1>7, Zenon
    <3> QED
      BY <1>1, <3>1, <3>2, <3>3, Zenon DEF Lists
  <2> QED
    BY <1>1, <1>6, <2>1, Zenon DEF Lists
<1>9. OnTime(ts2, d2, now)
  BY <1>1, Zenon DEF OnTime, TimeFits
<1>10. ASSUME t # o[1]
       PROVE  (q[1] = t \/ q[1] = o[1]) /\ (~ts2[t].enabled => q[1] = o[1])
  BY <1>2, <1>6, <1>10, ListIsNotEmpty
<1> QED
  BY <1>1, <1>2, <1>6, <1>8, <1>9, <1>10, ListIsNotEmpty DEF Consistent, q

\* A free list without its first timer.
LEMMA TailOfList ==
  ASSUME NEW f \in Seq(Timers), Distinct(f), f # <<>>
  PROVE  /\ Head(f) \in Timers /\ In(f, Head(f))
         /\ Tail(f) \in Seq(Timers) /\ Distinct(Tail(f))
         /\ \A u : In(Tail(f), u) <=> In(f, u) /\ u # Head(f)
<1> DEFINE g == Tail(f)
<1>1. /\ Len(f) \in Nat /\ Len(f) > 0 /\ Head(f) = f[1] /\ f[1] \in Timers
      /\ g \in Seq(Timers) /\ Len(g) = Len(f) - 1
      /\ \A i \in 1 .. Len(f) - 1 : g[i] = f[i + 1]
  <2>1. Len(f) \in Nat /\ Len(f) # 0
    BY LenProperties, EmptySeq
  <2>2. 1 \in 1 .. Len(f)
    BY <2>1
  <2> QED
    BY <2>1, <2>2, HeadTailProperties, ElementOfSeq
<1> HIDE DEF g
<1>2. \A i \in 1 .. Len(g) : i + 1 \in 1 .. Len(f) /\ i + 1 # 1 /\ g[i] = f[i + 1]
  BY <1>1
<1>3. Distinct(g)
  <2> SUFFICES ASSUME NEW i \in 1 .. Len(g), NEW j \in 1 .. Len(g), g[i] = g[j] PROVE i = j
    BY DEF Distinct
  <2>1. i + 1 = j + 1
    BY <1>2, Zenon DEF Distinct
  <2> QED
    BY <2>1
<1>4. 1 \in 1 .. Len(f)
  BY <1>1
<1>5. ASSUME NEW u, In(g, u) PROVE In(f, u) /\ u # f[1]
  BY <1>2, <1>4, <1>5, Zenon DEF In, Distinct
<1>6. ASSUME NEW u, In(f, u), u # f[1] PROVE In(g, u)
  <2>1. PICK i \in 1 .. Len(f) : f[i] = u
    BY <1>6 DEF In
  <2>2. i - 1 \in 1 .. Len(g) /\ g[i - 1] = f[i]
    BY <1>1, <1>6, <2>1
  <2> QED
    BY <2>1, <2>2, Zenon DEF In
<1> QED
  BY <1>1, <1>3, <1>4, <1>5, <1>6 DEF In, g

\* A list behind another one.
LEMMA ListsJoined ==
  ASSUME NEW f \in Seq(Timers), NEW g \in Seq(Timers), Distinct(f), Distinct(g),
         \A u : ~(In(f, u) /\ In(g, u))
  PROVE  /\ f \o g \in Seq(Timers) /\ Distinct(f \o g)
         /\ \A u : In(f \o g, u) <=> In(f, u) \/ In(g, u)
<1> DEFINE h == f \o g
<1>1. /\ Len(f) \in Nat /\ Len(g) \in Nat /\ h \in Seq(Timers) /\ Len(h) = Len(f) + Len(g)
      /\ \A i \in 1 .. Len(f) + Len(g) : h[i] = IF i <= Len(f) THEN f[i] ELSE g[i - Len(f)]
  BY LenProperties, ConcatProperties
<1> HIDE DEF h
<1>2. \A i \in 1 .. Len(f) : i \in 1 .. Len(h) /\ h[i] = f[i]
  BY <1>1
<1>3. \A i \in 1 .. Len(g) : i + Len(f) \in 1 .. Len(h) /\ h[i + Len(f)] = g[i]
  <2> SUFFICES ASSUME NEW i \in 1 .. Len(g)
               PROVE  i + Len(f) \in 1 .. Len(h) /\ h[i + Len(f)] = g[i]
    OBVIOUS
  <2>1. i + Len(f) \in 1 .. Len(h) /\ ~(i + Len(f) <= Len(f)) /\ i + Len(f) - Len(f) = i
    BY <1>1
  <2>2. h[i + Len(f)] = g[i + Len(f) - Len(f)]
    BY <1>1, <2>1
  <2> QED
    BY <2>1, <2>2
<1>4. \A i \in 1 .. Len(h) :
        \/ i \in 1 .. Len(f) /\ h[i] = f[i]
        \/ i > Len(f) /\ i - Len(f) \in 1 .. Len(g) /\ h[i] = g[i - Len(f)]
  BY <1>1
<1>5. Distinct(h)
  <2> SUFFICES ASSUME NEW i \in 1 .. Len(h), NEW j \in 1 .. Len(h), h[i] = h[j] PROVE i = j
    BY DEF Distinct
  <2>1. CASE i \in 1 .. Len(f) /\ h[i] = f[i]
    <3>1. j \in 1 .. Len(f) /\ h[j] = f[j]
      BY <1>4, <2>1, Zenon DEF In
    <3> QED
      BY <2>1, <3>1, Zenon DEF Distinct
  <2>2. CASE i - Len(f) \in 1 .. Len(g) /\ h[i] = g[i - Len(f)]
    <3>1. j - Len(f) \in 1 .. Len(g) /\ h[j] = g[j - Len(f)]
      BY <1>4, <2>2, Zenon DEF In
    <3>2. i - Len(f) = j - Len(f)
      BY <2>2, <3>1, Zenon DEF Distinct
    <3> QED
      BY <1>1, <3>2
  <2> QED
    BY <1>4, <2>1, <2>2
<1>6. \A u : In(h, u) => In(f, u) \/ In(g, u)
  BY <1>4, Zenon DEF In
<1>7. \A u : In(f, u) \/ In(g, u) => In(h, u)
  BY <1>2, <1>3, Zenon DEF In
<1> QED
  BY <1>1, <1>5, <1>6, <1>7 DEF h

\* A free timer gets into the list.
LEMMA AllocIsConsistent ==
  ASSUME NEW ts, NEW o, NEW f, NEW d, NEW now, Consistent(ts, o, f, d, now), f # <<>>,
         NEW ts2 \in [Timers -> TimerRecord],
         \A u \in Timers : u # Head(f) => ts2[u] = ts[u],
         ts2[Head(f)].tag \in Tags, ts2[Head(f)].expire = TIME_NEVER
  PROVE  LET t == Head(f)
             q == Inserted(o, ts2, t)
         IN  /\ t \in Timers /\ ts[t].tag = NoTag /\ t # Refresh
             /\ Consistent(ts2, q, Tail(f), d, now)
             /\ ~ts2[t].enabled => q[1] = o[1]
<1> DEFINE t == Head(f)
           q == Inserted(o, ts2, t)
<1>1. /\ ts \in [Timers -> TimerRecord] /\ o \in Seq(Timers) /\ f \in Seq(Timers)
      /\ Lists(ts, o, f) /\ SortedBy(o, ts) /\ OnTime(ts, d, now) /\ Distinct(o) /\ Distinct(f)
      /\ RefreshGoesOn(ts)
  BY Zenon DEF Consistent, Lists
<1>2. /\ t \in Timers /\ In(f, t) /\ Tail(f) \in Seq(Timers) /\ Distinct(Tail(f))
      /\ \A u : In(Tail(f), u) <=> In(f, u) /\ u # t
  BY <1>1, TailOfList
<1> HIDE DEF t
<1>3. ts[t].tag = NoTag /\ ~In(o, t)
  BY <1>1, <1>2, Zenon DEF Lists
<1>4. NoTag \notin Tags /\ RefreshTag # NoTag
  BY TimerAssumption DEF NoTag, RefreshTag
<1>5. t # Refresh
  BY <1>1, <1>3, <1>4 DEF RefreshGoesOn
<1>6. /\ \A u \in Timers : u # t => ts2[u] = ts[u]
      /\ ts2[t].tag # NoTag /\ ts2[t].expire = TIME_NEVER
  BY <1>4 DEF t
<1>7. SortedBy(o, ts2)
  <2>1. \A i \in 1 .. Len(o) : o[i] \in Timers /\ o[i] # t
    BY <1>1, <1>3, ElementOfSeq DEF In
  <2>2. \A i \in 1 .. Len(o) : ts2[o[i]] = ts[o[i]]
    BY <1>6, <2>1
  <2> QED
    BY <1>1, <2>2 DEF SortedBy
<1>8. \A u \in Timers : In(o, u) => ts2[u].expire <= TIME_NEVER
  BY <1>3, <1>6, ListIsNotEmpty
<1>9. /\ q \in Seq(Timers) /\ Distinct(q) /\ SortedBy(q, ts2)
      /\ \A u : In(q, u) <=> In(o, u) \/ u = t
      /\ Len(o) > 0 /\ ~ts2[t].enabled => q[1] = o[1]
  BY <1>1, <1>2, <1>3, <1>7, <1>8, InsertedInOrder
<1> HIDE DEF q
<1>10. Lists(ts2, q, Tail(f))
  <2>1. ASSUME NEW u \in Timers
        PROVE  /\ ts2[u].tag = NoTag <=> In(Tail(f), u)
               /\ ts2[u].tag # NoTag <=> In(q, u)
               /\ ts2[u].handle => ts2[u].tag # NoTag
    <3>1. CASE u = t
      BY <1>2, <1>6, <1>9, <3>1, Zenon
    <3>2. CASE u # t
      <4>1. ts2[u] = ts[u] /\ (In(Tail(f), u) <=> In(f, u)) /\ (In(q, u) <=> In(o, u))
        BY <1>2, <1>6, <1>9, <3>2, Zenon
      <4>2. /\ ts[u].tag = NoTag <=> In(f, u)
            /\ ts[u].tag # NoTag <=> In(o, u)
            /\ ts[u].handle => ts[u].tag # NoTag
        BY <1>1, Zenon DEF Lists
      <4> QED
        BY <4>1, <4>2
    <3> QED
      BY <3>1, <3>2
  <2> QED
    BY <1>2, <1>9, <2>1, Zenon DEF Lists
<1>11. OnTime(ts2, d, now)
  BY <1>1, <1>6, Zenon DEF OnTime
<1>12. RefreshGoesOn(ts2)
  <2>1. Refresh \in Timers
    BY ListIsNotEmpty
  <2> QED
    BY <1>1, <1>5, <1>6, <2>1, Zenon DEF RefreshGoesOn
<1>13. Consistent(ts2, q, Tail(f), d, now)
  BY <1>2, <1>9, <1>10, <1>11, <1>12, Zenon DEF Consistent
<1> QED
  BY <1>2, <1>3, <1>5, <1>9, <1>13, ListIsNotEmpty DEF t, q

\* Timers of the list get free.
LEMMA RemoveIsConsistent ==
  ASSUME NEW ts, NEW o, NEW f, NEW d, NEW now, Consistent(ts, o, f, d, now),
         NEW gone \in SUBSET Timers, \A u \in gone : ts[u].tag # NoTag, Refresh \notin gone,
         NEW ts2, ts2 = [u \in Timers |-> IF u \in gone THEN Freed(ts[u]) ELSE ts[u]],
         NEW f2 \in Seq(Timers), Distinct(f2),
         \A u \in Timers : In(f2, u) <=> In(f, u) \/ u \in gone
  PROVE  LET q == Without(o, gone)
         IN  /\ Consistent(ts2, q, f2, d, now)
             /\ o[1] \notin gone => q[1] = o[1]
<1> DEFINE q == Without(o, gone)
<1>1. /\ ts \in [Timers -> TimerRecord] /\ o \in Seq(Timers)
      /\ Lists(ts, o, f) /\ SortedBy(o, ts) /\ OnTime(ts, d, now) /\ Distinct(o)
      /\ RefreshGoesOn(ts)
  BY Zenon DEF Consistent, Lists
<1>2. /\ q \in Seq(Timers) /\ Distinct(q) /\ SortedBy(q, ts)
      /\ \A u : In(q, u) <=> In(o, u) /\ u \notin gone
      /\ Len(o) > 0 /\ o[1] \notin gone => q[1] = o[1]
  BY <1>1, WithoutSome
<1> HIDE DEF q
<1>3. /\ ts2 \in [Timers -> TimerRecord]
      /\ \A u \in gone : ts2[u].tag = NoTag /\ ~ts2[u].handle
      /\ \A u \in Timers : u \notin gone => ts2[u] = ts[u]
  <2>1. \A u \in Timers : Freed(ts[u]) \in TimerRecord
    BY <1>1 DEF Freed, TimerRecord
  <2>2. \A u \in Timers : Freed(ts[u]).tag = NoTag /\ ~Freed(ts[u]).handle
    BY <1>1 DEF Freed, TimerRecord
  <2> QED
    BY <1>1, <2>1, <2>2
<1>4. Lists(ts2, q, f2)
  <2>1. ASSUME NEW u \in Timers
        PROVE  /\ ts2[u].tag = NoTag <=> In(f2, u)
               /\ ts2[u].tag # NoTag <=> In(q, u)
               /\ ts2[u].handle => ts2[u].tag # NoTag
    <3>1. CASE u \in gone
      BY <1>2, <1>3, <3>1, Zenon
    <3>2. CASE u \notin gone
      BY <1>1, <1>2, <1>3, <3>2, Zenon DEF Lists
    <3> QED
      BY <3>1, <3>2
  <2> QED
    BY <1>2, <2>1, Zenon DEF Lists
<1>5. SortedBy(q, ts2)
  <2>1. \A i \in 1 .. Len(q) : q[i] \in Timers /\ In(q, q[i])
    BY <1>2, ElementOfSeq DEF In
  <2>2. \A i \in 1 .. Len(q) : ts2[q[i]] = ts[q[i]]
    BY <1>2, <1>3, <2>1, Zenon
  <2> QED
    BY <1>2, <2>2 DEF SortedBy
<1>6. OnTime(ts2, d, now)
  BY <1>1, <1>3, Zenon DEF OnTime
<1>7. RefreshGoesOn(ts2)
  BY <1>1, <1>3, ListIsNotEmpty, Zenon DEF RefreshGoesOn
<1> QED
  BY <1>2, <1>3, <1>4, <1>5, <1>6, <1>7, ListIsNotEmpty DEF Consistent, q
-----------------------------------------------------------------------------
(* The steps *)

\* What the constants are.
LEMMA ConstantTypes ==
  /\ MAX_TIMERS \in Nat /\ NSec \in Nat /\ NSec > 0 /\ TIME_NEVER \in Nat /\ MaxTime \in Nat
  /\ RefreshPeriod \in Nat /\ RefreshPeriod # 0
  /\ Durations \subseteq Nat /\ Periods \subseteq Nat
  /\ Refresh \in Timers /\ Timers \subseteq Nat
  /\ NoTag \notin Tags /\ RefreshTag \notin Tags /\ RefreshTag # NoTag
  /\ \A d \in Durations \cup Periods \cup {0, RefreshPeriod} :
       d \in Nat /\ MaxTime + d + NSec < TIME_NEVER /\ d + 2 * NSec < TIME_NEVER
  /\ NSec < TIME_NEVER
BY TimerAssumption DEF NoTag, RefreshTag, Timers, Refresh

\* The lists of a state have a first timer.
LEMMA ListHasAHead ==
  ASSUME NEW ts, NEW o, NEW f, NEW d, NEW now, Consistent(ts, o, f, d, now)
  PROVE  /\ Head(o) = o[1] /\ o[1] \in Timers /\ ts[o[1]].tag # NoTag
         /\ \A t \in Timers : ts[t] \in TimerRecord
         /\ \A t \in Timers : ts[t].tag # NoTag =>
              /\ ts[t].expire \in Int /\ ts[t].expire <= TIME_NEVER
              /\ ts[t].enabled => ts[o[1]].expire <= ts[t].expire + NSec
<1>1. /\ Len(o) \in Nat /\ Len(o) > 0 /\ o[1] \in Timers /\ In(o, o[1]) /\ Head(o) = o[1]
      /\ \A u \in Timers : In(o, u) => ts[u].expire <= TIME_NEVER
  BY ListIsNotEmpty
<1>2. \A t \in Timers : ts[t] \in TimerRecord /\ ts[t].expire \in Int
  BY DEF Consistent, TimerRecord
<1>3. \A t \in Timers : ts[t].tag # NoTag <=> In(o, t)
  BY Zenon DEF Consistent, Lists
<1>4. ASSUME NEW t \in Timers, ts[t].tag # NoTag, ts[t].enabled
      PROVE  ts[o[1]].expire <= ts[t].expire + NSec
  <2>1. PICK i \in 1 .. Len(o) : o[i] = t
    BY <1>3, <1>4 DEF In
  <2>2. CASE i = 1
    BY <1>2, <2>1, <2>2, ConstantTypes
  <2>3. CASE i # 1
    <3>1. 1 \in 1 .. Len(o) /\ 1 < i
      BY <1>1, <2>3
    <3> QED
      BY <1>4, <2>1, <3>1 DEF Consistent, SortedBy
  <2> QED
    BY <2>2, <2>3
<1> QED
  BY <1>1, <1>2, <1>3, <1>4

\* timer_adjust keeps the invariant of a state whose records are ts and whose
\* list is o.
LEMMA AdjustedKeeps ==
  ASSUME Types, pc \in {"slice", "callback"},
         NEW ts, NEW o, NEW f, Consistent(ts, o, f, due, offset),
         CallbackTimer(ts), Punctual(ts, o), Head(order) = o[1],
         NEW t \in Timers, t # Refresh, ts[t].tag # NoTag,
         NEW duration \in Durations \cup Periods,
         NEW period \in Periods \cup {0, RefreshPeriod},
         Adjusted(ts, o, t, duration, period), free' = f, timer_ops' \in Nat
  PROVE  IInv'
<1> DEFINE timer == [ts[t] EXCEPT !.enabled = TRUE, !.expire = get_relative_time + duration,
                                  !.period = period]
<1>1. /\ timers' = [ts EXCEPT ![t] = timer]
      /\ order' = Moved(o, timers', t)
      /\ callback_timer_modified' = (callback_timer_modified \/ t = callback_timer)
      /\ slice' = IF pc = "slice" /\ Head(order') = t THEN local ELSE slice
      /\ due' = [due EXCEPT ![t] = Time + duration]
      /\ disturbed' = (disturbed \/ (FirstTakenAway /\ Head(order') # t))
      /\ pc' = pc /\ callback_timer' = callback_timer
      /\ callback_timer_expire_time' = callback_timer_expire_time
      /\ local' = local /\ offset' = offset /\ called' = called
  BY DEF Adjusted
<1>2. /\ local \in Nat /\ slice \in Int /\ offset \in Nat /\ offset + local <= MaxTime
      /\ callback_timer_expire_time \in Int /\ callback_timer_modified \in BOOLEAN
      /\ callback_timer \in 0 .. MAX_TIMERS
      /\ due \in [Timers -> Int] /\ called \in Int /\ disturbed \in BOOLEAN
  BY DEF Types
<1>3. /\ duration \in Nat /\ MaxTime + duration + NSec < TIME_NEVER
      /\ duration + 2 * NSec < TIME_NEVER /\ NSec \in Nat /\ TIME_NEVER \in Nat /\ MaxTime \in Nat
  BY ConstantTypes
<1>4. /\ get_relative_time \in Int
      /\ get_relative_time + duration + NSec < TIME_NEVER
      /\ (Time + duration) - offset = get_relative_time + duration /\ Time + duration \in Int
      /\ pc = "slice" => get_relative_time = local
      /\ pc = "callback" => get_relative_time = callback_timer_expire_time
  BY <1>2, <1>3 DEF CallbackTimer, get_relative_time, Time
<1>5. ts \in [Timers -> TimerRecord] /\ RefreshGoesOn(ts)
  BY DEF Consistent
<1>6. /\ timer \in TimerRecord /\ timer.enabled /\ timer.tag = ts[t].tag
      /\ timer.expire = get_relative_time + duration
      /\ timer.temporary = ts[t].temporary
  <2>1. ts[t] \in TimerRecord /\ get_relative_time + duration \in Int
    BY <1>3, <1>4, <1>5
  <2> QED
    BY <2>1 DEF TimerRecord
<1> HIDE DEF timer
<1>7. /\ timers' \in [Timers -> TimerRecord] /\ timers'[t] = timer
      /\ \A u \in Timers : u # t => timers'[u] = ts[u]
      /\ due' \in [Timers -> Int] /\ due'[t] = Time + duration
      /\ \A u \in Timers : u # t => due'[u] = due[u]
  BY <1>1, <1>2, <1>4, <1>5, <1>6
<1>8. TimeFits(timers', t, due', offset)
  <2>1. timers'[t].expire = get_relative_time + duration
    BY <1>6, <1>7, Zenon
  <2>2. due'[t] - offset = get_relative_time + duration
    <3>1. due'[t] = Time + duration
      BY <1>7
    <3>2. (Time + duration) - offset = get_relative_time + duration
      BY <1>4
    <3> QED
      BY <3>1, <3>2, Zenon
  <2> QED
    BY <1>4, <2>1, <2>2 DEF TimeFits
<1>9. RefreshGoesOn(timers')
  BY <1>5, <1>7, ConstantTypes, Zenon DEF RefreshGoesOn
<1>10. /\ Consistent(timers', order', f, due', offset)
       /\ t # o[1] => order'[1] = t \/ order'[1] = o[1]
  <2>1. timers'[t].tag = ts[t].tag
    BY <1>6, <1>7, Zenon
  <2>2. \A u \in Timers : u # t => timers'[u] = ts[u] /\ due'[u] = due[u]
    BY <1>7
  <2>3. order' = Moved(o, timers', t) /\ timers' \in [Timers -> TimerRecord]
    BY <1>1, <1>7
  <2> HIDE DEF timer
  <2> QED
    BY <1>8, <1>9, <2>1, <2>2, <2>3, MovedIsConsistent
<1>11. Consistent(timers', order', free', due', offset')
  BY <1>1, <1>10
<1>12. Types'
  BY <1>1, <1>2, <1>7 DEF Types
<1>13. CallbackTimer(timers)'
  <2> SUFFICES ASSUME pc = "callback" PROVE CallbackTimer(timers)'
    BY <1>1 DEF CallbackTimer
  <2>1. /\ callback_timer \in Timers /\ (disturbed => disturbed')
        /\ timers'[callback_timer].temporary = ts[callback_timer].temporary
        /\ timers'[callback_timer].tag = ts[callback_timer].tag
    <3>1. callback_timer \in Timers
      BY DEF CallbackTimer
    <3> QED
      BY <1>1, <1>6, <1>7, <3>1, Zenon
  <2>2. ~callback_timer_modified' =>
          ~callback_timer_modified /\ timers'[callback_timer] = ts[callback_timer]
    <3>1. ~callback_timer_modified' => ~callback_timer_modified /\ callback_timer # t
      BY <1>1
    <3> QED
      BY <1>7, <2>1, <3>1
  <2> QED
    BY <1>1, <2>1, <2>2, Zenon DEF CallbackTimer
<1>14. Punctual(timers, order)'
  <2>1. Head(order') = order'[1] /\ order'[1] \in Timers
    BY <1>10, ListHasAHead
  <2>2. CASE pc = "slice"
    <3>1. local <= slice'
      BY <1>1, <1>2, <2>2 DEF Punctual
    <3>2. ASSUME ~disturbed' PROVE slice' <= timers'[order'[1]].expire /\ NotBefore(timers', 0)
      <4>1. /\ ~disturbed /\ slice <= ts[o[1]].expire /\ NotBefore(ts, 0)
            /\ order'[1] = t \/ order'[1] = o[1]
        BY <1>1, <2>1, <2>2, <3>2 DEF Punctual, FirstTakenAway
      <4>2. NotBefore(timers', 0)
        BY <1>2, <1>3, <1>4, <1>6, <1>7, <2>2, <4>1 DEF NotBefore
      <4>3. CASE order'[1] = t
        <5>1. timers'[order'[1]].expire = local + duration
          BY <1>4, <1>6, <1>7, <2>2, <4>3, Zenon
        <5>2. slice' = local
          BY <1>1, <2>1, <2>2, <4>3, Zenon
        <5> QED
          BY <1>2, <1>3, <4>2, <5>1, <5>2
      <4>4. CASE order'[1] # t
        <5>1. timers'[order'[1]] = ts[o[1]]
          BY <1>7, <2>1, <4>1, <4>4
        <5>2. slice' = slice
          BY <1>1, <2>1, <4>4, Zenon
        <5> QED
          BY <4>1, <4>2, <5>1, <5>2
      <4> QED
        BY <4>2, <4>3, <4>4
    <3> QED
      BY <1>1, <2>2, <3>1, <3>2 DEF Punctual
  <2>3. CASE pc = "callback"
    <3>1. ASSUME ~disturbed' PROVE NotBefore(timers', -NSec)
      <4>1. ~disturbed /\ NotBefore(ts, -NSec)
        BY <1>1, <2>3, <3>1 DEF Punctual
      <4>2. get_relative_time >= -NSec
        BY <1>4, <2>3, <4>1 DEF CallbackTimer
      <4> QED
        BY <1>3, <1>4, <1>6, <1>7, <4>1, <4>2 DEF NotBefore
    <3> QED
      BY <1>1, <2>3, <3>1 DEF Punctual
  <2> QED
    BY <2>2, <2>3
<1> QED
  BY <1>11, <1>12, <1>13, <1>14 DEF IInv

\* A free timer that is allocated, disabled yet.
LEMMA AllocatedKeeps ==
  ASSUME IInv, pc \in {"slice", "callback"}, free # <<>>,
         NEW ts \in [Timers -> TimerRecord],
         \A u \in Timers : u # Head(free) => ts[u] = timers[u],
         ts[Head(free)].tag \in Tags, ts[Head(free)].expire = TIME_NEVER,
         ~ts[Head(free)].enabled
  PROVE  LET t == Head(free)
             o == Inserted(order, ts, t)
         IN  /\ t \in Timers /\ t # Refresh /\ ts[t].tag # NoTag
             /\ Consistent(ts, o, Tail(free), due, offset)
             /\ CallbackTimer(ts) /\ Punctual(ts, o) /\ Head(order) = o[1]
<1> DEFINE t == Head(free)
           o == Inserted(order, ts, t)
<1>1. /\ Consistent(timers, order, free, due, offset) /\ CallbackTimer(timers)
      /\ Punctual(timers, order) /\ timers \in [Timers -> TimerRecord]
      /\ free \in Seq(Timers) /\ Distinct(free)
  BY DEF IInv, Consistent, Lists
<1>2. /\ t \in Timers /\ timers[t].tag = NoTag /\ t # Refresh
      /\ Consistent(ts, o, Tail(free), due, offset)
      /\ o[1] = order[1]
  BY <1>1, AllocIsConsistent
<1>3. \A u \in Timers : u # t => ts[u] = timers[u]
  OBVIOUS
<1>4. ts[t].tag # NoTag /\ ts[t].expire = TIME_NEVER /\ ~ts[t].enabled
  BY ConstantTypes
<1>5. Head(order) = order[1] /\ order[1] \in Timers /\ order[1] # t
  BY <1>1, <1>2, ListHasAHead
<1> HIDE DEF t, o
<1>6. CallbackTimer(ts)
  <2> SUFFICES ASSUME pc = "callback" PROVE CallbackTimer(ts)
    BY DEF CallbackTimer
  <2>1. CASE callback_timer = t
    BY <1>1, <1>4, <2>1, Zenon DEF CallbackTimer
  <2>2. CASE callback_timer # t
    BY <1>1, <1>3, <2>2, Zenon DEF CallbackTimer
  <2> QED
    BY <2>1, <2>2
<1>7. Punctual(ts, o)
  <2>1. ASSUME NEW time, NotBefore(timers, time) PROVE NotBefore(ts, time)
    BY <1>3, <1>4, <2>1, Zenon DEF NotBefore
  <2>2. ts[o[1]] = timers[order[1]]
    BY <1>2, <1>3, <1>5
  <2> QED
    BY <1>1, <2>1, <2>2, Zenon DEF Punctual
<1> QED
  BY <1>2, <1>4, <1>5, <1>6, <1>7 DEF t, o

\* A timer that is allocated is disabled and does not expire.
LEMMA NewTimerIsATimer ==
  ASSUME NEW tag \in Tags, NEW temporary \in BOOLEAN, NEW r,
         \/ r = [NewTimer(tag) EXCEPT !.handle = TRUE]
         \/ r = [NewTimer(tag) EXCEPT !.temporary = temporary]
  PROVE  r \in TimerRecord /\ r.tag \in Tags /\ r.expire = TIME_NEVER /\ ~r.enabled
<1>1. FreeTimer \in TimerRecord /\ FreeTimer.expire = TIME_NEVER /\ ~FreeTimer.enabled
  <2>1. 0 \in Periods \cup {0, RefreshPeriod} /\ NoTag \in Tags \cup {RefreshTag, NoTag}
        /\ TIME_NEVER \in Int
    BY ConstantTypes
  <2> QED
    BY <2>1 DEF FreeTimer, TimerRecord
<1>2. /\ NewTimer(tag) \in TimerRecord /\ NewTimer(tag).tag = tag
      /\ NewTimer(tag).expire = TIME_NEVER /\ ~NewTimer(tag).enabled
  BY <1>1 DEF NewTimer, TimerRecord
<1>3. CASE r = [NewTimer(tag) EXCEPT !.handle = TRUE]
  BY <1>2, <1>3 DEF TimerRecord
<1>4. CASE r = [NewTimer(tag) EXCEPT !.temporary = temporary]
  BY <1>2, <1>4 DEF TimerRecord
<1> QED
  BY <1>3, <1>4

\* timer_alloc keeps the invariant.
LEMMA AllocKeeps == IInv /\ timer_alloc => IInv'
<1> SUFFICES ASSUME IInv, timer_alloc PROVE IInv'
  OBVIOUS
<1> DEFINE t == Head(free)
<1>1. /\ pc \in {"slice", "callback"} /\ timer_ops' = timer_ops + 1 /\ free # <<>>
      /\ order' = Inserted(order, timers', t) /\ free' = Tail(free)
      /\ pc' = pc /\ due' = due /\ called' = called /\ disturbed' = disturbed
      /\ callback_timer' = callback_timer /\ callback_timer_modified' = callback_timer_modified
      /\ callback_timer_expire_time' = callback_timer_expire_time
      /\ local' = local /\ slice' = slice /\ offset' = offset
  BY DEF timer_alloc, Calls, callback, clock
<1>2. PICK tag \in Tags : timers' = [timers EXCEPT ![t] = [NewTimer(tag) EXCEPT !.handle = TRUE]]
  BY DEF timer_alloc
<1> DEFINE r == [NewTimer(tag) EXCEPT !.handle = TRUE]
<1>3. r \in TimerRecord /\ r.tag \in Tags /\ r.expire = TIME_NEVER /\ ~r.enabled
  BY NewTimerIsATimer
<1>4. timers \in [Timers -> TimerRecord] /\ t \in Timers
  <2>1. timers \in [Timers -> TimerRecord] /\ free \in Seq(Timers) /\ Distinct(free)
    BY DEF IInv, Consistent, Lists
  <2> QED
    BY <1>1, <2>1, TailOfList
<1> HIDE DEF t, r
<1>5. /\ timers' \in [Timers -> TimerRecord] /\ timers'[t] = r
      /\ \A u \in Timers : u # t => timers'[u] = timers[u]
  BY <1>2, <1>3, <1>4 DEF r
<1>6. timers'[t].tag \in Tags /\ timers'[t].expire = TIME_NEVER /\ ~timers'[t].enabled
  BY <1>3, <1>5, Zenon
<1>7. /\ Consistent(timers', order', free', due, offset)
      /\ CallbackTimer(timers') /\ Punctual(timers', order')
  BY <1>1, <1>5, <1>6, AllocatedKeeps DEF t
<1>8. Types'
  BY <1>1 DEF IInv, Types
<1>9. CallbackTimer(timers)' /\ Punctual(timers, order)'
  BY <1>1, <1>7, Zenon DEF CallbackTimer, Punctual
<1> QED
  BY <1>1, <1>7, <1>8, <1>9, Zenon DEF IInv

\* timer_set and timer_pulse keep the invariant.
LEMMA StartedKeeps ==
  ASSUME IInv, Calls, NEW temporary \in BOOLEAN, NEW duration \in Durations \cup Periods,
         NEW period \in Periods \cup {0}, Started(temporary, duration, period)
  PROVE  IInv'
<1> DEFINE t == Head(free)
<1>1. pc \in {"slice", "callback"} /\ timer_ops' \in Nat /\ free # <<>> /\ free' = Tail(free)
  BY DEF Calls, IInv, Types, Started
<1> DEFINE r(tag)  == [NewTimer(tag) EXCEPT !.temporary = temporary]
           ts(tag) == [timers EXCEPT ![t] = r(tag)]
<1>2. PICK tag \in Tags :
        Adjusted(ts(tag), Inserted(order, ts(tag), t), t, duration, period)
  BY DEF Started
<1>3. /\ r(tag) \in TimerRecord /\ r(tag).tag \in Tags /\ r(tag).expire = TIME_NEVER
      /\ ~r(tag).enabled
  BY NewTimerIsATimer
<1>4. timers \in [Timers -> TimerRecord] /\ t \in Timers
  <2>1. timers \in [Timers -> TimerRecord] /\ free \in Seq(Timers) /\ Distinct(free)
    BY DEF IInv, Consistent, Lists
  <2> QED
    BY <1>1, <2>1, TailOfList
<1> HIDE DEF t, r
<1>5. /\ ts(tag) \in [Timers -> TimerRecord] /\ ts(tag)[t] = r(tag)
      /\ \A u \in Timers : u # t => ts(tag)[u] = timers[u]
  BY <1>3, <1>4
<1>6. /\ ts(tag)[t].tag \in Tags /\ ts(tag)[t].expire = TIME_NEVER /\ ~ts(tag)[t].enabled
  BY <1>3, <1>5, Zenon
<1> HIDE DEF ts
<1> DEFINE o == Inserted(order, ts(tag), t)
<1>7. /\ t # Refresh /\ ts(tag)[t].tag # NoTag
      /\ Consistent(ts(tag), o, Tail(free), due, offset)
      /\ CallbackTimer(ts(tag)) /\ Punctual(ts(tag), o) /\ Head(order) = o[1]
  BY <1>1, <1>5, <1>6, AllocatedKeeps DEF t
<1> HIDE DEF o
<1>8. Adjusted(ts(tag), o, t, duration, period) /\ Types
  BY <1>2 DEF o, IInv
<1> QED
  BY <1>1, <1>4, <1>7, <1>8, AdjustedKeeps

\* What a program knows is in the list, and is not Refresh.
LEMMA HandleIsInTheList ==
  ASSUME IInv, NEW t \in Timers, timers[t].handle
  PROVE  t # Refresh /\ timers[t].tag # NoTag /\ timers[t].period \in Periods \cup {0, RefreshPeriod}
<1>1. t # Refresh /\ timers[t].tag # NoTag
  BY Zenon DEF IInv, Consistent, Lists, RefreshGoesOn
<1>2. timers[t] \in TimerRecord
  BY DEF IInv, Consistent
<1> QED
  BY <1>1, <1>2 DEF TimerRecord

\* timer_adjust and timer_reset keep the invariant.
LEMMA AdjustKeeps ==
  ASSUME IInv, Calls, NEW t \in Timers, timers[t].handle, NEW duration \in Durations,
         NEW period \in Periods \cup {0, RefreshPeriod},
         Adjusted(timers, order, t, duration, period), free' = free
  PROVE  IInv'
<1>1. pc \in {"slice", "callback"} /\ timer_ops' \in Nat
  BY DEF Calls, IInv, Types
<1>2. /\ Types /\ Consistent(timers, order, free, due, offset)
      /\ CallbackTimer(timers) /\ Punctual(timers, order)
  BY DEF IInv
<1>3. t # Refresh /\ timers[t].tag # NoTag /\ Head(order) = order[1]
  BY <1>2, HandleIsInTheList, ListHasAHead
<1> QED
  BY <1>1, <1>2, <1>3, AdjustedKeeps

\* timer_enable keeps the invariant: it does not end the slice, but no slice
\* goes on as if nothing had been done.
LEMMA EnableKeeps == IInv /\ timer_enable => IInv'
<1> SUFFICES ASSUME IInv, timer_enable PROVE IInv'
  OBVIOUS
<1>1. PICK t \in Timers, enable \in BOOLEAN :
        /\ timers[t].handle
        /\ timers' = [timers EXCEPT ![t].enabled = enable]
        /\ order' = Moved(order, timers', t)
        /\ disturbed' = (disturbed \/ enable \/ FirstTakenAway)
  BY DEF timer_enable
<1>2. /\ pc \in {"slice", "callback"} /\ timer_ops' = timer_ops + 1
      /\ free' = free /\ pc' = pc /\ due' = due /\ called' = called
      /\ callback_timer' = callback_timer /\ callback_timer_modified' = callback_timer_modified
      /\ callback_timer_expire_time' = callback_timer_expire_time
      /\ local' = local /\ slice' = slice /\ offset' = offset
  BY DEF timer_enable, Calls, callback, clock
<1>3. /\ Types /\ Consistent(timers, order, free, due, offset)
      /\ CallbackTimer(timers) /\ Punctual(timers, order)
      /\ timers \in [Timers -> TimerRecord] /\ RefreshGoesOn(timers)
  BY DEF IInv, Consistent
<1>4. t # Refresh /\ timers[t].tag # NoTag
  BY <1>1, HandleIsInTheList
<1>5. /\ timers' \in [Timers -> TimerRecord]
      /\ timers'[t].enabled = enable /\ timers'[t].tag = timers[t].tag
      /\ timers'[t].expire = timers[t].expire /\ timers'[t].temporary = timers[t].temporary
      /\ \A u \in Timers : u # t => timers'[u] = timers[u]
  <2>1. timers[t] \in TimerRecord
    BY <1>3
  <2>2. [timers[t] EXCEPT !.enabled = enable] \in TimerRecord
    BY <2>1 DEF TimerRecord
  <2> QED
    BY <1>1, <1>3, <2>1, <2>2 DEF TimerRecord
<1>6. \A u \in Timers : /\ timers'[u].tag = timers[u].tag
                        /\ timers'[u].expire = timers[u].expire
                        /\ timers'[u].temporary = timers[u].temporary
  BY <1>5, Zenon
<1>7. TimeFits(timers', t, due, offset)
  <2>1. OnTime(timers, due, offset)
    BY <1>3 DEF Consistent
  <2> QED
    BY <1>4, <1>6, <2>1, Zenon DEF OnTime, TimeFits
<1>8. RefreshGoesOn(timers')
  BY <1>3, <1>4, <1>5, ConstantTypes, Zenon DEF RefreshGoesOn
<1>9. Consistent(timers', order', free, due, offset)
  BY <1>1, <1>3, <1>4, <1>5, <1>7, <1>8, MovedIsConsistent
<1>10. Types'
  BY <1>1, <1>2, <1>3 DEF Types
<1>11. CallbackTimer(timers)'
  <2> SUFFICES ASSUME pc = "callback" PROVE CallbackTimer(timers)'
    BY <1>2 DEF CallbackTimer
  <2>1. callback_timer \in Timers /\ (disturbed => disturbed')
    BY <1>1, <1>3 DEF CallbackTimer
  <2> QED
    BY <1>2, <1>3, <1>6, <2>1, Zenon DEF CallbackTimer
<1>12. Punctual(timers, order)'
  <2>1. ASSUME ~disturbed' PROVE ~disturbed /\ ~enable /\ ~FirstTakenAway
    BY <1>1, <2>1
  <2>2. ASSUME NEW time, NotBefore(timers, time), ~disturbed' PROVE NotBefore(timers', time)
    BY <1>5, <1>6, <2>1, <2>2, Zenon DEF NotBefore
  <2>3. Head(order) = order[1] /\ Head(order') = order'[1] /\ order[1] \in Timers
    BY <1>3, <1>9, ListHasAHead
  <2>4. ASSUME pc = "slice", ~disturbed' PROVE slice <= timers'[order'[1]].expire
    <3>1. order'[1] = order[1]
      BY <2>1, <2>3, <2>4 DEF FirstTakenAway
    <3>2. timers'[order'[1]].expire = timers[order[1]].expire
      BY <1>6, <2>3, <3>1
    <3> QED
      BY <1>3, <2>1, <2>4, <3>2 DEF Punctual
  <2> QED
    BY <1>2, <1>3, <2>1, <2>2, <2>4, Zenon DEF Punctual
<1> QED
  BY <1>2, <1>9, <1>10, <1>11, <1>12, Zenon DEF IInv

\* A timer behind the free ones.
LEMMA FreeAtTheEnd ==
  ASSUME NEW f \in Seq(Timers), Distinct(f), NEW t \in Timers, ~In(f, t)
  PROVE  /\ Append(f, t) \in Seq(Timers) /\ Distinct(Append(f, t))
         /\ \A u : In(Append(f, t), u) <=> In(f, u) \/ u \in {t}
<1> DEFINE g == Append(f, t)
<1>1. /\ Len(f) \in Nat /\ g \in Seq(Timers) /\ Len(g) = Len(f) + 1 /\ g[Len(f) + 1] = t
      /\ \A i \in 1 .. Len(f) : g[i] = f[i]
  BY LenProperties, AppendProperties
<1> HIDE DEF g
<1>2. \A i \in 1 .. Len(f) : i \in 1 .. Len(g) /\ g[i] = f[i]
  BY <1>1
<1>3. \A i \in 1 .. Len(g) : i \in 1 .. Len(f) \/ i = Len(f) + 1
  BY <1>1
<1>4. Len(f) + 1 \in 1 .. Len(g)
  BY <1>1
<1>5. \A u : In(g, u) <=> In(f, u) \/ u \in {t}
  <2>1. \A u : In(g, u) => In(f, u) \/ u \in {t}
    BY <1>1, <1>3, Zenon DEF In
  <2>2. \A u : In(f, u) => In(g, u)
    BY <1>2, Zenon DEF In
  <2>3. In(g, t)
    BY <1>1, <1>4, Zenon DEF In
  <2> QED
    BY <2>1, <2>2, <2>3
<1>6. Distinct(g)
  <2> SUFFICES ASSUME NEW i \in 1 .. Len(g), NEW j \in 1 .. Len(g), g[i] = g[j] PROVE i = j
    BY DEF Distinct
  <2>1. \A k \in 1 .. Len(f) : g[k] # t
    BY <1>2, Zenon DEF In
  <2>2. CASE i \in 1 .. Len(f) /\ j \in 1 .. Len(f)
    BY <1>2, <2>2, Zenon DEF Distinct
  <2> QED
    BY <1>1, <1>3, <2>1, <2>2, Zenon
<1> QED
  BY <1>1, <1>5, <1>6 DEF g

\* What programs take from the list.
LEMMA GoneKeeps ==
  ASSUME IInv, pc \in {"slice", "callback"},
         NEW gone \in SUBSET Timers, \A u \in gone : timers[u].tag # NoTag, Refresh \notin gone,
         \A u \in gone : OwnTimer(u) => timers[u].temporary,
         timers' = [u \in Timers |-> IF u \in gone THEN Freed(timers[u]) ELSE timers[u]],
         order' = Without(order, gone),
         free' \in Seq(Timers), Distinct(free'),
         \A u \in Timers : In(free', u) <=> In(free, u) \/ u \in gone,
         disturbed' = (disturbed \/ FirstTakenAway),
         UNCHANGED <<pc, callback, clock, due, called>>, timer_ops' \in Nat
  PROVE  IInv'
<1>1. /\ pc' = pc /\ due' = due /\ called' = called
      /\ callback_timer' = callback_timer /\ callback_timer_modified' = callback_timer_modified
      /\ callback_timer_expire_time' = callback_timer_expire_time
      /\ local' = local /\ slice' = slice /\ offset' = offset
  BY DEF callback, clock
<1>2. /\ Types /\ Consistent(timers, order, free, due, offset)
      /\ CallbackTimer(timers) /\ Punctual(timers, order)
      /\ \A u \in Timers : timers[u] \in TimerRecord
  BY DEF IInv, Consistent
<1>3. Consistent(timers', order', free', due, offset)
  BY <1>2, RemoveIsConsistent
<1>4. /\ \A u \in gone : timers'[u].tag = NoTag /\ timers'[u].temporary = timers[u].temporary
      /\ \A u \in Timers : u \notin gone => timers'[u] = timers[u]
  BY <1>2 DEF Freed, TimerRecord
<1>5. Types'
  BY <1>1, <1>2 DEF Types
<1>6. CallbackTimer(timers)'
  <2> SUFFICES ASSUME pc = "callback" PROVE CallbackTimer(timers)'
    BY <1>1 DEF CallbackTimer
  <2>1. callback_timer \in Timers /\ (disturbed => disturbed')
    BY <1>2 DEF CallbackTimer
  <2>2. CASE callback_timer \in gone
    <3>1. timers'[callback_timer].temporary /\ timers'[callback_timer].tag = NoTag
      BY <1>4, <2>2 DEF OwnTimer
    <3> QED
      BY <1>1, <1>2, <2>1, <3>1, Zenon DEF CallbackTimer
  <2>3. CASE callback_timer \notin gone
    <3>1. timers'[callback_timer] = timers[callback_timer]
      BY <1>4, <2>1, <2>3, Zenon
    <3> QED
      BY <1>1, <1>2, <2>1, <3>1, Zenon DEF CallbackTimer
  <2> QED
    BY <2>2, <2>3
<1>7. Punctual(timers, order)'
  <2>1. ASSUME NEW time, NotBefore(timers, time) PROVE NotBefore(timers', time)
    BY <1>4, <2>1, Zenon DEF NotBefore
  <2>2. /\ Head(order) = order[1] /\ Head(order') = order'[1] /\ order'[1] \in Timers
        /\ timers'[order'[1]].tag # NoTag
    BY <1>2, <1>3, ListHasAHead
  <2>3. ASSUME pc = "slice", ~disturbed' PROVE slice <= timers'[order'[1]].expire /\ ~disturbed
    <3>1. order'[1] = order[1] /\ ~disturbed
      BY <2>2, <2>3 DEF FirstTakenAway
    <3>2. timers'[order'[1]] = timers[order[1]]
      BY <1>4, <2>2, <3>1, Zenon
    <3> QED
      BY <1>2, <2>3, <3>1, <3>2 DEF Punctual
  <2> QED
    BY <1>1, <1>2, <2>1, <2>3, Zenon DEF Punctual
<1> QED
  BY <1>1, <1>3, <1>5, <1>6, <1>7, Zenon DEF IInv

\* What timer_remove leaves is a state GoneKeeps is about.
LEMMA RemovedIsGone ==
  ASSUME IInv, NEW t \in Timers, timers[t].tag # NoTag, Removed(t)
  PROVE  LET gone == {t}
         IN  /\ \A u \in gone : timers[u].tag # NoTag
             /\ timers' = [u \in Timers |-> IF u \in gone THEN Freed(timers[u]) ELSE timers[u]]
             /\ order' = Without(order, gone)
             /\ free' \in Seq(Timers) /\ Distinct(free')
             /\ \A u \in Timers : In(free', u) <=> In(free, u) \/ u \in gone
<1>1. /\ timers' = [timers EXCEPT ![t] = Freed(@)]
      /\ order' = Without(order, {t}) /\ free' = Append(free, t)
  BY DEF Removed
<1>2. /\ timers \in [Timers -> TimerRecord] /\ free \in Seq(Timers) /\ Distinct(free)
      /\ ~In(free, t)
  BY DEF IInv, Consistent, Lists
<1>3. /\ free' \in Seq(Timers) /\ Distinct(free')
      /\ \A u : In(free', u) <=> In(free, u) \/ u \in {t}
  BY <1>1, <1>2, FreeAtTheEnd
<1>4. timers' = [u \in Timers |-> IF u \in {t} THEN Freed(timers[u]) ELSE timers[u]]
  BY <1>1, <1>2
<1> QED
  BY <1>1, <1>3, <1>4

\* timer_remove keeps the invariant.
LEMMA RemoveKeeps == IInv /\ timer_remove => IInv'
<1> SUFFICES ASSUME IInv, timer_remove PROVE IInv'
  OBVIOUS
<1>1. PICK t \in Timers : timers[t].handle /\ ~OwnTimer(t) /\ Removed(t)
  BY DEF timer_remove
<1>2. /\ pc \in {"slice", "callback"} /\ timer_ops' \in Nat
      /\ disturbed' = (disturbed \/ FirstTakenAway)
      /\ UNCHANGED <<pc, callback, clock, due, called>>
  BY DEF timer_remove, Calls, IInv, Types
<1>3. t # Refresh /\ timers[t].tag # NoTag
  BY <1>1, HandleIsInTheList
<1>4. \A u \in {t} : OwnTimer(u) => timers[u].temporary
  BY <1>1
<1>5. Refresh \notin {t} /\ {t} \in SUBSET Timers
  BY <1>3
<1> DEFINE gone == {t}
<1>6. /\ \A u \in gone : timers[u].tag # NoTag
      /\ timers' = [u \in Timers |-> IF u \in gone THEN Freed(timers[u]) ELSE timers[u]]
      /\ order' = Without(order, gone)
      /\ free' \in Seq(Timers) /\ Distinct(free')
      /\ \A u \in Timers : In(free', u) <=> In(free, u) \/ u \in gone
  BY <1>1, <1>3, RemovedIsGone
<1> HIDE DEF gone
<1>7. /\ gone \in SUBSET Timers /\ Refresh \notin gone
      /\ \A u \in gone : OwnTimer(u) => timers[u].temporary
  BY <1>4, <1>5 DEF gone
<1> QED
  BY <1>2, <1>6, <1>7, GoneKeeps

\* timer_free keeps the invariant.
LEMMA FreeKeeps == IInv /\ timer_free => IInv'
<1> SUFFICES ASSUME IInv, timer_free PROVE IInv'
  OBVIOUS
<1>1. PICK tag \in Tags :
        LET gone == {t \in Timers : timers[t].tag = tag}
        IN  /\ \A t \in gone : OwnTimer(t) => timers[t].temporary
            /\ timers' = [t \in Timers |-> IF t \in gone THEN Freed(timers[t]) ELSE timers[t]]
            /\ order' = Without(order, gone)
            /\ free' = free \o Without(order, Timers \ gone)
  BY DEF timer_free
<1> DEFINE gone == {t \in Timers : timers[t].tag = tag}
           freed == Without(order, Timers \ gone)
<1>2. /\ \A t \in gone : OwnTimer(t) => timers[t].temporary
      /\ timers' = [t \in Timers |-> IF t \in gone THEN Freed(timers[t]) ELSE timers[t]]
      /\ order' = Without(order, gone)
      /\ free' = free \o freed
  BY <1>1, Zenon
<1>3. /\ pc \in {"slice", "callback"} /\ timer_ops' \in Nat
      /\ disturbed' = (disturbed \/ FirstTakenAway)
      /\ UNCHANGED <<pc, callback, clock, due, called>>
  BY DEF timer_free, Calls, IInv, Types
<1>4. /\ Consistent(timers, order, free, due, offset) /\ RefreshGoesOn(timers)
      /\ order \in Seq(Timers) /\ free \in Seq(Timers) /\ Distinct(order) /\ Distinct(free)
      /\ \A t \in Timers : /\ timers[t].tag = NoTag <=> In(free, t)
                           /\ timers[t].tag # NoTag <=> In(order, t)
  BY Zenon DEF IInv, Consistent, Lists
<1>5. /\ gone \in SUBSET Timers /\ Refresh \notin gone
      /\ \A u \in gone : timers[u].tag # NoTag
  BY <1>4, ConstantTypes DEF RefreshGoesOn
<1> HIDE DEF gone
<1>6. /\ freed \in Seq(Timers) /\ Distinct(freed)
      /\ \A u : In(freed, u) <=> In(order, u) /\ u \notin Timers \ gone
  BY <1>4, WithoutSome
<1> HIDE DEF freed
<1>7. \A u : In(order, u) => u \in Timers
  BY <1>4, ElementOfSeq DEF In
<1>8. \A u : In(freed, u) <=> u \in gone
  BY <1>4, <1>5, <1>6, <1>7
<1>9. \A u : ~(In(free, u) /\ In(freed, u))
  BY <1>4, <1>5, <1>8
<1>10. /\ free' \in Seq(Timers) /\ Distinct(free')
       /\ \A u \in Timers : In(free', u) <=> In(free, u) \/ u \in gone
  <2>1. /\ free \o freed \in Seq(Timers) /\ Distinct(free \o freed)
        /\ \A u : In(free \o freed, u) <=> In(free, u) \/ In(freed, u)
    BY <1>4, <1>6, <1>9, ListsJoined
  <2> QED
    BY <1>2, <1>8, <2>1, Zenon
<1> QED
  BY <1>2, <1>3, <1>5, <1>10, GoneKeeps

\* Which timers are in the lists is a matter of their tags.
LEMMA ListsOfTheSame ==
  ASSUME NEW ts, NEW o, NEW f, Lists(ts, o, f), NEW ts2,
         \A u \in Timers : ts2[u].tag = ts[u].tag /\ ts2[u].handle = ts[u].handle
  PROVE  Lists(ts2, o, f)
<1>1. ASSUME NEW u \in Timers
      PROVE  /\ ts2[u].tag = NoTag <=> In(f, u)
             /\ ts2[u].tag # NoTag <=> In(o, u)
             /\ ts2[u].handle => ts2[u].tag # NoTag
  <2>1. /\ ts[u].tag = NoTag <=> In(f, u)
        /\ ts[u].tag # NoTag <=> In(o, u)
        /\ ts[u].handle => ts[u].tag # NoTag
    BY Zenon DEF Lists
  <2>2. ts2[u].tag = ts[u].tag /\ ts2[u].handle = ts[u].handle
    OBVIOUS
  <2> QED
    BY <2>1, <2>2, Zenon
<1> QED
  BY <1>1, Zenon DEF Lists

\* A timer that comes again a period later: it was called, passed over or is
\* disabled, and before that it was due soon or never.
LEMMA RescheduledIsConsistent ==
  ASSUME IInv, pc # "slice", NEW t \in Timers, timers[t].tag # NoTag,
         timers[t].expire < NSec \/ timers[t].expire = TIME_NEVER,
         Rescheduled(timers, t)
  PROVE  /\ Consistent(timers', order', free', due', offset)
         /\ due' \in [Timers -> Int]
         /\ ~disturbed /\ (timers[t].enabled => timers[t].expire >= -NSec) =>
              NotBefore(timers', -NSec)
<1> DEFINE timer == Later(timers[t], timers[t].period)
<1>1. /\ timers' = [timers EXCEPT ![t] = timer]
      /\ order' = Moved(order, timers', t)
      /\ due' = [due EXCEPT ![t] = due[t] + timers[t].period] /\ free' = free
  BY DEF Rescheduled
<1>2. /\ Consistent(timers, order, free, due, offset) /\ Punctual(timers, order)
      /\ timers \in [Timers -> TimerRecord] /\ RefreshGoesOn(timers)
      /\ OnTime(timers, due, offset) /\ due \in [Timers -> Int] /\ offset \in Nat
  BY DEF IInv, Types, Consistent
<1>3. timers[t] \in TimerRecord /\ due[t] \in Int
  BY <1>2
<1>4. /\ timers[t].period \in Nat /\ timers[t].expire \in Int
      /\ timers[t].period + 2 * NSec < TIME_NEVER /\ NSec \in Nat /\ TIME_NEVER \in Nat
  <2>1. timers[t].period \in Periods \cup {0, RefreshPeriod} /\ timers[t].expire \in Int
    BY <1>3 DEF TimerRecord
  <2> QED
    BY <2>1, ConstantTypes
<1>5. /\ timer \in TimerRecord /\ timer.tag = timers[t].tag /\ timer.enabled = timers[t].enabled
      /\ timer.temporary = timers[t].temporary /\ timer.handle = timers[t].handle
      /\ timer.period = timers[t].period
      /\ timer.expire = IF timers[t].expire = TIME_NEVER THEN TIME_NEVER
                        ELSE timers[t].expire + timers[t].period
  <2> DEFINE e == IF timers[t].expire = TIME_NEVER THEN timers[t].expire
                  ELSE timers[t].expire + timers[t].period
  <2>1. e \in Int
    BY <1>4
  <2>2. timer = [timers[t] EXCEPT !.expire = e]
    BY DEF Later
  <2>3. e = IF timers[t].expire = TIME_NEVER THEN TIME_NEVER
            ELSE timers[t].expire + timers[t].period
    OBVIOUS
  <2> HIDE DEF e, timer
  <2> QED
    BY <1>3, <2>1, <2>2, <2>3 DEF TimerRecord
<1> HIDE DEF timer
<1>6. /\ timers' \in [Timers -> TimerRecord] /\ timers'[t] = timer
      /\ \A u \in Timers : u # t => timers'[u] = timers[u]
      /\ due' \in [Timers -> Int] /\ due'[t] = due[t] + timers[t].period
      /\ \A u \in Timers : u # t => due'[u] = due[u]
  <2>1. due[t] + timers[t].period \in Int
    BY <1>3, <1>4
  <2> QED
    BY <1>1, <1>2, <1>5, <2>1
<1>7. TimeFits(timers', t, due', offset)
  <2>1. timers'[t].expire = timer.expire /\ due'[t] = due[t] + timers[t].period
    BY <1>6
  <2>2. \/ timers[t].expire = TIME_NEVER
        \/ timers[t].expire = due[t] - offset /\ timers[t].expire < NSec
    BY <1>2 DEF OnTime
  <2>3. \/ timer.expire = TIME_NEVER
        \/ /\ timer.expire = (due[t] + timers[t].period) - offset
           /\ timer.expire + NSec < TIME_NEVER
    BY <1>2, <1>3, <1>4, <1>5, <2>2
  <2> QED
    BY <2>1, <2>3 DEF TimeFits
<1>8. RefreshGoesOn(timers')
  <2>1. CASE t = Refresh
    BY <1>2, <1>5, <1>6, <2>1, Zenon DEF RefreshGoesOn
  <2>2. CASE t # Refresh
    BY <1>2, <1>6, <2>2, ConstantTypes, Zenon DEF RefreshGoesOn
  <2> QED
    BY <2>1, <2>2
<1>9. timers'[t].tag = timers[t].tag
  BY <1>5, <1>6, Zenon
<1>10. Consistent(timers', order', free', due', offset)
  <2>1. \A u \in Timers : u # t => timers'[u] = timers[u] /\ due'[u] = due[u]
    BY <1>6
  <2>2. Consistent(timers', order', free, due', offset)
    BY <1>1, <1>2, <1>6, <1>7, <1>8, <1>9, <2>1, MovedIsConsistent
  <2> QED
    BY <1>1, <2>2
<1>11. ASSUME ~disturbed, timers[t].enabled => timers[t].expire >= -NSec
       PROVE  NotBefore(timers', -NSec)
  <2>1. NotBefore(timers, -NSec)
    BY <1>2, <1>11 DEF Punctual
  <2>2. timers'[t].enabled => timers'[t].expire >= -NSec
    <3>1. timer.enabled => timer.expire >= -NSec
      BY <1>4, <1>5, <1>11
    <3> QED
      BY <1>6, <3>1
  <2> QED
    BY <1>6, <2>1, <2>2, Zenon DEF NotBefore
<1> QED
  BY <1>6, <1>10, <1>11

\* Run keeps the invariant.
LEMMA RunKeeps == IInv /\ Run => IInv'
<1> SUFFICES ASSUME IInv, Run PROVE IInv'
  OBVIOUS
<1>1. /\ pc = "slice" /\ local < slice /\ offset + local < MaxTime /\ local' = local + 1
      /\ timers' = timers /\ order' = order /\ free' = free
      /\ pc' = pc /\ due' = due /\ called' = called /\ disturbed' = disturbed
      /\ timer_ops' = timer_ops
      /\ callback_timer' = callback_timer /\ callback_timer_modified' = callback_timer_modified
      /\ callback_timer_expire_time' = callback_timer_expire_time
      /\ slice' = slice /\ offset' = offset
  BY DEF Run, list, callback
<1>2. /\ Types /\ Consistent(timers, order, free, due, offset)
      /\ CallbackTimer(timers) /\ Punctual(timers, order)
  BY DEF IInv
<1>3. Types'
  BY <1>1, <1>2, ConstantTypes DEF Types
<1>4. Punctual(timers, order)'
  <2>1. local' <= slice'
    BY <1>1, <1>2 DEF Types
  <2> QED
    BY <1>1, <1>2, <2>1, Zenon DEF Punctual
<1>5. CallbackTimer(timers)'
  BY <1>1 DEF CallbackTimer
<1> QED
  BY <1>1, <1>2, <1>3, <1>4, <1>5, Zenon DEF IInv

\* timer_adjust_global_time keeps the invariant up to its loop: all timers
\* come nearer by what the slice took.
LEMMA AdjustGlobalTimeKeeps == IInv /\ timer_adjust_global_time => IInv'
<1> SUFFICES ASSUME IInv, timer_adjust_global_time PROVE IInv'
  OBVIOUS
<1>1. /\ pc = "slice" /\ offset' = offset + local /\ pc' = "loop" /\ local' = 0
      /\ timers' = [t \in Timers |-> IF timers[t].tag = NoTag THEN timers[t]
                                     ELSE Later(timers[t], -local)]
      /\ order' = order /\ free' = free
      /\ due' = due /\ called' = called /\ disturbed' = disturbed /\ timer_ops' = timer_ops
      /\ callback_timer' = callback_timer /\ callback_timer_modified' = callback_timer_modified
      /\ callback_timer_expire_time' = callback_timer_expire_time /\ slice' = slice
  BY DEF timer_adjust_global_time, list, callback
<1>2. /\ Types /\ Consistent(timers, order, free, due, offset)
      /\ Punctual(timers, order) /\ timers \in [Timers -> TimerRecord]
      /\ Lists(timers, order, free) /\ SortedBy(order, timers) /\ OnTime(timers, due, offset)
      /\ RefreshGoesOn(timers) /\ order \in Seq(Timers) /\ free \in Seq(Timers)
  BY DEF IInv, Consistent
<1>3. /\ local \in Nat /\ offset \in Nat /\ offset + local <= MaxTime /\ slice \in Int
      /\ due \in [Timers -> Int]
  BY <1>2 DEF Types
<1>4. ASSUME NEW t \in Timers
      PROVE  /\ timers'[t] \in TimerRecord
             /\ timers'[t].enabled = timers[t].enabled /\ timers'[t].tag = timers[t].tag
             /\ timers'[t].temporary = timers[t].temporary
             /\ timers'[t].handle = timers[t].handle /\ timers'[t].period = timers[t].period
             /\ timers'[t].expire = IF timers[t].tag = NoTag \/ timers[t].expire = TIME_NEVER
                                    THEN timers[t].expire ELSE timers[t].expire - local
  <2> DEFINE e == IF timers[t].expire = TIME_NEVER THEN timers[t].expire
                  ELSE timers[t].expire + (-local)
  <2>1. timers[t] \in TimerRecord
    BY <1>2
  <2>2. timers[t].expire \in Int
    BY <2>1 DEF TimerRecord
  <2>3. /\ e \in Int
        /\ e = IF timers[t].expire = TIME_NEVER THEN timers[t].expire
               ELSE timers[t].expire - local
    BY <1>3, <2>2
  <2>4. Later(timers[t], -local) = [timers[t] EXCEPT !.expire = e]
    BY DEF Later
  <2>5. timers'[t] = IF timers[t].tag = NoTag THEN timers[t]
                     ELSE [timers[t] EXCEPT !.expire = e]
    BY <1>1, <2>4
  <2> HIDE DEF e
  <2>6. CASE timers[t].tag = NoTag
    BY <2>1, <2>5, <2>6
  <2>7. CASE timers[t].tag # NoTag
    <3>1. timers'[t] = [timers[t] EXCEPT !.expire = e]
      BY <2>5, <2>7
    <3>2. /\ timers'[t] \in TimerRecord
          /\ timers'[t].enabled = timers[t].enabled /\ timers'[t].tag = timers[t].tag
          /\ timers'[t].temporary = timers[t].temporary
          /\ timers'[t].handle = timers[t].handle /\ timers'[t].period = timers[t].period
          /\ timers'[t].expire = e
      BY <2>1, <2>3, <3>1 DEF TimerRecord
    <3> QED
      BY <2>3, <2>7, <3>2
  <2> QED
    BY <2>6, <2>7
<1>5. timers' \in [Timers -> TimerRecord]
  <2>1. DOMAIN timers' = Timers /\ timers' = [t \in Timers |-> timers'[t]]
    BY <1>1
  <2> QED
    BY <1>4, <2>1
<1>6. Lists(timers', order, free)
  BY <1>2, <1>4, ListsOfTheSame
<1>7. \A t \in Timers : timers[t].tag # NoTag =>
        /\ timers[t].expire \in Int /\ timers[t].expire <= TIME_NEVER
        /\ timers[t].expire = TIME_NEVER \/ timers[t].expire + NSec < TIME_NEVER
        /\ timers'[t].expire = IF timers[t].expire = TIME_NEVER THEN TIME_NEVER
                               ELSE timers[t].expire - local
  BY <1>2, <1>4, ListHasAHead DEF OnTime
<1>8. SortedBy(order, timers')
  <2> SUFFICES ASSUME NEW i \in 1 .. Len(order), NEW j \in 1 .. Len(order), i < j,
                      timers'[order[j]].enabled
               PROVE  timers'[order[i]].expire <= timers'[order[j]].expire + NSec
    BY DEF SortedBy
  <2>1. /\ order[i] \in Timers /\ order[j] \in Timers
        /\ In(order, order[i]) /\ In(order, order[j])
    BY <1>2, ElementOfSeq DEF In
  <2>2. timers[order[i]].tag # NoTag /\ timers[order[j]].tag # NoTag
    BY <1>2, <2>1, Zenon DEF Lists
  <2>3. timers[order[i]].expire <= timers[order[j]].expire + NSec
    BY <1>2, <1>4, <2>1 DEF SortedBy
  <2> DEFINE a == order[i]
             b == order[j]
  <2>4. /\ timers[a].expire \in Int /\ timers[a].expire <= TIME_NEVER
        /\ timers'[a].expire = IF timers[a].expire = TIME_NEVER THEN TIME_NEVER
                               ELSE timers[a].expire - local
    BY <1>7, <2>1, <2>2
  <2>5. /\ timers[b].expire \in Int
        /\ timers[b].expire = TIME_NEVER \/ timers[b].expire + NSec < TIME_NEVER
        /\ timers'[b].expire = IF timers[b].expire = TIME_NEVER THEN TIME_NEVER
                               ELSE timers[b].expire - local
    BY <1>7, <2>1, <2>2
  <2>6. timers[a].expire <= timers[b].expire + NSec
    BY <2>3
  <2> HIDE DEF a, b
  <2>7. timers'[a].expire <= timers'[b].expire + NSec
    <3>1. NSec \in Nat /\ TIME_NEVER \in Nat
      BY ConstantTypes
    <3>2. CASE timers[b].expire = TIME_NEVER
      <4>1. timers'[b].expire = TIME_NEVER
        BY <2>5, <3>2
      <4>2. timers'[a].expire \in Int /\ timers'[a].expire <= TIME_NEVER
        BY <1>3, <2>4, <3>1
      <4> QED
        BY <3>1, <4>1, <4>2
    <3>3. CASE timers[b].expire # TIME_NEVER
      <4>1. timers'[b].expire = timers[b].expire - local /\ timers[b].expire + NSec < TIME_NEVER
        BY <2>5, <3>3
      <4>2. timers[a].expire # TIME_NEVER
        BY <2>4, <2>5, <2>6, <3>1, <4>1
      <4>3. timers'[a].expire = timers[a].expire - local
        BY <2>4, <4>2
      <4>4. timers[a].expire - local <= (timers[b].expire - local) + NSec
        BY <1>3, <2>4, <2>5, <2>6, <3>1
      <4> QED
        BY <4>1, <4>3, <4>4
    <3> QED
      BY <3>2, <3>3
  <2> QED
    BY <2>7 DEF a, b
<1>9. OnTime(timers', due, offset')
  <2> SUFFICES ASSUME NEW t \in Timers, timers'[t].tag # NoTag
               PROVE  \/ timers'[t].expire = TIME_NEVER
                      \/ /\ timers'[t].expire = due[t] - offset'
                         /\ timers'[t].expire + NSec < TIME_NEVER
    BY DEF OnTime
  <2>1. timers[t].tag # NoTag
    BY <1>4
  <2>2. timers[t].expire = TIME_NEVER \/ timers[t].expire = due[t] - offset
    BY <1>2, <2>1 DEF OnTime
  <2>3. due[t] \in Int
    BY <1>3
  <2> QED
    BY <1>1, <1>3, <1>7, <2>1, <2>2, <2>3, ConstantTypes
<1>10. RefreshGoesOn(timers')
  BY <1>2, <1>4, ConstantTypes, Zenon DEF RefreshGoesOn
<1>11. Consistent(timers, order, free, due, offset)'
  BY <1>1, <1>2, <1>5, <1>6, <1>8, <1>9, <1>10, Zenon DEF Consistent
<1>12. Types'
  BY <1>1, <1>2 DEF Types
<1>13. CallbackTimer(timers)'
  BY <1>1 DEF CallbackTimer
<1>14. Punctual(timers, order)'
  <2>1. ASSUME ~disturbed PROVE NotBefore(timers', -NSec)
    <3>1. local <= slice /\ slice <= timers[order[1]].expire
      BY <1>1, <1>2, <2>1 DEF Punctual
    <3> SUFFICES ASSUME NEW t \in Timers, timers'[t].tag # NoTag, timers'[t].enabled
                 PROVE  timers'[t].expire >= -NSec
      BY DEF NotBefore
    <3>2. timers[t].tag # NoTag /\ timers[t].enabled
      BY <1>4
    <3>3. timers[order[1]].expire <= timers[t].expire + NSec /\ timers[order[1]].expire \in Int
      BY <1>2, <3>2, ListHasAHead
    <3>4. timers[t].expire >= local - NSec
      BY <1>3, <1>7, <3>1, <3>2, <3>3, ConstantTypes
    <3> QED
      BY <1>3, <1>7, <3>2, <3>4, ConstantTypes
  <2> QED
    BY <1>1, <2>1 DEF Punctual
<1> QED
  BY <1>11, <1>12, <1>13, <1>14, Zenon DEF IInv

\* Fire keeps the invariant.
LEMMA FireKeeps == IInv /\ Fire => IInv'
<1> SUFFICES ASSUME IInv, Fire PROVE IInv'
  OBVIOUS
<1> DEFINE t  == Head(order)
           r  == [timers[t] EXCEPT !.enabled = timers[t].enabled /\ timers[t].period # 0]
           ts == [timers EXCEPT ![t] = r]
<1>1. /\ pc = "loop" /\ timers[t].expire < NSec
      /\ IF timers[t].enabled
         THEN /\ timers' = ts
              /\ pc' = "callback"
              /\ callback_timer' = t
              /\ callback_timer_modified' = FALSE
              /\ callback_timer_expire_time' = timers[t].expire
              /\ called' = due[t]
              /\ order' = order /\ free' = free /\ due' = due
         ELSE /\ Rescheduled(ts, t)
              /\ pc' = pc /\ callback_timer' = callback_timer
              /\ callback_timer_modified' = callback_timer_modified
              /\ callback_timer_expire_time' = callback_timer_expire_time /\ called' = called
      /\ local' = local /\ slice' = slice /\ offset' = offset
      /\ disturbed' = disturbed /\ timer_ops' = timer_ops
  BY DEF Fire, Overdue, clock, callback, list
<1>2. /\ Types /\ Consistent(timers, order, free, due, offset)
      /\ Punctual(timers, order) /\ timers \in [Timers -> TimerRecord]
      /\ Lists(timers, order, free) /\ SortedBy(order, timers) /\ OnTime(timers, due, offset)
      /\ RefreshGoesOn(timers) /\ order \in Seq(Timers) /\ free \in Seq(Timers)
  BY DEF IInv, Consistent
<1>3. t \in Timers /\ timers[t].tag # NoTag /\ timers[t] \in TimerRecord
  BY <1>2, ListHasAHead
<1>4. /\ timers[t].expire \in Int /\ timers[t].expire = due[t] - offset
      /\ due \in [Timers -> Int] /\ due[t] \in Int /\ offset \in Nat
  <2>1. /\ timers[t].expire \in Int /\ due[t] \in Int /\ offset \in Nat
        /\ due \in [Timers -> Int]
    BY <1>2, <1>3 DEF TimerRecord, Types
  <2>2. timers[t].expire # TIME_NEVER
    BY <1>1, <2>1, ConstantTypes
  <2> QED
    BY <1>2, <1>3, <2>1, <2>2 DEF OnTime
<1>5. /\ r \in TimerRecord /\ r.tag = timers[t].tag /\ r.expire = timers[t].expire
      /\ r.temporary = timers[t].temporary /\ r.handle = timers[t].handle
      /\ r.period = timers[t].period
      /\ r.enabled = (timers[t].enabled /\ timers[t].period # 0)
  BY <1>3 DEF TimerRecord
<1> HIDE DEF t, r
<1>6. CASE timers[t].enabled
  <2>1. /\ timers' \in [Timers -> TimerRecord] /\ timers'[t] = r
        /\ \A u \in Timers : u # t => timers'[u] = timers[u]
    BY <1>1, <1>2, <1>3, <1>5, <1>6
  <2>2. \A u \in Timers : /\ timers'[u].tag = timers[u].tag
                          /\ timers'[u].expire = timers[u].expire
                          /\ timers'[u].handle = timers[u].handle
                          /\ timers'[u].temporary = timers[u].temporary
                          /\ timers'[u].enabled => timers[u].enabled
    BY <1>5, <2>1
  <2>3. Lists(timers', order, free)
    BY <1>2, <2>2, ListsOfTheSame
  <2>4. SortedBy(order, timers')
    <3>1. \A i \in 1 .. Len(order) : order[i] \in Timers
      BY <1>2, ElementOfSeq
    <3> QED
      BY <1>2, <2>2, <3>1, Zenon DEF SortedBy
  <2>5. OnTime(timers', due, offset)
    BY <1>2, <2>2, Zenon DEF OnTime
  <2>6. RefreshGoesOn(timers')
    <3>1. CASE t = Refresh
      BY <1>2, <1>5, <2>1, <3>1, ConstantTypes, Zenon DEF RefreshGoesOn
    <3>2. CASE t # Refresh
      BY <1>2, <2>1, <3>2, ConstantTypes, Zenon DEF RefreshGoesOn
    <3> QED
      BY <3>1, <3>2
  <2>7. Consistent(timers, order, free, due, offset)'
    BY <1>1, <1>2, <1>6, <2>1, <2>3, <2>4, <2>5, <2>6, Zenon DEF Consistent
  <2>8. Types'
    <3>1. t \in 0 .. MAX_TIMERS
      BY <1>3, ConstantTypes DEF Timers
    <3> QED
      BY <1>1, <1>2, <1>4, <1>6, <3>1 DEF Types
  <2>9. Punctual(timers, order)'
    <3>1. ~disturbed => NotBefore(timers, -NSec) /\ local = 0
      BY <1>1, <1>2 DEF Punctual
    <3>2. NotBefore(timers, -NSec) => NotBefore(timers', -NSec)
      BY <2>2, Zenon DEF NotBefore
    <3>3. pc' # "slice" /\ local = 0
      BY <1>1, <1>2, <1>6 DEF Punctual
    <3> QED
      BY <1>1, <3>1, <3>2, <3>3, Zenon DEF Punctual
  <2>10. CallbackTimer(timers)'
    <3>1. disturbed \/ timers[t].expire >= -NSec
      BY <1>1, <1>2, <1>3, <1>6 DEF Punctual, NotBefore
    <3>2. offset + timers[t].expire = due[t]
      BY <1>4
    <3> QED
      BY <1>1, <1>3, <1>6, <2>2, <3>1, <3>2 DEF CallbackTimer
  <2> QED
    BY <2>7, <2>8, <2>9, <2>10, Zenon DEF IInv
<1>7. CASE ~timers[t].enabled
  <2>1. ts = timers
    <3>1. r = timers[t]
      BY <1>3, <1>7 DEF r, TimerRecord
    <3> QED
      BY <1>2, <1>3, <3>1
  <2>2. Rescheduled(timers, t)
    BY <1>1, <1>7, <2>1, Zenon
  <2>3. /\ Consistent(timers', order', free', due', offset)
        /\ due' \in [Timers -> Int]
        /\ ~disturbed => NotBefore(timers', -NSec)
    BY <1>1, <1>3, <1>7, <2>2, RescheduledIsConsistent
  <2>4. Types'
    BY <1>1, <1>2, <1>7, <2>3 DEF Types
  <2>5. CallbackTimer(timers)'
    BY <1>1, <1>7 DEF CallbackTimer
  <2>6. Punctual(timers, order)'
    BY <1>1, <1>2, <1>7, <2>3 DEF Punctual
  <2> QED
    BY <1>1, <2>3, <2>4, <2>5, <2>6, Zenon DEF IInv
<1> QED
  BY <1>6, <1>7

\* Return keeps the invariant: the timer that was called comes again from the
\* time it was called for, is removed, or has been given a new time.
LEMMA ReturnKeeps == IInv /\ Return => IInv'
<1> SUFFICES ASSUME IInv, Return PROVE IInv'
  OBVIOUS
<1> DEFINE t == callback_timer
<1>1. /\ pc = "callback" /\ pc' = "loop" /\ callback_timer' = 0
      /\ callback_timer_modified' = callback_timer_modified
      /\ callback_timer_expire_time' = callback_timer_expire_time
      /\ local' = local /\ slice' = slice /\ offset' = offset /\ called' = called
      /\ disturbed' = disturbed /\ timer_ops' = timer_ops
  BY DEF Return, clock
<1>2. /\ Types /\ Consistent(timers, order, free, due, offset)
      /\ CallbackTimer(timers) /\ Punctual(timers, order) /\ RefreshGoesOn(timers)
  BY DEF IInv, Consistent
<1>3. /\ t \in Timers /\ callback_timer_expire_time < NSec
      /\ disturbed \/ callback_timer_expire_time >= -NSec
      /\ timers[t].temporary \/ timers[t].tag # NoTag
      /\ ~callback_timer_modified /\ timers[t].tag # NoTag =>
           timers[t].expire \in {callback_timer_expire_time, TIME_NEVER}
  BY <1>1, <1>2 DEF CallbackTimer
<1>4. \/ UNCHANGED <<timers, list, due>>
      \/ ~callback_timer_modified /\ timers[t].temporary /\ Removed(t) /\ due' = due
      \/ ~callback_timer_modified /\ ~timers[t].temporary /\ Rescheduled(timers, t)
  BY <1>2 DEF Return, Types
<1>5. local = 0 /\ (~disturbed => NotBefore(timers, -NSec))
  BY <1>1, <1>2 DEF Punctual
<1>6. /\ Consistent(timers', order', free', due', offset)
      /\ due' \in [Timers -> Int]
      /\ ~disturbed => NotBefore(timers', -NSec)
  <2>0. due \in [Timers -> Int]
    BY <1>2 DEF Types
  <2>1. CASE UNCHANGED <<timers, list, due>>
    BY <1>2, <1>5, <2>0, <2>1 DEF list
  <2>2. CASE timers[t].temporary /\ Removed(t) /\ due' = due
    <3>1. CASE timers[t].tag = NoTag
      BY <1>2, <1>5, <2>0, <2>2, <3>1 DEF Removed, list
    <3>2. CASE timers[t].tag # NoTag
      <4> DEFINE gone == {t}
      <4>1. /\ \A u \in gone : timers[u].tag # NoTag
            /\ timers' = [u \in Timers |-> IF u \in gone THEN Freed(timers[u]) ELSE timers[u]]
            /\ order' = Without(order, gone)
            /\ free' \in Seq(Timers) /\ Distinct(free')
            /\ \A u \in Timers : In(free', u) <=> In(free, u) \/ u \in gone
        BY <1>3, <2>2, <3>2, RemovedIsGone
      <4>2. gone \in SUBSET Timers /\ Refresh \notin gone
        BY <1>2, <1>3, <2>2 DEF RefreshGoesOn
      <4>3. timers \in [Timers -> TimerRecord]
        BY <1>2 DEF Consistent
      <4> HIDE DEF gone
      <4>4. Consistent(timers', order', free', due, offset)
        BY <1>2, <4>1, <4>2, RemoveIsConsistent
      <4>5. \A u \in Timers : timers'[u].tag = NoTag \/ timers'[u] = timers[u]
        <5>1. \A u \in Timers : Freed(timers[u]).tag = NoTag
          BY <4>3 DEF Freed, TimerRecord
        <5> QED
          BY <4>1, <5>1
      <4>6. NotBefore(timers, -NSec) => NotBefore(timers', -NSec)
        BY <4>5, Zenon DEF NotBefore
      <4> QED
        BY <1>5, <2>0, <2>2, <4>4, <4>6
    <3> QED
      BY <3>1, <3>2
  <2>3. CASE ~callback_timer_modified /\ ~timers[t].temporary /\ Rescheduled(timers, t)
    <3>1. /\ timers[t].tag # NoTag
          /\ timers[t].expire \in {callback_timer_expire_time, TIME_NEVER}
      BY <1>3, <2>3
    <3>2. /\ timers[t].expire < NSec \/ timers[t].expire = TIME_NEVER
          /\ ~disturbed => timers[t].expire >= -NSec
      BY <1>3, <3>1, ConstantTypes
    <3> QED
      BY <1>1, <1>3, <2>3, <3>1, <3>2, RescheduledIsConsistent
  <2> QED
    BY <1>4, <2>1, <2>2, <2>3
<1>7. Types'
  BY <1>1, <1>2, <1>6, ConstantTypes DEF Types
<1>8. CallbackTimer(timers)'
  BY <1>1 DEF CallbackTimer
<1>9. Punctual(timers, order)'
  BY <1>1, <1>5, <1>6 DEF Punctual
<1> QED
  BY <1>1, <1>6, <1>7, <1>8, <1>9, Zenon DEF IInv

\* EndLoop keeps the invariant: as the first timer is not due, no other is
\* overdue.
LEMMA EndLoopKeeps == IInv /\ EndLoop => IInv'
<1> SUFFICES ASSUME IInv, EndLoop PROVE IInv'
  OBVIOUS
<1>1. /\ pc = "loop" /\ pc' = "slice" /\ ~(timers[Head(order)].expire < NSec)
      /\ slice' = timers[Head(order)].expire /\ disturbed' = FALSE
      /\ timers' = timers /\ order' = order /\ free' = free
      /\ callback_timer' = callback_timer /\ callback_timer_modified' = callback_timer_modified
      /\ callback_timer_expire_time' = callback_timer_expire_time
      /\ local' = local /\ offset' = offset /\ called' = called
      /\ due' = due /\ timer_ops' = timer_ops
  BY DEF EndLoop, Overdue, list, callback
<1>2. /\ Types /\ Consistent(timers, order, free, due, offset) /\ Punctual(timers, order)
  BY DEF IInv
<1>3. /\ Head(order) = order[1] /\ order[1] \in Timers /\ timers[order[1]].expire \in Int
      /\ \A t \in Timers : timers[t].tag # NoTag =>
           /\ timers[t].expire \in Int
           /\ timers[t].enabled => timers[order[1]].expire <= timers[t].expire + NSec
  BY <1>2, ListHasAHead
<1>4. Types'
  BY <1>1, <1>2, <1>3 DEF Types
<1>5. CallbackTimer(timers)'
  BY <1>1 DEF CallbackTimer
<1>6. Punctual(timers, order)'
  <2>1. local = 0
    BY <1>1, <1>2 DEF Punctual
  <2>2. local' <= slice' /\ slice' <= timers'[order'[1]].expire
    BY <1>1, <1>3, <2>1, ConstantTypes
  <2>3. NotBefore(timers', 0)
    BY <1>1, <1>3, ConstantTypes DEF NotBefore
  <2> QED
    BY <1>1, <2>2, <2>3 DEF Punctual
<1> QED
  BY <1>1, <1>2, <1>4, <1>5, <1>6, Zenon DEF IInv

\* The invariant holds from the start.
LEMMA InitIsConsistent == Init => IInv
<1> SUFFICES ASSUME Init PROVE IInv
  OBVIOUS
<1>1. /\ timers = [t \in Timers |->
           IF t = Refresh THEN [FreeTimer EXCEPT !.enabled = TRUE, !.tag = RefreshTag,
                                                 !.period = RefreshPeriod,
                                                 !.expire = RefreshPeriod]
           ELSE FreeTimer]
      /\ order = <<Refresh>>
      /\ free = [i \in 1 .. MAX_TIMERS - 1 |-> i + 1]
      /\ pc = "slice" /\ local = 0 /\ slice = RefreshPeriod /\ offset = 0
      /\ callback_timer = 0 /\ callback_timer_modified = FALSE
      /\ callback_timer_expire_time = 0
      /\ due = [t \in Timers |-> IF t = Refresh THEN RefreshPeriod ELSE 0]
      /\ called = 0 /\ disturbed = FALSE /\ timer_ops = 0
  BY DEF Init
<1>2. Types
  <2>1. due \in [Timers -> Int]
    <3>1. \A t \in Timers : (IF t = Refresh THEN RefreshPeriod ELSE 0) \in Int
      BY ConstantTypes
    <3> QED
      BY <1>1, <3>1
  <2>2. /\ local \in Nat /\ slice \in Int /\ offset \in Nat /\ offset + local <= MaxTime
        /\ callback_timer \in 0 .. MAX_TIMERS /\ callback_timer_expire_time \in Int
        /\ called \in Int /\ timer_ops \in Nat
    <3>1. /\ local = 0 /\ slice = RefreshPeriod /\ offset = 0 /\ callback_timer = 0
          /\ callback_timer_expire_time = 0 /\ called = 0 /\ timer_ops = 0
      BY <1>1
    <3> QED
      BY <3>1, ConstantTypes
  <2>3. /\ pc \in {"slice", "loop", "callback"} /\ callback_timer_modified \in BOOLEAN
        /\ disturbed \in BOOLEAN
    BY <1>1
  <2> QED
    BY <2>1, <2>2, <2>3 DEF Types
<1>3. FreeTimer \in TimerRecord
  <2>1. 0 \in Periods \cup {0, RefreshPeriod} /\ NoTag \in Tags \cup {RefreshTag, NoTag}
        /\ TIME_NEVER \in Int
    BY ConstantTypes
  <2> QED
    BY <2>1 DEF FreeTimer, TimerRecord
<1>4. /\ FreeTimer.tag = NoTag /\ FreeTimer.expire = TIME_NEVER /\ ~FreeTimer.temporary
      /\ ~FreeTimer.handle /\ ~FreeTimer.enabled
  BY DEF FreeTimer
<1> DEFINE r == [FreeTimer EXCEPT !.enabled = TRUE, !.tag = RefreshTag,
                                  !.period = RefreshPeriod, !.expire = RefreshPeriod]
<1>5. /\ r \in TimerRecord /\ r.enabled /\ r.tag = RefreshTag /\ r.period = RefreshPeriod
      /\ r.expire = RefreshPeriod /\ ~r.temporary /\ ~r.handle
  <2>1. RefreshPeriod \in Int /\ RefreshPeriod \in Periods \cup {0, RefreshPeriod}
    BY ConstantTypes
  <2> QED
    BY <1>3, <1>4, <2>1 DEF TimerRecord
<1> HIDE DEF r
<1>6. /\ timers \in [Timers -> TimerRecord] /\ timers[Refresh] = r
      /\ \A t \in Timers : t # Refresh => timers[t] = FreeTimer
  BY <1>1, <1>3, <1>5, ConstantTypes DEF r
<1>7. RefreshGoesOn(timers)
  BY <1>5, <1>6, Zenon DEF RefreshGoesOn
<1>8. /\ order \in Seq(Timers) /\ Len(order) = 1 /\ order[1] = Refresh
  BY <1>1, ConstantTypes
<1>9. /\ free \in Seq(Timers) /\ Len(free) = MAX_TIMERS - 1
      /\ \A i \in 1 .. MAX_TIMERS - 1 : free[i] = i + 1
  <2>1. MAX_TIMERS \in Nat /\ MAX_TIMERS - 1 \in Nat
    BY TimerAssumption
  <2>2. \A i \in 1 .. MAX_TIMERS - 1 : i + 1 \in Timers
    BY <2>1 DEF Timers
  <2>3. free \in [1 .. MAX_TIMERS - 1 -> Timers]
    BY <1>1, <2>2
  <2>4. free \in Seq(Timers) /\ Len(free) = MAX_TIMERS - 1
    <3>1. free \in Seq(Timers)
      BY <2>1, <2>3, SeqDef
    <3>2. DOMAIN free = 1 .. MAX_TIMERS - 1
      BY <2>3
    <3>3. Len(free) \in Nat /\ DOMAIN free = 1 .. Len(free)
      BY <3>1, LenProperties
    <3>4. 1 .. MAX_TIMERS - 1 = 1 .. Len(free)
      BY <3>2, <3>3, Zenon
    <3> QED
      BY <2>1, <3>1, <3>3, <3>4
  <2> QED
    BY <1>1, <2>4
<1>10. \A t \in Timers : In(order, t) <=> t = Refresh
  BY <1>8 DEF In
<1>11. \A t \in Timers : In(free, t) <=> t # Refresh
  <2>1. ASSUME NEW t \in Timers, In(free, t) PROVE t # Refresh
    BY <1>9, <2>1 DEF In, Refresh
  <2>2. ASSUME NEW t \in Timers, t # Refresh PROVE In(free, t)
    <3>1. t - 1 \in 1 .. MAX_TIMERS - 1 /\ t \in Nat /\ MAX_TIMERS \in Nat
      BY <2>2, ConstantTypes DEF Timers, Refresh
    <3>2. t - 1 \in 1 .. Len(free) /\ free[t - 1] = t
      BY <1>9, <3>1
    <3> QED
      BY <3>2 DEF In
  <2> QED
    BY <2>1, <2>2
<1>12. Distinct(order) /\ Distinct(free)
  BY <1>8, <1>9 DEF Distinct
<1>13. Lists(timers, order, free)
  <2>1. \A t \in Timers : timers[t].tag = NoTag <=> t # Refresh
    BY <1>4, <1>5, <1>6, ConstantTypes
  <2>2. \A t \in Timers : ~timers[t].handle
    BY <1>4, <1>5, <1>6
  <2> QED
    BY <1>10, <1>11, <1>12, <2>1, <2>2 DEF Lists
<1>14. SortedBy(order, timers)
  BY <1>8 DEF SortedBy
<1>15. OnTime(timers, due, offset)
  <2>1. \A t \in Timers : t # Refresh => timers[t].tag = NoTag
    BY <1>4, <1>6
  <2>2. due[Refresh] = RefreshPeriod /\ timers[Refresh].expire = RefreshPeriod
    BY <1>1, <1>5, <1>6, ConstantTypes
  <2>3. RefreshPeriod + NSec < TIME_NEVER /\ RefreshPeriod \in Nat
    BY ConstantTypes
  <2> QED
    BY <1>1, <2>1, <2>2, <2>3 DEF OnTime
<1>16. Punctual(timers, order)
  <2>1. NotBefore(timers, 0)
    BY <1>4, <1>5, <1>6, ConstantTypes DEF NotBefore
  <2>2. slice <= timers[order[1]].expire /\ local <= slice
    BY <1>1, <1>5, <1>6, <1>8, ConstantTypes
  <2> QED
    BY <1>1, <2>1, <2>2 DEF Punctual
<1> QED
  BY <1>1, <1>2, <1>6, <1>7, <1>8, <1>9, <1>13, <1>14, <1>15, <1>16
     DEF IInv, Consistent, CallbackTimer

\* Every step keeps the invariant.
LEMMA NextKeeps == IInv /\ [Next]_vars => IInv'
<1> SUFFICES ASSUME IInv, [Next]_vars PROVE IInv'
  OBVIOUS
<1>1. CASE timer_alloc
  BY <1>1, AllocKeeps
<1>2. CASE timer_set
  <2>1. PICK duration \in Durations : Started(TRUE, duration, 0)
    BY <1>2 DEF timer_set
  <2>2. Calls /\ duration \in Durations \cup Periods /\ 0 \in Periods \cup {0}
    BY <1>2 DEF timer_set
  <2> QED
    BY <2>1, <2>2, StartedKeeps
<1>3. CASE timer_pulse
  <2>1. PICK period \in Periods \ {0} : Started(FALSE, period, period)
    BY <1>3 DEF timer_pulse
  <2>2. Calls /\ period \in Durations \cup Periods /\ period \in Periods \cup {0}
    BY <1>3 DEF timer_pulse
  <2> QED
    BY <2>1, <2>2, StartedKeeps
<1>4. CASE timer_adjust
  <2>1. PICK t \in Timers, duration \in Durations, period \in Periods :
          timers[t].handle /\ Adjusted(timers, order, t, duration, period)
    BY <1>4 DEF timer_adjust
  <2>2. Calls /\ free' = free /\ period \in Periods \cup {0, RefreshPeriod}
    BY <1>4 DEF timer_adjust
  <2> QED
    BY <2>1, <2>2, AdjustKeeps
<1>5. CASE timer_reset
  <2>1. PICK t \in Timers, duration \in Durations :
          timers[t].handle /\ Adjusted(timers, order, t, duration, timers[t].period)
    BY <1>5 DEF timer_reset
  <2>2. Calls /\ free' = free /\ timers[t].period \in Periods \cup {0, RefreshPeriod}
    BY <1>5, <2>1, HandleIsInTheList DEF timer_reset
  <2> QED
    BY <2>1, <2>2, AdjustKeeps
<1>6. CASE timer_enable
  BY <1>6, EnableKeeps
<1>7. CASE timer_remove
  BY <1>7, RemoveKeeps
<1>8. CASE timer_free
  BY <1>8, FreeKeeps
<1>9. CASE Run
  BY <1>9, RunKeeps
<1>10. CASE timer_adjust_global_time
  BY <1>10, AdjustGlobalTimeKeeps
<1>11. CASE Fire
  BY <1>11, FireKeeps
<1>12. CASE Return
  BY <1>12, ReturnKeeps
<1>13. CASE EndLoop
  BY <1>13, EndLoopKeeps
<1>14. CASE UNCHANGED vars
  <2>1. /\ pc' = pc /\ due' = due /\ called' = called /\ disturbed' = disturbed
        /\ timers' = timers /\ order' = order /\ free' = free /\ timer_ops' = timer_ops
        /\ callback_timer' = callback_timer
        /\ callback_timer_modified' = callback_timer_modified
        /\ callback_timer_expire_time' = callback_timer_expire_time
        /\ local' = local /\ slice' = slice /\ offset' = offset
    BY <1>14 DEF vars, list, callback, clock
  <2> QED
    BY <2>1, Zenon DEF IInv, Types, CallbackTimer, Punctual
<1> QED
  BY <1>1, <1>2, <1>3, <1>4, <1>5, <1>6, <1>7, <1>8, <1>9, <1>10, <1>11, <1>12, <1>13, <1>14
     DEF Next, Loop

\* What the invariant says of the timers.
LEMMA TimersInTime == IInv => TimersKeepTheirTime
<1> SUFFICES ASSUME IInv PROVE TimersKeepTheirTime
  OBVIOUS
<1>1. /\ Types /\ Consistent(timers, order, free, due, offset)
      /\ CallbackTimer(timers) /\ Punctual(timers, order)
      /\ order \in Seq(Timers) /\ free \in Seq(Timers) /\ Distinct(order) /\ Distinct(free)
      /\ \A t \in Timers : /\ timers[t].tag = NoTag <=> In(free, t)
                           /\ timers[t].tag # NoTag <=> In(order, t)
      /\ SortedBy(order, timers) /\ OnTime(timers, due, offset)
  BY Zenon DEF IInv, Consistent, Lists
<1>2. ASSUME NEW l \in Seq(Timers) PROVE \A t : t \in Range(l) <=> t \in Timers /\ In(l, t)
  <2>1. DOMAIN l = 1 .. Len(l) /\ \A i \in 1 .. Len(l) : l[i] \in Timers
    BY LenProperties, ElementOfSeq
  <2> QED
    BY <2>1 DEF Range, In
<1>3. NoneLost
  <2> DEFINE l == order \o free
  <2>1. \A u : ~(In(order, u) /\ In(free, u))
    <3>1. \A u : In(order, u) => u \in Timers
      BY <1>1, ElementOfSeq DEF In
    <3> QED
      BY <1>1, <3>1
  <2>2. /\ l \in Seq(Timers) /\ Distinct(l)
        /\ \A u : In(l, u) <=> In(order, u) \/ In(free, u)
    BY <1>1, <2>1, ListsJoined
  <2> HIDE DEF l
  <2>3. IsInjective(l)
    <3>1. DOMAIN l = 1 .. Len(l)
      BY <2>2, LenProperties
    <3> QED
      BY <2>2, <3>1 DEF IsInjective, Distinct
  <2>4. Range(l) = Timers
    BY <1>1, <1>2, <2>2
  <2>5. \A t \in Timers : timers[t].tag = NoTag <=> t \in Range(free)
    BY <1>1, <1>2
  <2> QED
    BY <2>3, <2>4, <2>5 DEF NoneLost, l
<1>4. Sorted
  <2>1. DOMAIN order = 1 .. Len(order)
    BY <1>1, LenProperties
  <2> QED
    BY <1>1, <2>1 DEF Sorted, SortedBy
<1>5. CalledOnTime
  <2>1. \A t \in Range(order) : t \in Timers /\ timers[t].tag # NoTag
    BY <1>1, <1>2
  <2>2. \A t \in Range(order) :
          timers[t].enabled => timers[t].expire \in {due[t] - offset, TIME_NEVER}
    BY <1>1, <2>1 DEF OnTime
  <2>3. pc = "callback" => /\ offset + callback_timer_expire_time = called
                           /\ disturbed \/ callback_timer_expire_time >= -NSec
    BY <1>1 DEF CallbackTimer
  <2>4. pc = "slice" /\ ~disturbed =>
          \A t \in Range(order) : timers[t].enabled => timers[t].expire >= 0
    BY <1>1, <2>1 DEF Punctual, NotBefore
  <2> QED
    BY <2>2, <2>3, <2>4 DEF CalledOnTime
<1> QED
  BY <1>3, <1>4, <1>5 DEF TimersKeepTheirTime
-----------------------------------------------------------------------------
(* The Pokeys: the invariant *)

Bit == {0, 1}
Registers ==
  [AUDF : [Channels -> Byte], AUDC : [Channels -> Byte], AUDV : [Channels -> 0 .. 60],
   AUDCTL : Byte, AUDPAN : Byte]
Counters ==
  [out : [Channels -> Bit], cnt : [Channels -> Nat], max : [Channels -> Nat],
   p4 : Nat, p5 : Nat, p9 : Nat, p17 : Nat, Poly_adjust : Nat]
PlainChip == [t : Nat, out : [Channels -> Bit], cnt : [Channels -> Int], max : [Channels -> Nat]]
Buffers == [Chips -> Seq([0 .. 1 -> Int])]
Beginnings == [Chips -> [clocks : Nat, cnt : Nat]]

\* The types of the chips.
PokeyTypes ==
  /\ registers \in [Chips -> Registers] /\ chips \in [Chips -> Counters]
  /\ by_clock \in [Chips -> PlainChip] /\ clocks \in [Chips -> Nat]
  /\ Samp_n_cnt \in Nat /\ chip \in Chips /\ stage \in {"rest", "play", "mix"}
  /\ began \in Beginnings /\ calls \in Nat
  /\ overslept \in BOOLEAN /\ tune \in Seq(Chips \X (0 .. 15) \X Byte)

\* The period of channel k.
Period(r, k) == IF Off(r, k) THEN Forever ELSE new_val(r, k)

\* Every channel has the period of its registers, though a write only looks at some.
PeriodsFit ==
  \A i \in Chips : \A k \in Channels :
    /\ chips[i].max[k] = Period(registers[i], k)
    /\ by_clock[i].max[k] = Period(registers[i], k)

\* The polynomial counters, once they are moved on, are those of the clock.
Polynomials(c, t) ==
  /\ (c.p4 + c.Poly_adjust) % POLY4_SIZE = t % POLY4_SIZE /\ (c.p5 + c.Poly_adjust) % POLY5_SIZE = t % POLY5_SIZE
  /\ (c.p9 + c.Poly_adjust) % POLY9_SIZE = t % POLY9_SIZE /\ (c.p17 + c.Poly_adjust) % POLY17_SIZE = t % POLY17_SIZE
PolynomialsFit == \A i \in Chips : Polynomials(chips[i], clocks[i])

\* The plain chip is ahead of one that plays only, and no further than the next event.
AheadInTime ==
  /\ \A i \in Chips : stage # "play" \/ i # chip => by_clock[i].t = clocks[i]
  /\ stage = "play" => ahead \in Nat /\ ahead <= event_min

\* Its output when channel k of c reloads at t.
Flipped(r, c, k, t) ==
  IF Toggles(r, k, c.out[k], t % POLY4_SIZE, t % POLY5_SIZE, t % POLY9_SIZE, t % POLY17_SIZE) THEN 1 - c.out[k] ELSE c.out[k]

\* A channel that counts is as far as the plain one, d clocks ahead, or due with it.
Agrees(r, c, p, k, d) ==
  IF Counts(c, k)
  THEN /\ c.cnt[k] > d => p.cnt[k] = c.cnt[k] - d /\ p.out[k] = c.out[k]
       /\ c.cnt[k] = d => p.cnt[k] = c.max[k] /\ p.out[k] = Flipped(r, c, k, p.t)
  ELSE c.cnt[k] > Longest /\ p.cnt[k] = Forever /\ c.out[k] = 1 /\ p.out[k] = 1

CountersAgree ==
  \A i \in Chips : \A k \in Channels :
    /\ Agrees(registers[i], chips[i], by_clock[i], k, by_clock[i].t - clocks[i])
    /\ stage # "play" \/ i # chip => chips[i].cnt[k] > 0

\* The output is the one of the channels.
OutputFits == stage = "play" => cur_val = Output(registers[chip], chips[chip].out)

\* The buffers, as far as they are played.
BuffersFit ==
  /\ pokey_buffer \in Buffers
  /\ stage = "play" =>
       /\ samples_left \in 1 .. Samples /\ Len(pokey_buffer[chip]) + samples_left = Samples
       /\ IF chip = 1 THEN Len(pokey_buffer[0]) = Samples ELSE pokey_buffer[1] = <<>>
  /\ stage = "mix" => \A i \in Chips : Len(pokey_buffer[i]) = Samples

SoundIsSame ==
  /\ pokey_buffer = heard
  /\ sound_buffer = [i \in DOMAIN expected |-> [side \in 0 .. 1 |-> Int16(256 * expected[i][side])]]

\* What a chip has taken from the counter of the samples.
Fraction(cnt) == cnt - SampNMax \in 0 .. 255
Whole(i, cnt) == 256 * Played(i) + cnt = Samples * SampNMax + began[i].cnt
PaceFits ==
  /\ stage = "rest" => IF calls = 0 THEN Samp_n_cnt = 0 ELSE Fraction(Samp_n_cnt)
  /\ stage # "rest" => /\ calls > 0
                       /\ IF calls = 1 THEN began[0].cnt = 0 ELSE Fraction(began[0].cnt)
  /\ stage = "play" =>
       /\ 256 * Played(chip) + Samp_n_cnt = (Samples - samples_left) * SampNMax + began[chip].cnt
       /\ chip = 1 => Whole(0, began[1].cnt) /\ Fraction(began[1].cnt)
  /\ stage = "mix" =>
       /\ Whole(0, began[1].cnt) /\ Fraction(began[1].cnt)
       /\ Whole(1, Samp_n_cnt) /\ Fraction(Samp_n_cnt)

PokeyInv ==
  /\ PokeyTypes /\ PeriodsFit /\ PolynomialsFit /\ AheadInTime /\ BuffersFit /\ OutputFits /\ PaceFits
  /\ ~overslept => CountersAgree /\ SoundIsSame
-----------------------------------------------------------------------------
(* Registers and periods *)

\* Counting modulo m from a remainder.
LEMMA Modulo ==
  ASSUME NEW m \in Nat \ {0}, NEW a \in Int, NEW b \in Int, NEW d \in Int, a % m = b % m
  PROVE  /\ (a % m) % m = a % m /\ a % m \in Nat
         /\ (a + d) % m = (b + d) % m
<1>1. \A x \in Int : x % m \in 0 .. m - 1 /\ x \div m \in Int /\ x = m * (x \div m) + (x % m)
  OBVIOUS
<1>2. \A x, q \in Int, r \in 0 .. m - 1 : x = m * q + r => x % m = r
  OBVIOUS
<1>3. \A q, t \in Int : m * q + m * t = m * (q + t)
  OBVIOUS
<1>4. \A x \in Int : (x + d) % m = ((x % m) + d) % m
  <2> TAKE x \in Int
  <2> DEFINE q == x \div m
             s == x % m
             t == (s + d) \div m
             u == (s + d) % m
  <2>1. q \in Int /\ s \in Int /\ t \in Int /\ u \in 0 .. m - 1 /\ q + t \in Int /\ x + d \in Int
    BY <1>1
  <2>2. x = m * q + s /\ s + d = m * t + u
    BY <1>1, <2>1
  <2>3. m * q \in Int /\ m * t \in Int /\ m * q + m * t = m * (q + t)
    BY <1>3, <2>1
  <2> HIDE DEF q, s, t, u
  <2>4. x + d = m * (q + t) + u
    BY <2>1, <2>2, <2>3
  <2>5. (x + d) % m = u
    BY <1>2, <2>1, <2>4
  <2> QED
    BY <2>5 DEF u, s
<1>5. (a % m) % m = a % m /\ a % m \in Nat
  <2>1. \A s \in 0 .. m - 1 : s % m = s
    OBVIOUS
  <2> QED
    BY <1>1, <2>1
<1> QED
  BY <1>4, <1>5

\* A period is positive, and shorter than the time a channel that does not
\* count has to its end.
LEMMA NewVal ==
  ASSUME NEW r \in Registers, NEW k \in Channels
  PROVE  new_val(r, k) \in Nat /\ new_val(r, k) > 0 /\ new_val(r, k) <= Longest
<1> DEFINE n == r.AUDF[k]
           mult == IF CLOCK_15(r) THEN 114 ELSE 28
<1>1. \A j \in Channels : r.AUDF[j] \in Nat /\ r.AUDF[j] <= 255
  BY DEF Registers, Byte
<1>2. /\ n + 4 \in Nat /\ n + 4 > 0 /\ n + 4 <= Longest
      /\ (n + 1) * mult \in Nat /\ (n + 1) * mult > 0 /\ (n + 1) * mult <= Longest
  BY <1>1 DEF Longest
<1>3. CASE k \in {1, 3}
  BY <1>2, <1>3 DEF new_val
<1>4. CASE k \in {2, 4}
  <2> DEFINE word == 256 * r.AUDF[k] + r.AUDF[k - 1]
  <2>1. k - 1 \in Channels
    BY <1>4 DEF Channels
  <2>2. word \in Nat /\ word <= 65535
    BY <1>1, <2>1
  <2>3. /\ word + 7 \in Nat /\ word + 7 > 0 /\ word + 7 <= Longest
        /\ (word + 1) * mult \in Nat /\ (word + 1) * mult > 0 /\ (word + 1) * mult <= Longest
    BY <2>2 DEF Longest
  <2> QED
    BY <1>2, <1>4, <2>3 DEF new_val
<1> QED
  BY <1>3, <1>4 DEF Channels

\* Which channels do not count.
LEMMA PeriodOfChannel ==
  ASSUME NEW r \in Registers, NEW k \in Channels
  PROVE  /\ Period(r, k) \in Nat
         /\ Off(r, k) => Period(r, k) = Forever
         /\ ~Off(r, k) => /\ Period(r, k) = new_val(r, k) /\ Period(r, k) # Forever
                          /\ Period(r, k) > 0 /\ Period(r, k) <= Longest
<1>1. Forever \in Nat /\ Longest \in Nat /\ Longest < Forever
  BY DEF Forever, Longest
<1> QED
  BY <1>1, NewVal DEF Period

\* A write keeps the types of the registers.
LEMMA StoredType ==
  ASSUME NEW r \in Registers, NEW reg \in 0 .. 15, NEW val \in Byte
  PROVE  Stored(r, reg, val) \in Registers
<1>1. CASE reg \in {0, 2, 4, 6}
  BY <1>1 DEF Stored, Registers
<1>2. CASE reg \in {1, 3, 5, 7}
  <2>1. ((val % 16) * Gain) \div 16 \in 0 .. 60
    BY DEF Byte, Gain
  <2> QED
    BY <1>2, <2>1 DEF Stored, Registers
<1>3. CASE reg \in {8, 12}
  BY <1>3 DEF Stored, Registers
<1>4. CASE reg \notin {0, 1, 2, 3, 4, 5, 6, 7, 8, 12}
  BY <1>4 DEF Stored
<1> QED
  BY <1>1, <1>2, <1>3, <1>4

\* The channels that a write passes over keep their periods.
LEMMA MaskCovers ==
  ASSUME NEW r \in Registers, NEW reg \in 0 .. 15, NEW val \in Byte,
         NEW mask \in chan_mask(Stored(r, reg, val), reg),
         NEW k \in Channels, k \notin mask
  PROVE  Period(Stored(r, reg, val), k) = Period(r, k)
<1> DEFINE s == Stored(r, reg, val)
<1>1. CASE reg = 8
  BY <1>1 DEF chan_mask
<1>2. CASE reg # 8 /\ reg \notin 0 .. 7
  BY <1>2 DEF Stored, Registers, Period, Off, new_val, VOL_ONLY, Tied, Fast, CLOCK_15
<1>3. CASE reg \in {1, 3, 5, 7}
  <2>1. /\ s.AUDF = r.AUDF /\ s.AUDCTL = r.AUDCTL /\ mask = {reg \div 2 + 1}
        /\ s.AUDC[k] = r.AUDC[k]
    BY <1>3 DEF Stored, Registers, chan_mask
  <2> QED
    BY <2>1 DEF Period, Off, new_val, VOL_ONLY, Tied, Fast, CLOCK_15
<1>4. CASE reg \in {0, 2, 4, 6}
  <2> DEFINE j == reg \div 2 + 1
  <2>1. s.AUDC = r.AUDC /\ s.AUDCTL = r.AUDCTL /\ j \in Channels
    BY <1>4 DEF Stored, Registers, Channels
  <2>2. \A i \in Channels : i # j => s.AUDF[i] = r.AUDF[i]
    BY <1>4 DEF Stored, Registers
  <2>3. k # j
    BY <1>4 DEF chan_mask
  <2>4. CASE k \in {1, 3}
    BY <2>1, <2>2, <2>3, <2>4 DEF Period, Off, new_val, VOL_ONLY, Tied, Fast, CLOCK_15
  <2>5. CASE k \in {2, 4} /\ ~Tied(r, k)
    BY <2>1, <2>2, <2>3, <2>5 DEF Period, Off, new_val, VOL_ONLY, Tied, Fast, CLOCK_15
  <2>6. CASE k \in {2, 4} /\ Tied(r, k)
    <3>1. k - 1 \in Channels /\ k - 1 # j
      BY <1>4, <2>1, <2>3, <2>6 DEF chan_mask, Tied, Channels
    <3> QED
      BY <2>1, <2>2, <2>3, <2>6, <3>1 DEF Period, Off, new_val, VOL_ONLY, Tied, Fast, CLOCK_15
  <2> QED
    BY <2>4, <2>5, <2>6 DEF Channels
<1> QED
  BY <1>1, <1>2, <1>3, <1>4
-----------------------------------------------------------------------------
(* What a write does to a chip and to the plain one *)

\* What a write does to a channel that it looks at, and to one that it passes over.
Changed(u, c, s, k) ==
  IF Off(s, k)
  THEN u.max[k] = Forever /\ u.cnt[k] = Forever /\ u.out[k] = 1
  ELSE /\ u.max[k] = new_val(s, k) /\ u.out[k] = c.out[k]
       /\ u.cnt[k] = IF new_val(s, k) # c.max[k] /\ c.cnt[k] > new_val(s, k)
                     THEN new_val(s, k) ELSE c.cnt[k]
Kept(u, c, k) == u.max[k] = c.max[k] /\ u.cnt[k] = c.cnt[k] /\ u.out[k] = c.out[k]
SamePolynomials(u, c) ==
  u.p4 = c.p4 /\ u.p5 = c.p5 /\ u.p9 = c.p9 /\ u.p17 = c.p17 /\ u.Poly_adjust = c.Poly_adjust

\* What Updated does to a chip: its types, and each channel.
LEMMA UpdatedChip ==
  ASSUME NEW s \in Registers, NEW mask \in SUBSET Channels, NEW c \in Counters
  PROVE  /\ Updated(c, s, mask) \in Counters
         /\ SamePolynomials(Updated(c, s, mask), c)
         /\ \A k \in mask : Changed(Updated(c, s, mask), c, s, k)
         /\ \A k \in Channels \ mask : Kept(Updated(c, s, mask), c, k)
<1> DEFINE new(k) == new_val(s, k)
           M == [k \in Channels |-> IF k \notin mask THEN c.max[k]
                                    ELSE IF Off(s, k) THEN Forever ELSE new(k)]
           N == [k \in Channels |-> IF k \notin mask THEN c.cnt[k]
                                    ELSE IF Off(s, k) THEN Forever
                                    ELSE IF new(k) # c.max[k] /\ c.cnt[k] > new(k) THEN new(k)
                                    ELSE c.cnt[k]]
           O == [k \in Channels |-> IF k \in mask /\ Off(s, k) THEN 1 ELSE c.out[k]]
<1>1. \A k \in Channels : new(k) \in Nat
  BY NewVal
<1>2. Forever \in Nat
  BY DEF Forever
<1>3. \A k \in Channels : c.max[k] \in Nat /\ c.cnt[k] \in Nat /\ c.out[k] \in Bit
  BY DEF Counters
<1>4. M \in [Channels -> Nat] /\ N \in [Channels -> Nat] /\ O \in [Channels -> Bit]
  <2> HIDE DEF new
  <2> QED
    BY <1>1, <1>2, <1>3 DEF Bit
<1>5. Updated(c, s, mask) = [c EXCEPT !.max = M, !.cnt = N, !.out = O]
  BY Zenon DEF Updated
<1>6. /\ \A k \in Channels \ mask : M[k] = c.max[k] /\ N[k] = c.cnt[k] /\ O[k] = c.out[k]
      /\ \A k \in mask : IF Off(s, k)
           THEN M[k] = Forever /\ N[k] = Forever /\ O[k] = 1
           ELSE /\ M[k] = new(k) /\ O[k] = c.out[k]
                /\ N[k] = IF new(k) # c.max[k] /\ c.cnt[k] > new(k) THEN new(k) ELSE c.cnt[k]
  BY Zenon
<1> DEFINE u == Updated(c, s, mask)
<1>7. u \in Counters /\ u.max = M /\ u.cnt = N /\ u.out = O /\ SamePolynomials(u, c)
  <2> HIDE DEF M, N, O
  <2> QED
    BY <1>4, <1>5 DEF Counters, SamePolynomials
<1> HIDE DEF M, N, O, u
<1>8. (\A k \in Channels \ mask : Kept(u, c, k)) /\ \A k \in mask : Changed(u, c, s, k)
  BY <1>6, <1>7, Zenon DEF Kept, Changed
<1> QED
  BY <1>7, <1>8, Zenon DEF u

\* The same for the plain chip, all channels of which are worked out.
LEMMA UpdatedPlain ==
  ASSUME NEW s \in Registers, NEW c \in PlainChip
  PROVE  /\ Updated(c, s, Channels) \in PlainChip /\ Updated(c, s, Channels).t = c.t
         /\ \A k \in Channels : Changed(Updated(c, s, Channels), c, s, k)
<1> DEFINE new(k) == new_val(s, k)
           M == [k \in Channels |-> IF k \notin Channels THEN c.max[k]
                                    ELSE IF Off(s, k) THEN Forever ELSE new(k)]
           N == [k \in Channels |-> IF k \notin Channels THEN c.cnt[k]
                                    ELSE IF Off(s, k) THEN Forever
                                    ELSE IF new(k) # c.max[k] /\ c.cnt[k] > new(k) THEN new(k)
                                    ELSE c.cnt[k]]
           O == [k \in Channels |-> IF k \in Channels /\ Off(s, k) THEN 1 ELSE c.out[k]]
<1>1. \A k \in Channels : new(k) \in Nat
  BY NewVal
<1>2. Forever \in Nat
  BY DEF Forever
<1>3. \A k \in Channels : c.max[k] \in Nat /\ c.cnt[k] \in Int /\ c.out[k] \in Bit
  BY DEF PlainChip
<1>4. M \in [Channels -> Nat] /\ N \in [Channels -> Int] /\ O \in [Channels -> Bit]
  <2> HIDE DEF new
  <2> QED
    BY <1>1, <1>2, <1>3 DEF Bit
<1>5. Updated(c, s, Channels) = [c EXCEPT !.max = M, !.cnt = N, !.out = O]
  BY Zenon DEF Updated
<1>6. \A k \in Channels : IF Off(s, k)
        THEN M[k] = Forever /\ N[k] = Forever /\ O[k] = 1
        ELSE /\ M[k] = new(k) /\ O[k] = c.out[k]
             /\ N[k] = IF new(k) # c.max[k] /\ c.cnt[k] > new(k) THEN new(k) ELSE c.cnt[k]
  BY Zenon
<1> DEFINE u == Updated(c, s, Channels)
<1>7. u \in PlainChip /\ u.max = M /\ u.cnt = N /\ u.out = O /\ u.t = c.t
  <2> HIDE DEF M, N, O
  <2> QED
    BY <1>4, <1>5 DEF PlainChip
<1> HIDE DEF M, N, O, u
<1>8. \A k \in Channels : Changed(u, c, s, k)
  BY <1>6, <1>7, Zenon DEF Changed
<1> QED
  BY <1>7, <1>8, Zenon DEF u

\* After a write every channel of both has the period of its registers.
LEMMA UpdatedPeriods ==
  ASSUME NEW r \in Registers, NEW s \in Registers, NEW mask \in SUBSET Channels,
         NEW c \in Counters, NEW p \in PlainChip, NEW k \in Channels,
         c.max[k] = Period(r, k),
         k \notin mask => Period(s, k) = Period(r, k)
  PROVE  /\ Updated(c, s, mask).max[k] = Period(s, k)
         /\ Updated(p, s, Channels).max[k] = Period(s, k)
<1> DEFINE u == Updated(c, s, mask)
           v == Updated(p, s, Channels)
<1>1. IF k \in mask THEN Changed(u, c, s, k) ELSE Kept(u, c, k)
  BY UpdatedChip, Zenon
<1>2. Changed(v, p, s, k)
  BY UpdatedPlain, Zenon
<1> HIDE DEF u, v
<1>3. u.max[k] = Period(s, k) /\ v.max[k] = Period(s, k)
  BY <1>1, <1>2 DEF Changed, Kept, Period
<1> QED
  BY <1>3 DEF u, v

\* A chip at rest agrees with the plain one after a write when it did before.
LEMMA UpdatedAgrees ==
  ASSUME NEW r \in Registers, NEW s \in Registers, NEW mask \in SUBSET Channels,
         NEW c \in Counters, NEW p \in PlainChip, NEW k \in Channels,
         c.max[k] = Period(r, k), p.max[k] = Period(r, k),
         k \notin mask => Period(s, k) = Period(r, k),
         Agrees(r, c, p, k, 0), c.cnt[k] > 0
  PROVE  /\ Agrees(s, Updated(c, s, mask), Updated(p, s, Channels), k, 0)
         /\ Updated(c, s, mask).cnt[k] > 0
<1> DEFINE u == Updated(c, s, mask)
           v == Updated(p, s, Channels)
<1>1. Forever \in Nat /\ Longest \in Nat /\ Longest < Forever
  BY DEF Forever, Longest
<1>2. c.cnt[k] \in Nat /\ c.max[k] \in Nat /\ p.cnt[k] \in Int
  BY DEF Counters, PlainChip
<1>3. IF c.max[k] # Forever
      THEN p.cnt[k] = c.cnt[k] /\ p.out[k] = c.out[k]
      ELSE c.cnt[k] > Longest /\ p.cnt[k] = Forever /\ c.out[k] = 1 /\ p.out[k] = 1
  BY <1>2 DEF Agrees, Counts
<1>5. IF k \in mask THEN Changed(u, c, s, k) ELSE Kept(u, c, k)
  BY UpdatedChip, Zenon
<1>6. Changed(v, p, s, k)
  BY UpdatedPlain, Zenon
<1> HIDE DEF u, v
<1>4. u.max[k] = Period(s, k) /\ v.max[k] = Period(s, k)
  BY <1>5, <1>6 DEF Changed, Kept, Period
<1>7. CASE Off(s, k)
  <2>1. Period(s, k) = Forever
    BY <1>7, PeriodOfChannel
  <2>2. v.cnt[k] = Forever /\ v.out[k] = 1
    BY <1>6, <1>7, Zenon DEF Changed
  <2>3. u.cnt[k] > Longest /\ u.out[k] = 1
    BY <1>1, <1>3, <1>5, <1>7, <2>1 DEF Changed, Kept
  <2>4. Agrees(s, u, v, k, 0)
    BY <1>4, <2>1, <2>2, <2>3 DEF Agrees, Counts
  <2>5. u.cnt[k] > 0
    <3>1. u.cnt[k] \in Nat
      BY <1>1, <1>2, <1>5, <1>7 DEF Changed, Kept
    <3> QED
      BY <1>1, <2>3, <3>1
  <2> QED
    BY <2>4, <2>5 DEF u, v
<1>8. CASE ~Off(s, k)
  <2>1. PICK n \in Nat : n = new_val(s, k)
    BY NewVal
  <2>2. Period(s, k) = n /\ n # Forever /\ n > 0 /\ n <= Longest
    BY <1>8, <2>1, PeriodOfChannel
  <2>3. v.out[k] = p.out[k] /\ v.cnt[k] = IF n # p.max[k] /\ p.cnt[k] > n THEN n ELSE p.cnt[k]
    BY <1>6, <1>8, <2>1, Zenon DEF Changed
  <2>4. u.out[k] = c.out[k] /\ u.cnt[k] = IF n # c.max[k] /\ c.cnt[k] > n THEN n ELSE c.cnt[k]
    BY <1>5, <1>8, <2>1, <2>2 DEF Changed, Kept
  <2>5. u.cnt[k] = v.cnt[k] /\ u.out[k] = v.out[k] /\ u.cnt[k] > 0 /\ u.cnt[k] \in Nat
    BY <1>1, <1>2, <1>3, <2>2, <2>3, <2>4
  <2>6. u.max[k] # Forever
    BY <1>4, <2>2
  <2>7. Agrees(s, u, v, k, 0)
    BY <2>5, <2>6 DEF Agrees, Counts
  <2> QED
    BY <2>5, <2>7 DEF u, v
<1> QED
  BY <1>7, <1>8
-----------------------------------------------------------------------------
(* A clock of the plain chip, and the events of a chip *)

\* The plain chip after a clock.
LEMMA TickedPlain ==
  ASSUME NEW r \in Registers, NEW p \in PlainChip
  PROVE  LET q == Ticked(r, p)
         IN  /\ q \in PlainChip /\ q.t = p.t + 1 /\ q.max = p.max
             /\ \A k \in Channels :
                  IF Counts(p, k) /\ p.cnt[k] = 1
                  THEN q.cnt[k] = p.max[k] /\ q.out[k] = Flipped(r, p, k, p.t + 1)
                  ELSE /\ q.cnt[k] = IF Counts(p, k) THEN p.cnt[k] - 1 ELSE p.cnt[k]
                       /\ q.out[k] = p.out[k]
<1> DEFINE t == p.t + 1
           reloads(k) == Counts(p, k) /\ p.cnt[k] = 1
           flips(k) == Toggles(r, k, p.out[k], t % POLY4_SIZE, t % POLY5_SIZE, t % POLY9_SIZE, t % POLY17_SIZE)
           N == [k \in Channels |-> IF reloads(k) THEN p.max[k]
                                    ELSE IF Counts(p, k) THEN p.cnt[k] - 1 ELSE p.cnt[k]]
           O == [k \in Channels |-> IF reloads(k) /\ flips(k) THEN 1 - p.out[k] ELSE p.out[k]]
           q == Ticked(r, p)
<1>1. \A k \in Channels : p.max[k] \in Nat /\ p.cnt[k] \in Int /\ p.out[k] \in Bit
  BY DEF PlainChip
<1>2. t \in Nat
  BY DEF PlainChip
<1>3. N \in [Channels -> Int] /\ O \in [Channels -> Bit]
  <2> HIDE DEF reloads, flips
  <2> QED
    BY <1>1 DEF Bit
<1>4. q = [p EXCEPT !.t = t, !.cnt = N, !.out = O]
  BY Zenon DEF Ticked
<1>5. \A k \in Channels : IF reloads(k)
        THEN N[k] = p.max[k] /\ O[k] = Flipped(r, p, k, t)
        ELSE N[k] = (IF Counts(p, k) THEN p.cnt[k] - 1 ELSE p.cnt[k]) /\ O[k] = p.out[k]
  <2> TAKE k \in Channels
  <2>1. O[k] = IF reloads(k) /\ flips(k) THEN 1 - p.out[k] ELSE p.out[k]
    BY Zenon
  <2>2. N[k] = IF reloads(k) THEN p.max[k] ELSE IF Counts(p, k) THEN p.cnt[k] - 1 ELSE p.cnt[k]
    BY Zenon
  <2>3. Flipped(r, p, k, t) = IF flips(k) THEN 1 - p.out[k] ELSE p.out[k]
    BY Zenon DEF Flipped
  <2> HIDE DEF reloads, flips, N, O, t
  <2> QED
    BY <2>1, <2>2, <2>3
<1>6. q \in PlainChip /\ q.t = t /\ q.max = p.max /\ q.cnt = N /\ q.out = O
  <2> HIDE DEF N, O, t, q
  <2> QED
    BY <1>2, <1>3, <1>4 DEF PlainChip
<1> HIDE DEF N, O, q
<1>7. \A k \in Channels : IF reloads(k)
        THEN q.cnt[k] = p.max[k] /\ q.out[k] = Flipped(r, p, k, t)
        ELSE q.cnt[k] = (IF Counts(p, k) THEN p.cnt[k] - 1 ELSE p.cnt[k]) /\ q.out[k] = p.out[k]
  BY <1>5, <1>6, Zenon
<1> QED
  BY <1>6, <1>7, Zenon DEF q

\* A clock of the plain chip, before the channel is due.
LEMMA ClockAgrees ==
  ASSUME NEW r \in Registers, NEW c \in Counters, NEW p \in PlainChip, NEW k \in Channels,
         NEW d \in Nat, c.max[k] = p.max[k], d + 1 <= c.cnt[k], Agrees(r, c, p, k, d)
  PROVE  Agrees(r, c, Ticked(r, p), k, d + 1)
<1> DEFINE q == Ticked(r, p)
<1>1. /\ q.t = p.t + 1
      /\ IF Counts(p, k) /\ p.cnt[k] = 1
         THEN q.cnt[k] = p.max[k] /\ q.out[k] = Flipped(r, p, k, p.t + 1)
         ELSE /\ q.cnt[k] = IF Counts(p, k) THEN p.cnt[k] - 1 ELSE p.cnt[k]
              /\ q.out[k] = p.out[k]
  BY TickedPlain, Zenon
<1>2. Counts(c, k) <=> Counts(p, k)
  BY DEF Counts
<1>3. c.cnt[k] \in Nat /\ p.cnt[k] \in Int /\ p.t \in Nat
  BY DEF Counters, PlainChip
<1> SUFFICES Agrees(r, c, q, k, d + 1)
  OBVIOUS
<1> HIDE DEF q
<1>4. CASE ~Counts(c, k)
  BY <1>1, <1>2, <1>4 DEF Agrees
<1>5. CASE Counts(c, k)
  <2>1. p.cnt[k] = c.cnt[k] - d /\ p.out[k] = c.out[k]
    BY <1>3, <1>5 DEF Agrees
  <2>2. Flipped(r, p, k, p.t + 1) = Flipped(r, c, k, p.t + 1)
    BY <2>1, Zenon DEF Flipped
  <2>3. CASE c.cnt[k] = d + 1
    <3>1. q.cnt[k] = c.max[k] /\ q.out[k] = Flipped(r, c, k, q.t)
      BY <1>1, <1>2, <1>3, <1>5, <2>1, <2>2, <2>3
    <3> QED
      BY <1>3, <1>5, <2>3, <3>1 DEF Agrees
  <2>4. CASE c.cnt[k] # d + 1
    <3>1. q.cnt[k] = c.cnt[k] - (d + 1) /\ q.out[k] = c.out[k]
      BY <1>1, <1>2, <1>3, <1>5, <2>1, <2>4
    <3> QED
      BY <1>3, <1>5, <2>4, <3>1 DEF Agrees
  <2> QED
    BY <2>3, <2>4
<1> QED
  BY <1>4, <1>5

\* Time passes for the counters of a chip.
LEMMA ElapsedChip ==
  ASSUME NEW c \in Counters, NEW d \in Nat, \A k \in Channels : d <= c.cnt[k]
  PROVE  LET e == Elapsed(c, d)
         IN  /\ e \in Counters /\ e.max = c.max /\ e.out = c.out
             /\ \A k \in Channels : e.cnt[k] = c.cnt[k] - d
             /\ e.p4 = c.p4 /\ e.p5 = c.p5 /\ e.p9 = c.p9 /\ e.p17 = c.p17
             /\ e.Poly_adjust = c.Poly_adjust + d
<1> DEFINE N == [k \in Channels |-> c.cnt[k] - d]
           a == c.Poly_adjust + d
           e == Elapsed(c, d)
<1>1. N \in [Channels -> Nat] /\ a \in Nat
  BY DEF Counters
<1>2. e = [c EXCEPT !.cnt = N, !.Poly_adjust = a]
  BY Zenon DEF Elapsed
<1>3. \A k \in Channels : N[k] = c.cnt[k] - d
  OBVIOUS
<1> HIDE DEF N, a, e
<1>4. /\ e \in Counters /\ e.max = c.max /\ e.out = c.out /\ e.cnt = N
      /\ e.p4 = c.p4 /\ e.p5 = c.p5 /\ e.p9 = c.p9 /\ e.p17 = c.p17
      /\ e.Poly_adjust = a
  BY <1>1, <1>2 DEF Counters
<1> QED
  BY <1>3, <1>4, Zenon DEF e, a

\* The lengths of the polynomials.
LEMMA Sizes ==
  /\ POLY4_SIZE \in Nat \ {0} /\ POLY5_SIZE \in Nat \ {0}
  /\ POLY9_SIZE \in Nat \ {0} /\ POLY17_SIZE \in Nat \ {0}
BY DEF POLY4_SIZE, POLY5_SIZE, POLY9_SIZE, POLY17_SIZE

\* A channel of a chip reloads.
LEMMA EventChip ==
  ASSUME NEW r \in Registers, NEW c \in Counters, NEW k \in Channels
  PROVE  LET u  == channel_event(c, r, k)
             p4  == (c.p4 + c.Poly_adjust) % POLY4_SIZE
             p5  == (c.p5 + c.Poly_adjust) % POLY5_SIZE
             p9  == (c.p9 + c.Poly_adjust) % POLY9_SIZE
             p17 == (c.p17 + c.Poly_adjust) % POLY17_SIZE
         IN  /\ u \in Counters /\ u.max = c.max
             /\ u.p4 = p4 /\ u.p5 = p5 /\ u.p9 = p9 /\ u.p17 = p17 /\ u.Poly_adjust = 0
             /\ u.cnt[k] = c.cnt[k] + c.max[k]
             /\ u.out[k] = IF Toggles(r, k, c.out[k], p4, p5, p9, p17) THEN 1 - c.out[k] ELSE c.out[k]
             /\ \A j \in Channels : j # k => u.cnt[j] = c.cnt[j] /\ u.out[j] = c.out[j]
<1> DEFINE p4  == (c.p4 + c.Poly_adjust) % POLY4_SIZE
           p5  == (c.p5 + c.Poly_adjust) % POLY5_SIZE
           p9  == (c.p9 + c.Poly_adjust) % POLY9_SIZE
           p17 == (c.p17 + c.Poly_adjust) % POLY17_SIZE
           n == c.cnt[k] + c.max[k]
           o == IF Toggles(r, k, c.out[k], p4, p5, p9, p17) THEN 1 - c.out[k] ELSE c.out[k]
           N == [c.cnt EXCEPT ![k] = n]
           O == [c.out EXCEPT ![k] = o]
           u == channel_event(c, r, k)
<1>1. /\ c.cnt \in [Channels -> Nat] /\ c.max \in [Channels -> Nat] /\ c.out \in [Channels -> Bit]
      /\ c.p4 \in Nat /\ c.p5 \in Nat /\ c.p9 \in Nat /\ c.p17 \in Nat /\ c.Poly_adjust \in Nat
  BY DEF Counters
<1>2. p4 \in Nat /\ p5 \in Nat /\ p9 \in Nat /\ p17 \in Nat
  <2>1. \A m \in Nat \ {0} : \A x \in Nat : x % m \in Nat
    OBVIOUS
  <2>2. /\ c.p4 + c.Poly_adjust \in Nat /\ c.p5 + c.Poly_adjust \in Nat
        /\ c.p9 + c.Poly_adjust \in Nat /\ c.p17 + c.Poly_adjust \in Nat
    BY <1>1
  <2> QED
    BY <2>1, <2>2, Sizes, Zenon
<1>3. n \in Nat
  BY <1>1
<1>4. o \in Bit
  BY <1>1 DEF Bit
<1>5. u = [out |-> O, cnt |-> N, max |-> c.max,
           p4 |-> p4, p5 |-> p5, p9 |-> p9, p17 |-> p17, Poly_adjust |-> 0]
  BY Zenon DEF channel_event
<1> HIDE DEF p4, p5, p9, p17, n, o
<1>6. /\ N \in [Channels -> Nat] /\ O \in [Channels -> Bit] /\ N[k] = n /\ O[k] = o
      /\ \A j \in Channels : j # k => N[j] = c.cnt[j] /\ O[j] = c.out[j]
  BY <1>1, <1>3, <1>4
<1> HIDE DEF N, O, u
<1>7. /\ u \in Counters /\ u.max = c.max /\ u.cnt = N /\ u.out = O
      /\ u.p4 = p4 /\ u.p5 = p5 /\ u.p9 = p9 /\ u.p17 = p17 /\ u.Poly_adjust = 0
  BY <1>1, <1>2, <1>5, <1>6 DEF Counters
<1> QED
  BY <1>6, <1>7, Zenon DEF p4, p5, p9, p17, n, o, u

\* The polynomial counters stay equal to the clock when both move on.
LEMMA PolynomialsMove ==
  ASSUME NEW c \in Counters, NEW t \in Nat, NEW d \in Nat, Polynomials(c, t)
  PROVE  /\ (c.p4 + c.Poly_adjust + d) % POLY4_SIZE = (t + d) % POLY4_SIZE
         /\ (c.p5 + c.Poly_adjust + d) % POLY5_SIZE = (t + d) % POLY5_SIZE
         /\ (c.p9 + c.Poly_adjust + d) % POLY9_SIZE = (t + d) % POLY9_SIZE
         /\ (c.p17 + c.Poly_adjust + d) % POLY17_SIZE = (t + d) % POLY17_SIZE
<1>1. \A m \in Nat \ {0} : \A a \in Int : a % m = t % m => (a + d) % m = (t + d) % m
  <2> TAKE m \in Nat \ {0}
  <2> TAKE a \in Int
  <2> HAVE a % m = t % m
  <2>1. t \in Int /\ d \in Int
    OBVIOUS
  <2> QED
    BY <2>1, Modulo
<1>2. /\ c.p4 + c.Poly_adjust \in Int /\ c.p5 + c.Poly_adjust \in Int
      /\ c.p9 + c.Poly_adjust \in Int /\ c.p17 + c.Poly_adjust \in Int
  BY DEF Counters
<1> QED
  BY <1>1, <1>2, Sizes, Zenon DEF Polynomials

\* Time passes for a chip, without an event or with one.
LEMMA PolynomialsElapse ==
  ASSUME NEW c \in Counters, NEW t \in Nat, NEW d \in Nat, Polynomials(c, t),
         \A k \in Channels : d <= c.cnt[k]
  PROVE  Polynomials(Elapsed(c, d), t + d)
<1> DEFINE e == Elapsed(c, d)
<1>1. /\ e.p4 = c.p4 /\ e.p5 = c.p5 /\ e.p9 = c.p9 /\ e.p17 = c.p17
      /\ e.Poly_adjust = c.Poly_adjust + d
  BY ElapsedChip, Zenon
<1>2. /\ c.p4 + (c.Poly_adjust + d) = c.p4 + c.Poly_adjust + d
      /\ c.p5 + (c.Poly_adjust + d) = c.p5 + c.Poly_adjust + d
      /\ c.p9 + (c.Poly_adjust + d) = c.p9 + c.Poly_adjust + d
      /\ c.p17 + (c.Poly_adjust + d) = c.p17 + c.Poly_adjust + d
  BY DEF Counters
<1> HIDE DEF e
<1>3. /\ (c.p4 + (c.Poly_adjust + d)) % POLY4_SIZE = (t + d) % POLY4_SIZE
      /\ (c.p5 + (c.Poly_adjust + d)) % POLY5_SIZE = (t + d) % POLY5_SIZE
      /\ (c.p9 + (c.Poly_adjust + d)) % POLY9_SIZE = (t + d) % POLY9_SIZE
      /\ (c.p17 + (c.Poly_adjust + d)) % POLY17_SIZE = (t + d) % POLY17_SIZE
  BY <1>2, PolynomialsMove
<1>4. Polynomials(e, t + d)
  BY <1>1, <1>3, Zenon DEF Polynomials
<1> QED
  BY <1>4 DEF e

\* At an event the polynomial counters catch up with the clock, and the channel
\* flips as it does in a chip that counts every clock.
LEMMA PolynomialsCatchUp ==
  ASSUME NEW r \in Registers, NEW c \in Counters, NEW k \in Channels, NEW t \in Nat,
         Polynomials(c, t)
  PROVE  /\ Polynomials(channel_event(c, r, k), t)
         /\ channel_event(c, r, k).out[k] = Flipped(r, c, k, t)
<1> DEFINE u == channel_event(c, r, k)
<1>1. /\ u.p4 = (c.p4 + c.Poly_adjust) % POLY4_SIZE /\ u.p5 = (c.p5 + c.Poly_adjust) % POLY5_SIZE
      /\ u.p9 = (c.p9 + c.Poly_adjust) % POLY9_SIZE /\ u.p17 = (c.p17 + c.Poly_adjust) % POLY17_SIZE
      /\ u.Poly_adjust = 0 /\ u \in Counters
      /\ u.out[k] = IF Toggles(r, k, c.out[k], u.p4, u.p5, u.p9, u.p17)
                    THEN 1 - c.out[k] ELSE c.out[k]
  BY EventChip, ZenonT(40)
<1> HIDE DEF u
<1>2. u.p4 = t % POLY4_SIZE /\ u.p5 = t % POLY5_SIZE /\ u.p9 = t % POLY9_SIZE /\ u.p17 = t % POLY17_SIZE
  BY <1>1, Zenon DEF Polynomials
<1>3. u.p4 + 0 = u.p4 /\ u.p5 + 0 = u.p5 /\ u.p9 + 0 = u.p9 /\ u.p17 + 0 = u.p17
  BY <1>1 DEF Counters
<1>4. \A m \in Nat \ {0} : (t % m) % m = t % m
  <2> TAKE m \in Nat \ {0}
  <2>1. t \in Int
    OBVIOUS
  <2> QED
    BY <2>1, Modulo
<1>5. Polynomials(u, t)
  BY <1>1, <1>2, <1>3, <1>4, Sizes, Zenon DEF Polynomials
<1>6. u.out[k] = Flipped(r, c, k, t)
  BY <1>1, <1>2, Zenon DEF Flipped
<1> QED
  BY <1>5, <1>6 DEF u
-----------------------------------------------------------------------------
(* A chip and the plain one come to the same *)

\* The chip comes to a sample, where no channel is due, and agrees with the
\* plain chip that went ahead.
LEMMA ElapsedAgrees ==
  ASSUME NEW r \in Registers, NEW c \in Counters, NEW p \in PlainChip, NEW d \in Nat,
         \A j \in Channels : d <= c.cnt[j], NEW k \in Channels,
         c.cnt[k] # d, Agrees(r, c, p, k, d), Counts(c, k) \/ c.cnt[k] - d > Longest
  PROVE  /\ Agrees(r, Elapsed(c, d), p, k, 0) /\ Elapsed(c, d).cnt[k] > 0
         /\ p.out[k] = c.out[k]
<1> DEFINE e == Elapsed(c, d)
<1>1. e.max[k] = c.max[k] /\ e.out[k] = c.out[k] /\ e.cnt[k] = c.cnt[k] - d
  BY ElapsedChip, Zenon
<1>2. c.cnt[k] \in Nat /\ c.cnt[k] > d
  BY DEF Counters
<1> SUFFICES Agrees(r, e, p, k, 0) /\ e.cnt[k] > 0 /\ p.out[k] = c.out[k]
  OBVIOUS
<1> HIDE DEF e
<1>3. Counts(e, k) <=> Counts(c, k)
  BY <1>1 DEF Counts
<1>4. CASE Counts(c, k)
  <2>1. p.cnt[k] = c.cnt[k] - d /\ p.out[k] = c.out[k]
    BY <1>2, <1>4, Zenon DEF Agrees
  <2> QED
    BY <1>1, <1>2, <1>3, <1>4, <2>1 DEF Agrees
<1>5. CASE ~Counts(c, k)
  <2>1. p.cnt[k] = Forever /\ c.out[k] = 1 /\ p.out[k] = 1
    BY <1>5, Zenon DEF Agrees
  <2> QED
    BY <1>1, <1>2, <1>3, <1>5, <2>1 DEF Agrees
<1> QED
  BY <1>4, <1>5

\* Channel k reloads: it agrees, and so do the others, some of them due as well.
LEMMA EventAgrees ==
  ASSUME NEW r \in Registers, NEW c \in Counters, NEW p \in PlainChip, NEW d \in Nat,
         \A j \in Channels : d <= c.cnt[j],
         NEW k \in Channels, c.cnt[k] = d, Counts(c, k), c.max[k] > 0,
         Polynomials(Elapsed(c, d), p.t),
         NEW j \in Channels, Agrees(r, c, p, j, d), Counts(c, j) \/ c.cnt[j] - d > Longest
  PROVE  Agrees(r, channel_event(Elapsed(c, d), r, k), p, j, 0)
<1> DEFINE e == Elapsed(c, d)
           u == channel_event(e, r, k)
<1>1. /\ e \in Counters /\ e.max = c.max /\ e.out = c.out
      /\ e.cnt[j] = c.cnt[j] - d /\ e.cnt[k] = c.cnt[k] - d
  BY ElapsedChip, Zenon
<1>2. /\ u.max = e.max
      /\ IF j = k THEN u.cnt[j] = e.cnt[k] + e.max[k]
                  ELSE u.cnt[j] = e.cnt[j] /\ u.out[j] = e.out[j]
  <2>1. /\ u.max = e.max /\ u.cnt[k] = e.cnt[k] + e.max[k]
        /\ \A i \in Channels : i # k => u.cnt[i] = e.cnt[i] /\ u.out[i] = e.out[i]
    BY <1>1, EventChip, ZenonT(40)
  <2> HIDE DEF u, e
  <2> QED
    BY <2>1
<1>3. u.out[k] = Flipped(r, e, k, p.t)
  <2>1. p.t \in Nat
    BY DEF PlainChip
  <2> QED
    BY <1>1, <2>1, PolynomialsCatchUp
<1>4. /\ c.cnt[j] \in Nat /\ c.cnt[k] \in Nat /\ c.max[k] \in Nat /\ d <= c.cnt[j]
      /\ p.cnt[j] \in Int
  BY DEF Counters, PlainChip
<1> SUFFICES Agrees(r, u, p, j, 0)
  OBVIOUS
<1> HIDE DEF e, u
<1>5. Counts(u, j) <=> Counts(c, j)
  BY <1>1, <1>2 DEF Counts
<1>6. Flipped(r, e, j, p.t) = Flipped(r, c, j, p.t)
  BY <1>1, Zenon DEF Flipped
<1>7. CASE j = k
  <2>1. p.cnt[k] = c.max[k] /\ p.out[k] = Flipped(r, c, k, p.t)
    BY <1>7, Zenon DEF Agrees
  <2>2. u.cnt[k] = c.max[k] /\ u.out[k] = p.out[k] /\ u.cnt[k] > 0 /\ u.cnt[k] \in Nat
    BY <1>1, <1>2, <1>3, <1>4, <1>6, <1>7, <2>1
  <2> QED
    BY <1>5, <1>7, <2>1, <2>2 DEF Agrees
<1>8. CASE j # k /\ ~Counts(c, j)
  <2>1. p.cnt[j] = Forever /\ c.out[j] = 1 /\ p.out[j] = 1 /\ c.cnt[j] - d > Longest
    BY <1>8, Zenon DEF Agrees
  <2> QED
    BY <1>1, <1>2, <1>5, <1>8, <2>1 DEF Agrees
<1>9. CASE j # k /\ Counts(c, j)
  <2>1. u.cnt[j] = c.cnt[j] - d /\ u.out[j] = c.out[j] /\ u.max[j] = c.max[j]
    BY <1>1, <1>2, <1>9
  <2>2. CASE c.cnt[j] = d
    <3>1. p.cnt[j] = c.max[j] /\ p.out[j] = Flipped(r, c, j, p.t)
      BY <1>9, <2>2, Zenon DEF Agrees
    <3>2. Flipped(r, u, j, p.t) = Flipped(r, c, j, p.t)
      BY <2>1, Zenon DEF Flipped
    <3>3. u.cnt[j] = 0
      BY <1>4, <2>1, <2>2
    <3> QED
      BY <1>5, <1>9, <2>1, <3>1, <3>2, <3>3 DEF Agrees
  <2>3. CASE c.cnt[j] # d
    <3>1. p.cnt[j] = c.cnt[j] - d /\ p.out[j] = c.out[j]
      BY <1>4, <1>9, <2>3 DEF Agrees
    <3>2. u.cnt[j] # 0 /\ u.cnt[j] \in Nat /\ p.cnt[j] = u.cnt[j] - 0
      BY <1>4, <2>1, <2>3, <3>1
    <3> QED
      BY <1>5, <1>9, <2>1, <3>1, <3>2 DEF Agrees
  <2> QED
    BY <2>2, <2>3
<1> QED
  BY <1>7, <1>8, <1>9

\* A channel adds at most 30 to the output, or takes it away.
LEMMA SwingFits ==
  ASSUME NEW r \in Registers, NEW out \in [Channels -> Bit], NEW k \in Channels, NEW side \in 0 .. 1
  PROVE  /\ Volume(r, k, side) \in 0 .. 60
         /\ Swing(r, out, k, side) \in Int
         /\ -30 <= Swing(r, out, k, side) /\ Swing(r, out, k, side) <= 30
<1>1. Volume(r, k, side) \in 0 .. 60
  <2>1. r.AUDV[k] \in 0 .. 60
    BY DEF Registers
  <2> QED
    BY <2>1 DEF Volume
<1>2. \A v \in 0 .. 60, o \in Bit :
        /\ o * v - v \div 2 \in Int /\ -30 <= o * v - v \div 2 /\ o * v - v \div 2 <= 30
  BY DEF Bit
<1>3. out[k] \in Bit
  OBVIOUS
<1> QED
  BY <1>1, <1>2, <1>3, Zenon DEF Swing

\* The output is a byte, so that nothing is clipped.
LEMMA OutputIsByte ==
  ASSUME NEW r \in Registers, NEW out \in [Channels -> Bit]
  PROVE  /\ Output(r, out) \in [0 .. 1 -> Int]
         /\ [side \in 0 .. 1 |-> Clip(Output(r, out)[side])] = Output(r, out)
<1>1. \A side \in 0 .. 1 :
        /\ Output(r, out)[side] \in Int
        /\ 0 <= Output(r, out)[side] /\ Output(r, out)[side] <= 255
  <2> TAKE side \in 0 .. 1
  <2> DEFINE s1 == Swing(r, out, 1, side)
             s2 == Swing(r, out, 2, side)
             s3 == Swing(r, out, 3, side)
             s4 == Swing(r, out, 4, side)
  <2>1. 1 \in Channels /\ 2 \in Channels /\ 3 \in Channels /\ 4 \in Channels
    BY DEF Channels
  <2>2. /\ s1 \in Int /\ -30 <= s1 /\ s1 <= 30 /\ s2 \in Int /\ -30 <= s2 /\ s2 <= 30
        /\ s3 \in Int /\ -30 <= s3 /\ s3 <= 30 /\ s4 \in Int /\ -30 <= s4 /\ s4 <= 30
    BY <2>1, SwingFits, Zenon
  <2>3. Output(r, out)[side] = 128 + s1 + s2 + s3 + s4
    BY DEF Output
  <2> HIDE DEF s1, s2, s3, s4
  <2> QED
    BY <2>2, <2>3
<1>2. Output(r, out) = [side \in 0 .. 1 |-> Output(r, out)[side]]
  BY Zenon DEF Output
<1>3. \A side \in 0 .. 1 : Clip(Output(r, out)[side]) = Output(r, out)[side]
  BY <1>1 DEF Clip
<1> QED
  BY <1>1, <1>2, <1>3

\* The output follows a channel.
LEMMA OutputMoves ==
  ASSUME NEW r \in Registers, NEW out \in [Channels -> Bit], NEW new \in [Channels -> Bit],
         NEW k \in Channels, \A j \in Channels : j # k => new[j] = out[j],
         NEW side \in 0 .. 1
  PROVE  Output(r, new)[side] = IF new[k] = out[k] THEN Output(r, out)[side]
                                ELSE IF new[k] = 1 THEN Output(r, out)[side] + Volume(r, k, side)
                                ELSE Output(r, out)[side] - Volume(r, k, side)
<1> DEFINE a(j) == Swing(r, out, j, side)
           b(j) == Swing(r, new, j, side)
           v == Volume(r, k, side)
<1>1. Output(r, out)[side] = 128 + a(1) + a(2) + a(3) + a(4)
  BY DEF Output
<1>2. Output(r, new)[side] = 128 + b(1) + b(2) + b(3) + b(4)
  BY DEF Output
<1>3. \A j \in Channels : j # k => b(j) = a(j)
  BY DEF Swing
<1>4. \A j \in Channels : a(j) \in Int
  BY SwingFits
<1>5. v \in Int /\ v \div 2 \in Int
  <2>1. v \in 0 .. 60
    BY SwingFits
  <2> HIDE DEF v
  <2> QED
    BY <2>1
<1>6. b(k) = IF new[k] = out[k] THEN a(k) ELSE IF new[k] = 1 THEN a(k) + v ELSE a(k) - v
  <2>1. a(k) = out[k] * v - v \div 2 /\ b(k) = new[k] * v - v \div 2
    BY DEF Swing
  <2>2. out[k] \in Bit /\ new[k] \in Bit
    OBVIOUS
  <2> HIDE DEF v, a, b
  <2> QED
    BY <1>5, <2>1, <2>2 DEF Bit
<1>7. 1 \in Channels /\ 2 \in Channels /\ 3 \in Channels /\ 4 \in Channels
  BY DEF Channels
<1>8. k = 1 \/ k = 2 \/ k = 3 \/ k = 4
  BY DEF Channels
<1> HIDE DEF a, b, v
<1> QED
  <2>1. a(1) \in Int /\ a(2) \in Int /\ a(3) \in Int /\ a(4) \in Int
    BY <1>4, <1>7
  <2>2. CASE k = 1
    <3>1. b(2) = a(2) /\ b(3) = a(3) /\ b(4) = a(4)
      BY <1>3, <1>7, <2>2
    <3> QED
      BY <1>1, <1>2, <1>5, <1>6, <2>1, <2>2, <3>1 DEF v
  <2>3. CASE k = 2
    <3>1. b(1) = a(1) /\ b(3) = a(3) /\ b(4) = a(4)
      BY <1>3, <1>7, <2>3
    <3> QED
      BY <1>1, <1>2, <1>5, <1>6, <2>1, <2>3, <3>1 DEF v
  <2>4. CASE k = 3
    <3>1. b(1) = a(1) /\ b(2) = a(2) /\ b(4) = a(4)
      BY <1>3, <1>7, <2>4
    <3> QED
      BY <1>1, <1>2, <1>5, <1>6, <2>1, <2>4, <3>1 DEF v
  <2>5. CASE k = 4
    <3>1. b(1) = a(1) /\ b(2) = a(2) /\ b(3) = a(3)
      BY <1>3, <1>7, <2>5
    <3> QED
      BY <1>1, <1>2, <1>5, <1>6, <2>1, <2>5, <3>1 DEF v
  <2> QED
    BY <1>8, <2>2, <2>3, <2>4, <2>5

\* The least of a sample and the channels.
Least(s, cnt) == Lesser(Lesser(Lesser(Lesser(s, cnt[1]), cnt[2]), cnt[3]), cnt[4])

\* It is one of them, and none is less.
LEMMA LeastFits ==
  ASSUME NEW s \in Nat, NEW cnt \in [Channels -> Nat]
  PROVE  /\ Least(s, cnt) \in Nat /\ Least(s, cnt) <= s
         /\ \A k \in Channels : Least(s, cnt) <= cnt[k]
         /\ Least(s, cnt) = s \/ \E k \in Channels : Least(s, cnt) = cnt[k]
<1>1. 1 \in Channels /\ 2 \in Channels /\ 3 \in Channels /\ 4 \in Channels
  BY DEF Channels
<1>2. \A k \in Channels : k = 1 \/ k = 2 \/ k = 3 \/ k = 4
  BY DEF Channels
<1>3. \A a, b \in Nat : /\ Lesser(a, b) \in Nat /\ Lesser(a, b) <= a /\ Lesser(a, b) <= b
                        /\ Lesser(a, b) = a \/ Lesser(a, b) = b
  BY DEF Lesser
<1>4. PICK a \in Nat : a = Lesser(s, cnt[1]) /\ a <= s /\ a <= cnt[1] /\ (a = s \/ a = cnt[1])
  BY <1>1, <1>3, ZenonT(40)
<1>5. PICK b \in Nat : b = Lesser(a, cnt[2]) /\ b <= a /\ b <= cnt[2] /\ (b = a \/ b = cnt[2])
  BY <1>1, <1>3, ZenonT(40)
<1>6. PICK c \in Nat : c = Lesser(b, cnt[3]) /\ c <= b /\ c <= cnt[3] /\ (c = b \/ c = cnt[3])
  BY <1>1, <1>3, ZenonT(40)
<1>7. PICK d \in Nat : d = Lesser(c, cnt[4]) /\ d <= c /\ d <= cnt[4] /\ (d = c \/ d = cnt[4])
  BY <1>1, <1>3, ZenonT(40)
<1>8. Least(s, cnt) = d
  BY <1>4, <1>5, <1>6, <1>7, Zenon DEF Least
<1>9. cnt[1] \in Nat /\ cnt[2] \in Nat /\ cnt[3] \in Nat /\ cnt[4] \in Nat
  BY <1>1
<1>10. d <= s /\ d <= cnt[1] /\ d <= cnt[2] /\ d <= cnt[3] /\ d <= cnt[4]
  BY <1>4, <1>5, <1>6, <1>7, <1>9
<1>11. d = s \/ d = cnt[1] \/ d = cnt[2] \/ d = cnt[3] \/ d = cnt[4]
  BY <1>4, <1>5, <1>6, <1>7
<1> QED
  BY <1>1, <1>2, <1>8, <1>10, <1>11

\* The next event is the next of those that are due.
LEMMA NextEvent ==
  ASSUME PokeyTypes
  PROVE  /\ event_min \in Nat /\ event_min <= Samp_n_cnt \div 256
         /\ \A k \in Channels : event_min <= chips[chip].cnt[k]
         /\ \/ event_min = Samp_n_cnt \div 256
            \/ \E k \in Channels : event_min = chips[chip].cnt[k]
<1> DEFINE s == Samp_n_cnt \div 256
           cnt == chips[chip].cnt
<1>1. s \in Nat /\ cnt \in [Channels -> Nat]
  BY DEF PokeyTypes, Counters
<1>2. event_min = Least(s, cnt)
  BY Zenon DEF event_min, Least
<1> HIDE DEF s, cnt
<1>3. /\ event_min \in Nat /\ event_min <= s
      /\ \A k \in Channels : event_min <= cnt[k]
      /\ event_min = s \/ \E k \in Channels : event_min = cnt[k]
  BY <1>1, <1>2, LeastFits
<1> QED
  BY <1>3, Zenon DEF s, cnt

\* There is one after a step, too.
LEMMA NextEventLater ==
  ASSUME PokeyTypes'
  PROVE  event_min' \in Nat
<1> DEFINE s == Samp_n_cnt' \div 256
           cnt == chips'[chip'].cnt
<1>1. chips' \in [Chips -> Counters] /\ chip' \in Chips
  BY DEF PokeyTypes
<1>2. s \in Nat
  <2>1. Samp_n_cnt' \in Nat
    BY DEF PokeyTypes
  <2>2. \A n \in Nat : n \div 256 \in Nat
    OBVIOUS
  <2> QED
    BY <2>1, <2>2, Zenon
<1>3. s \in Nat /\ cnt \in [Channels -> Nat]
  <2>1. PICK c \in Counters : c = chips'[chip']
    BY <1>1
  <2>2. c.cnt \in [Channels -> Nat]
    BY DEF Counters
  <2>3. c.cnt = cnt
    BY <2>1, Zenon
  <2> HIDE DEF s, cnt
  <2> QED
    BY <1>2, <2>2, <2>3
<1>4. event_min' = Least(s, cnt)
  BY Zenon DEF event_min, Least
<1> HIDE DEF s, cnt
<1> QED
  BY <1>3, <1>4, LeastFits
-----------------------------------------------------------------------------
(* The steps of the Pokeys *)

\* What a program writes.
Writes == Chips \X (0 .. 15) \X Byte

\* sound_register_write is a write of the song, or a poke.
LEMMA WriteIsKnown ==
  ASSUME PokeyTypes, sound_register_write
  PROVE  /\ \E w \in Writes : pokey_update_sound(w[1], w[2], w[3])
         /\ tune' \in Seq(Writes)
<1>1. tune \in Seq(Writes)
  BY Zenon DEF PokeyTypes, Writes
<1>2. CASE tune # <<>> /\ tune' = Tail(tune) /\ pokey_update_sound(Head(tune)[1], Head(tune)[2], Head(tune)[3])
  <2>1. Head(tune) \in Writes /\ Tail(tune) \in Seq(Writes)
    BY <1>1, <1>2
  <2> QED
    BY <1>2, <2>1, Zenon
<1>3. CASE tune' = tune /\ \E w \in Pokes : pokey_update_sound(w[1], w[2], w[3])
  <2>1. Pokes \subseteq Writes
    BY PokeyAssumption, Zenon DEF Writes
  <2> QED
    BY <1>1, <1>3, <2>1, Zenon
<1> QED
  BY <1>2, <1>3, Zenon DEF sound_register_write

\* A write to a chip at rest.
LEMMA WriteToChip ==
  ASSUME PokeyTypes, PeriodsFit, PolynomialsFit, AheadInTime, stage = "rest",
         NEW i \in Chips, NEW reg \in 0 .. 15, NEW val \in Byte,
         pokey_update_sound(i, reg, val)
  PROVE  /\ registers' \in [Chips -> Registers] /\ chips' \in [Chips -> Counters]
         /\ by_clock' \in [Chips -> PlainChip]
         /\ \A j \in Chips : \A k \in Channels :
              /\ chips'[j].max[k] = Period(registers'[j], k)
              /\ by_clock'[j].max[k] = Period(registers'[j], k)
         /\ \A j \in Chips : Polynomials(chips'[j], clocks[j]) /\ by_clock'[j].t = by_clock[j].t
         /\ CountersAgree =>
              \A j \in Chips : \A k \in Channels :
                /\ Agrees(registers'[j], chips'[j], by_clock'[j], k, 0)
                /\ chips'[j].cnt[k] > 0
<1> DEFINE r == registers[i]
           s == Stored(registers[i], reg, val)
           c == chips[i]
           p == by_clock[i]
<1>1. r \in Registers /\ c \in Counters /\ p \in PlainChip
  BY DEF PokeyTypes
<1>2. s \in Registers
  BY <1>1, StoredType
<1>3. PICK mask \in chan_mask(s, reg) : chips' = [chips EXCEPT ![i] = Updated(@, s, mask)]
  BY DEF pokey_update_sound
<1>4. mask \in SUBSET Channels
  BY <1>3 DEF chan_mask, Channels
<1> DEFINE u == Updated(c, s, mask)
           v == Updated(p, s, Channels)
<1>5. u \in Counters /\ SamePolynomials(u, c)
  BY <1>1, <1>2, <1>4, UpdatedChip
<1>6. v \in PlainChip /\ v.t = p.t
  BY <1>1, <1>2, UpdatedPlain
<1>7. \A k \in Channels :
        /\ c.max[k] = Period(r, k) /\ p.max[k] = Period(r, k)
        /\ k \notin mask => Period(s, k) = Period(r, k)
  <2> TAKE k \in Channels
  <2>1. c.max[k] = Period(r, k) /\ p.max[k] = Period(r, k)
    BY DEF PeriodsFit
  <2>2. k \notin mask => Period(s, k) = Period(r, k)
    BY <1>1, <1>3, MaskCovers
  <2> QED
    BY <2>1, <2>2
<1>8. \A k \in Channels : u.max[k] = Period(s, k) /\ v.max[k] = Period(s, k)
  <2> TAKE k \in Channels
  <2> HIDE DEF r, s, c, p
  <2> QED
    BY <1>1, <1>2, <1>4, <1>7, UpdatedPeriods
<1>9. Polynomials(u, clocks[i])
  <2>1. Polynomials(c, clocks[i])
    BY DEF PolynomialsFit
  <2> HIDE DEF u, c
  <2> QED
    BY <1>5, <2>1, Zenon DEF Polynomials, SamePolynomials
<1>10. ASSUME CountersAgree, NEW k \in Channels PROVE Agrees(s, u, v, k, 0) /\ u.cnt[k] > 0
  <2>1. by_clock[i].t - clocks[i] = 0
    BY DEF AheadInTime, PokeyTypes
  <2>2. Agrees(r, c, p, k, 0) /\ c.cnt[k] > 0
    BY <1>10, <2>1, Zenon DEF CountersAgree
  <2> HIDE DEF r, s, c, p, u, v
  <2> QED
    BY <1>1, <1>2, <1>4, <1>7, <2>2, UpdatedAgrees DEF u, v
<1>11. \A j \in Chips : j # i => /\ registers'[j] = registers[j] /\ chips'[j] = chips[j]
                                 /\ by_clock'[j] = by_clock[j]
  BY <1>3 DEF pokey_update_sound, PokeyTypes
<1>12. registers'[i] = s /\ chips'[i] = u /\ by_clock'[i] = v
  BY <1>3 DEF pokey_update_sound, PokeyTypes
<1>13. /\ registers' \in [Chips -> Registers] /\ chips' \in [Chips -> Counters]
       /\ by_clock' \in [Chips -> PlainChip]
  <2>1. /\ registers' = [registers EXCEPT ![i] = s] /\ chips' = [chips EXCEPT ![i] = u]
        /\ by_clock' = [by_clock EXCEPT ![i] = v]
    BY <1>3 DEF pokey_update_sound
  <2> HIDE DEF s, u, v
  <2> QED
    BY <1>2, <1>5, <1>6, <2>1 DEF PokeyTypes
<1> HIDE DEF r, s, c, p, u, v
<1>14. \A j \in Chips : \A k \in Channels :
         /\ chips'[j].max[k] = Period(registers'[j], k)
         /\ by_clock'[j].max[k] = Period(registers'[j], k)
  BY <1>8, <1>11, <1>12, Zenon DEF PeriodsFit
<1>15. \A j \in Chips : Polynomials(chips'[j], clocks[j]) /\ by_clock'[j].t = by_clock[j].t
  BY <1>6, <1>9, <1>11, <1>12, Zenon DEF PolynomialsFit, p
<1>16. ASSUME CountersAgree, NEW j \in Chips, NEW k \in Channels
       PROVE  /\ Agrees(registers'[j], chips'[j], by_clock'[j], k, 0)
              /\ chips'[j].cnt[k] > 0
  <2>1. CASE j = i
    BY <1>10, <1>12, <1>16, <2>1, Zenon
  <2>2. CASE j # i
    <3>1. by_clock[j].t - clocks[j] = 0
      BY DEF AheadInTime, PokeyTypes
    <3> QED
      BY <1>11, <1>16, <2>2, <3>1, Zenon DEF CountersAgree
  <2> QED
    BY <2>1, <2>2
<1> QED
  BY <1>13, <1>14, <1>15, <1>16

\* A program writes a register.
LEMMA WriteKeeps ==
  ASSUME PokeyInv, sound_register_write
  PROVE  PokeyInv'
<1>1. PICK w \in Writes : pokey_update_sound(w[1], w[2], w[3])
  BY WriteIsKnown DEF PokeyInv
<1>2. tune' \in Seq(Writes)
  BY WriteIsKnown DEF PokeyInv
<1>3. w[1] \in Chips /\ w[2] \in 0 .. 15 /\ w[3] \in Byte
  BY DEF Writes
<1>4. /\ stage = "rest" /\ UNCHANGED <<Samp_n_cnt, stage, chip, samples_left, cur_val>>
      /\ UNCHANGED <<pokey_buffer, sound_buffer, clocks, began, heard, expected, overslept, calls>>
  BY DEF sound_register_write, processVars
<1>5. /\ registers' \in [Chips -> Registers] /\ chips' \in [Chips -> Counters]
      /\ by_clock' \in [Chips -> PlainChip]
      /\ \A j \in Chips : \A k \in Channels :
           /\ chips'[j].max[k] = Period(registers'[j], k)
           /\ by_clock'[j].max[k] = Period(registers'[j], k)
      /\ \A j \in Chips : Polynomials(chips'[j], clocks[j]) /\ by_clock'[j].t = by_clock[j].t
      /\ CountersAgree =>
           \A j \in Chips : \A k \in Channels :
             /\ Agrees(registers'[j], chips'[j], by_clock'[j], k, 0)
             /\ chips'[j].cnt[k] > 0
  BY <1>1, <1>3, <1>4, WriteToChip DEF PokeyInv
<1>6. \A j \in Chips : by_clock'[j].t - clocks'[j] = 0
  BY <1>4, <1>5 DEF PokeyInv, PokeyTypes, AheadInTime
<1>7. PokeyTypes'
  BY <1>2, <1>4, <1>5, Zenon DEF PokeyInv, PokeyTypes, Writes
<1>8. PeriodsFit' /\ PolynomialsFit'
  BY <1>4, <1>5, Zenon DEF PeriodsFit, PolynomialsFit
<1>9. AheadInTime'
  BY <1>4, <1>5 DEF PokeyInv, AheadInTime
<1>10. BuffersFit' /\ OutputFits'
  BY <1>4 DEF PokeyInv, BuffersFit, OutputFits
<1>11. PaceFits'
  BY <1>4 DEF PokeyInv, PaceFits, Fraction
<1>12. ~overslept' => CountersAgree' /\ SoundIsSame'
  <2>1. SUFFICES ASSUME ~overslept' PROVE CountersAgree' /\ SoundIsSame'
    OBVIOUS
  <2>2. CountersAgree /\ SoundIsSame
    BY <1>4, <2>1, Zenon DEF PokeyInv
  <2>3. CountersAgree'
    BY <1>5, <1>6, <2>2, Zenon DEF CountersAgree
  <2>4. SoundIsSame'
    BY <1>4, <2>2, Zenon DEF SoundIsSame
  <2> QED
    BY <2>3, <2>4
<1> QED
  BY <1>7, <1>8, <1>9, <1>10, <1>11, <1>12, Zenon DEF PokeyInv

\* sound_process begins with the first chip.
LEMMA ProcessKeeps ==
  ASSUME PokeyInv, sound_process
  PROVE  PokeyInv'
<1>1. /\ stage = "rest" /\ stage' = "play" /\ calls' = calls + 1
      /\ chip' = 0 /\ samples_left' = Samples
      /\ cur_val' = Output(registers[0], chips[0].out)
      /\ began' = [began EXCEPT ![0] = [clocks |-> clocks[0], cnt |-> Samp_n_cnt]]
      /\ pokey_buffer' = [i \in Chips |-> <<>>] /\ heard' = [i \in Chips |-> <<>>]
      /\ UNCHANGED <<registers, chips, Samp_n_cnt, sound_buffer, clocks, by_clock, expected,
                     overslept, tune>>
  BY Zenon DEF sound_process, Begins
<1>2. 0 \in Chips /\ 1 \in Chips /\ \A i \in Chips : i = 0 \/ i = 1
  BY DEF Chips
<1>3. PokeyTypes
  BY DEF PokeyInv
<1>4. PokeyTypes'
  <2>1. began' \in Beginnings
    BY <1>1, <1>2, <1>3 DEF PokeyTypes, Beginnings
  <2>2. calls' \in Nat
    BY <1>1, <1>3 DEF PokeyTypes
  <2>3. chip' \in Chips /\ stage' \in {"rest", "play", "mix"}
    BY <1>1, <1>2
  <2> QED
    BY <1>1, <1>3, <2>1, <2>2, <2>3, Zenon DEF PokeyTypes
<1>5. PeriodsFit' /\ PolynomialsFit'
  BY <1>1, Zenon DEF PokeyInv, PeriodsFit, PolynomialsFit
<1>6. \A i \in Chips : by_clock[i].t = clocks[i]
  BY <1>1 DEF PokeyInv, AheadInTime
<1>7. AheadInTime'
  <2>1. ahead' = 0
    <3>1. by_clock'[0].t = clocks'[0] /\ clocks'[0] \in Nat
      BY <1>1, <1>2, <1>3, <1>6 DEF PokeyTypes
    <3> QED
      BY <1>1, <3>1 DEF ahead
  <2>2. event_min' \in Nat
    BY <1>4, NextEventLater
  <2>3. ahead' \in Nat /\ ahead' <= event_min'
    BY <2>1, <2>2
  <2>4. \A i \in Chips : by_clock'[i].t = clocks'[i]
    BY <1>1, <1>6, Zenon
  <2> QED
    BY <2>3, <2>4, Zenon DEF AheadInTime
<1>8. BuffersFit'
  <2>1. pokey_buffer' \in Buffers
    BY <1>1 DEF Buffers
  <2>2. pokey_buffer'[0] = <<>> /\ pokey_buffer'[1] = <<>>
    BY <1>1, <1>2
  <2>3. samples_left' \in 1 .. Samples /\ Len(pokey_buffer'[chip']) + samples_left' = Samples
    BY <1>1, <2>2, PokeyAssumption
  <2> QED
    BY <1>1, <2>1, <2>2, <2>3 DEF BuffersFit
<1>9. OutputFits'
  BY <1>1, Zenon DEF OutputFits
<1>10. PaceFits'
  <2>1. began'[0] = [clocks |-> clocks[0], cnt |-> Samp_n_cnt]
    BY <1>1, <1>2, <1>3 DEF PokeyTypes, Beginnings
  <2>2. Played(0)' = 0
    <3>1. clocks'[0] \in Nat
      BY <1>1, <1>2, <1>3 DEF PokeyTypes
    <3> QED
      BY <1>1, <2>1, <3>1 DEF Played
  <2>3. IF calls = 0 THEN Samp_n_cnt = 0 ELSE Fraction(Samp_n_cnt)
    BY <1>1 DEF PokeyInv, PaceFits
  <2>4. /\ calls' > 0
        /\ IF calls' = 1 THEN began'[0].cnt = 0 ELSE Fraction(began'[0].cnt)
    BY <1>1, <1>3, <2>1, <2>3 DEF PokeyTypes
  <2>5. 256 * Played(chip)' + Samp_n_cnt'
          = (Samples - samples_left') * SampNMax + began'[chip'].cnt
    <3>1. Samples - samples_left' = 0 /\ 0 * SampNMax = 0
      BY <1>1, PokeyAssumption
    <3>2. began'[chip'].cnt = Samp_n_cnt' /\ Samp_n_cnt' \in Nat
      BY <1>1, <1>3, <2>1 DEF PokeyTypes
    <3>3. Played(chip)' = 0
      BY <1>1, <2>2 DEF Played
    <3> QED
      BY <3>1, <3>2, <3>3
  <2> QED
    <3>1. stage' = "play" /\ stage' # "rest" /\ stage' # "mix" /\ chip' # 1
      BY <1>1
    <3> QED
      BY <2>4, <2>5, <3>1, Zenon DEF PaceFits
<1>11. ~overslept' => CountersAgree' /\ SoundIsSame'
  <2>1. SUFFICES ASSUME ~overslept' PROVE CountersAgree' /\ SoundIsSame'
    OBVIOUS
  <2>2. CountersAgree /\ SoundIsSame
    BY <1>1, <2>1, Zenon DEF PokeyInv
  <2>3. CountersAgree'
    BY <1>1, <2>2, Zenon DEF CountersAgree
  <2>4. SoundIsSame'
    BY <1>1, <2>2, Zenon DEF SoundIsSame
  <2> QED
    BY <2>3, <2>4
<1> QED
  BY <1>4, <1>5, <1>7, <1>8, <1>9, <1>10, <1>11, Zenon DEF PokeyInv

\* The plain chip goes ahead by a clock.
LEMMA ClockKeeps ==
  ASSUME PokeyInv, Clock
  PROVE  PokeyInv'
<1> DEFINE r == registers[chip]
           c == chips[chip]
           p == by_clock[chip]
           q == Ticked(r, p)
           d == ahead
<1>1. PokeyTypes
  BY DEF PokeyInv
<1>2. /\ stage = "play" /\ d < event_min /\ by_clock' = [by_clock EXCEPT ![chip] = q]
      /\ UNCHANGED <<registers, chips, Samp_n_cnt, stage, chip, samples_left, cur_val>>
      /\ UNCHANGED <<pokey_buffer, sound_buffer, clocks, began, heard, expected, overslept, tune, calls>>
  BY DEF Clock, processVars
<1>3. /\ chip \in Chips /\ r \in Registers /\ c \in Counters /\ p \in PlainChip
      /\ clocks[chip] \in Nat
  BY <1>1 DEF PokeyTypes
<1>4. q \in PlainChip /\ q.t = p.t + 1 /\ q.max = p.max
  BY <1>3, TickedPlain
<1>5. /\ event_min \in Nat /\ event_min <= Samp_n_cnt \div 256
      /\ \A k \in Channels : event_min <= c.cnt[k]
  BY <1>1, NextEvent
<1>6. d \in Nat /\ d + 1 <= event_min
  BY <1>2, <1>5 DEF PokeyInv, AheadInTime
<1> HIDE DEF r, c, p, q, d
<1>7. by_clock'[chip] = q /\ \A i \in Chips : i # chip => by_clock'[i] = by_clock[i]
  BY <1>1, <1>2 DEF PokeyTypes
<1>8. by_clock' \in [Chips -> PlainChip]
  BY <1>1, <1>2, <1>4 DEF PokeyTypes
<1>9. PokeyTypes'
  BY <1>1, <1>2, <1>8, Zenon DEF PokeyTypes
<1>10. PeriodsFit'
  <2>1. PeriodsFit
    BY DEF PokeyInv
  <2>2. \A i \in Chips : by_clock'[i].max = by_clock[i].max
    BY <1>4, <1>7, Zenon DEF p
  <2> QED
    BY <1>2, <2>1, <2>2, Zenon DEF PeriodsFit
<1>11. PolynomialsFit'
  BY <1>2, Zenon DEF PokeyInv, PolynomialsFit
<1>12. ahead' = d + 1
  <2>1. ahead' = q.t - clocks[chip]
    BY <1>2, <1>7, Zenon DEF ahead
  <2>2. d = p.t - clocks[chip]
    BY DEF ahead, d, p
  <2>3. p.t \in Nat
    BY <1>3 DEF PlainChip
  <2> QED
    BY <1>3, <1>4, <2>1, <2>2, <2>3
<1>13. AheadInTime'
  <2>1. event_min' = event_min
    BY <1>2, Zenon DEF event_min
  <2>2. ahead' \in Nat /\ ahead' <= event_min'
    BY <1>5, <1>6, <1>12, <2>1
  <2>3. \A i \in Chips : i # chip => by_clock'[i].t = clocks[i]
    BY <1>7, Zenon DEF PokeyInv, AheadInTime
  <2> QED
    BY <1>2, <2>2, <2>3, Zenon DEF AheadInTime
<1>14. BuffersFit' /\ OutputFits' /\ PaceFits'
  BY <1>2, Zenon DEF PokeyInv, BuffersFit, OutputFits, PaceFits, Played, Whole
<1>15. ~overslept' => CountersAgree' /\ SoundIsSame'
  <2>1. SUFFICES ASSUME ~overslept' PROVE CountersAgree' /\ SoundIsSame'
    OBVIOUS
  <2>2. CountersAgree /\ SoundIsSame
    BY <1>2, <2>1, Zenon DEF PokeyInv
  <2>3. SoundIsSame'
    BY <1>2, <2>2, Zenon DEF SoundIsSame
  <2>4. \A i \in Chips : \A k \in Channels :
          Agrees(registers'[i], chips'[i], by_clock'[i], k, by_clock'[i].t - clocks'[i])
    <3> TAKE i \in Chips
    <3> TAKE k \in Channels
    <3>1. CASE i # chip
      BY <1>2, <1>7, <2>2, <3>1, Zenon DEF CountersAgree
    <3>2. CASE i = chip
      <4>1. Agrees(r, c, p, k, d)
        BY <1>3, <2>2, Zenon DEF CountersAgree, ahead, r, c, p, d
      <4>2. c.max[k] = p.max[k]
        BY <1>3, Zenon DEF PokeyInv, PeriodsFit, c, p
      <4>3. d + 1 <= c.cnt[k]
        <5>1. c.cnt[k] \in Nat
          BY <1>3 DEF Counters
        <5> QED
          BY <1>5, <1>6, <5>1
      <4>4. Agrees(r, c, q, k, d + 1)
        BY <1>3, <1>6, <4>1, <4>2, <4>3, ClockAgrees DEF q
      <4>5. q.t - clocks[chip] = d + 1
        BY <1>2, <1>7, <1>12, Zenon DEF ahead
      <4> QED
        BY <1>2, <1>7, <3>2, <4>4, <4>5, Zenon DEF r, c
    <3> QED
      BY <3>1, <3>2
  <2>5. CountersAgree'
    BY <1>2, <2>2, <2>4, Zenon DEF CountersAgree
  <2> QED
    BY <2>3, <2>5
<1> QED
  BY <1>9, <1>10, <1>11, <1>13, <1>14, <1>15, Zenon DEF PokeyInv

\* Both chips are mixed.
LEMMA MixKeeps ==
  ASSUME PokeyInv, Mix
  PROVE  PokeyInv'
<1>1. /\ stage = "mix" /\ stage' = "rest"
      /\ UNCHANGED <<registers, chips, Samp_n_cnt, chip, samples_left, cur_val, pokey_buffer>>
      /\ UNCHANGED <<clocks, began, by_clock, heard, overslept, tune, calls>>
  BY DEF Mix
<1>2. PokeyTypes
  BY DEF PokeyInv
<1>3. PokeyTypes'
  <2>1. stage' \in {"rest", "play", "mix"}
    BY <1>1
  <2> QED
    BY <1>1, <1>2, <2>1, Zenon DEF PokeyTypes
<1>4. PeriodsFit' /\ PolynomialsFit'
  BY <1>1, Zenon DEF PokeyInv, PeriodsFit, PolynomialsFit
<1>5. stage # "play" /\ stage' # "play" /\ stage' # "mix" /\ stage # "rest"
  BY <1>1
<1>6. AheadInTime' /\ BuffersFit' /\ OutputFits'
  BY <1>1, <1>5, Zenon DEF PokeyInv, AheadInTime, BuffersFit, OutputFits
<1>7. PaceFits'
  <2>1. calls > 0 /\ Fraction(Samp_n_cnt)
    BY <1>1, <1>5, Zenon DEF PokeyInv, PaceFits
  <2>2. calls # 0
    BY <2>1
  <2> QED
    BY <1>1, <1>5, <2>1, <2>2, Zenon DEF PaceFits
<1>8. ~overslept' => CountersAgree' /\ SoundIsSame'
  <2>1. SUFFICES ASSUME ~overslept' PROVE CountersAgree' /\ SoundIsSame'
    OBVIOUS
  <2>2. CountersAgree /\ SoundIsSame
    BY <1>1, <2>1, Zenon DEF PokeyInv
  <2>3. CountersAgree'
    BY <1>1, <1>5, <2>2, Zenon DEF CountersAgree
  <2> DEFINE b0 == pokey_buffer[0]
             b1 == pokey_buffer[1]
  <2>4. b0 \in Seq([0 .. 1 -> Int]) /\ b1 \in Seq([0 .. 1 -> Int]) /\ Len(b0) = Samples /\ Len(b1) = Samples
    BY <1>1 DEF PokeyInv, BuffersFit, Buffers, Chips
  <2>5. pokey_buffer = heard /\ pokey_buffer' = heard'
    BY <1>1, <2>2, Zenon DEF SoundIsSame
  <2> DEFINE mixed(a, b) == 256 * (a - 128) + 256 * (b - 128)
             sum(a, b)   == a + b - 256
             wide(v)     == 256 * v
  <2>6. /\ sound_buffer' = [i \in 1 .. Len(b0) |->
             [side \in 0 .. 1 |-> Int16(mixed(b0[i][side], b1[i][side]))]]
        /\ expected' = [i \in 1 .. Len(b0) |-> [side \in 0 .. 1 |-> sum(b0[i][side], b1[i][side])]]
    BY <2>5 DEF Mix
  <2>7. \A a, b \in Int : mixed(a, b) = wide(sum(a, b))
    OBVIOUS
  <2>8. \A i \in 1 .. Len(b0) : \A side \in 0 .. 1 : b0[i][side] \in Int /\ b1[i][side] \in Int
    <3> HIDE DEF b0, b1
    <3>1. \A i \in 1 .. Len(b0) : b0[i] \in [0 .. 1 -> Int]
      BY <2>4
    <3>2. \A i \in 1 .. Len(b0) : b1[i] \in [0 .. 1 -> Int]
      BY <2>4
    <3> QED
      BY <3>1, <3>2
  <2>9. sound_buffer' = [i \in DOMAIN expected' |-> [side \in 0 .. 1 |-> Int16(wide(expected'[i][side]))]]
    <3> HIDE DEF mixed, sum, wide, b0, b1
    <3>1. DOMAIN expected' = 1 .. Len(b0)
      BY <2>6, Zenon
    <3>2. \A i \in 1 .. Len(b0) : \A side \in 0 .. 1 :
            Int16(mixed(b0[i][side], b1[i][side])) = Int16(wide(expected'[i][side]))
      BY <2>6, <2>7, <2>8, Zenon
    <3> QED
      BY <2>6, <3>1, <3>2, Zenon
  <2>10. SoundIsSame'
    BY <2>5, <2>9 DEF SoundIsSame
  <2> QED
    BY <2>3, <2>10
<1> QED
  BY <1>3, <1>4, <1>6, <1>7, <1>8, Zenon DEF PokeyInv

\* A channel reloads before the next sample.
LEMMA EventKeeps ==
  ASSUME PokeyInv, Event
  PROVE  PokeyInv'
<1> DEFINE r == registers[chip]
           c == chips[chip]
           p == by_clock[chip]
           d == ahead
           e == Elapsed(c, d)
<1>1. PokeyTypes
  BY DEF PokeyInv
<1>2. PICK k \in Channels :
        LET u     == channel_event(e, r, k)
            moved == u.out[k] # c.out[k]
        IN  /\ c.cnt[k] = d
            /\ chips' = [chips EXCEPT ![chip] = u]
            /\ cur_val' = [side \in 0 .. 1 |->
                 IF ~moved THEN cur_val[side]
                 ELSE IF u.out[k] = 1 THEN cur_val[side] + Volume(r, k, side)
                 ELSE cur_val[side] - Volume(r, k, side)]
  BY Zenon DEF Event
<1> DEFINE u == channel_event(e, r, k)
<1>3. /\ stage = "play" /\ d = event_min /\ Samp_n_cnt' = Samp_n_cnt - 256 * d
      /\ clocks' = [clocks EXCEPT ![chip] = @ + d]
      /\ overslept' = (overslept \/ \E j \in Channels : ~Counts(c, j) /\ c.cnt[j] - d <= Longest)
      /\ UNCHANGED <<registers, stage, chip, samples_left, pokey_buffer, sound_buffer, began>>
      /\ UNCHANGED <<by_clock, heard, expected, tune, calls>>
  BY DEF Event, Passed, plainVars
<1>4. /\ chip \in Chips /\ r \in Registers /\ c \in Counters /\ p \in PlainChip
      /\ clocks[chip] \in Nat /\ Samp_n_cnt \in Nat
  BY <1>1 DEF PokeyTypes
<1>5. /\ d \in Nat /\ d <= Samp_n_cnt \div 256 /\ \A j \in Channels : d <= c.cnt[j]
  BY <1>1, <1>3, NextEvent
<1>6. /\ c.cnt[k] = d /\ chips' = [chips EXCEPT ![chip] = u]
      /\ \A side \in 0 .. 1 : cur_val'[side] =
           IF u.out[k] = c.out[k] THEN cur_val[side]
           ELSE IF u.out[k] = 1 THEN cur_val[side] + Volume(r, k, side)
           ELSE cur_val[side] - Volume(r, k, side)
      /\ DOMAIN cur_val' = 0 .. 1
  BY <1>2
<1> HIDE DEF r, c, p, d
<1>7. e \in Counters /\ e.max = c.max /\ e.out = c.out
  BY <1>4, <1>5, ElapsedChip
<1> HIDE DEF e
<1>8. /\ u \in Counters /\ u.max = c.max
      /\ \A j \in Channels : j # k => u.out[j] = c.out[j]
  BY <1>4, <1>7, EventChip
<1> HIDE DEF u
<1>9. chips'[chip] = u /\ \A i \in Chips : i # chip => chips'[i] = chips[i]
  BY <1>1, <1>6 DEF PokeyTypes
<1>10. clocks'[chip] = clocks[chip] + d /\ \A i \in Chips : i # chip => clocks'[i] = clocks[i]
  BY <1>1, <1>3 DEF PokeyTypes
<1>11. Samp_n_cnt' \in Nat
  BY <1>3, <1>4, <1>5
<1>12. PokeyTypes'
  <2>1. chips' \in [Chips -> Counters]
    BY <1>1, <1>6, <1>8 DEF PokeyTypes
  <2>2. clocks' \in [Chips -> Nat]
    <3>1. clocks[chip] + d \in Nat
      BY <1>4, <1>5
    <3> QED
      BY <1>1, <1>3, <3>1 DEF PokeyTypes
  <2>3. overslept' \in BOOLEAN
    BY <1>3
  <2> QED
    BY <1>1, <1>3, <1>11, <2>1, <2>2, <2>3, Zenon DEF PokeyTypes
<1>13. PeriodsFit'
  <2>1. PeriodsFit /\ \A i \in Chips : chips'[i].max = chips[i].max
    BY <1>8, <1>9, Zenon DEF PokeyInv, c
  <2> QED
    BY <1>3, <2>1, Zenon DEF PeriodsFit
<1>14. p.t = clocks[chip] + d /\ p.t \in Nat /\ clocks'[chip] = p.t
  <2>1. d = p.t - clocks[chip] /\ p.t \in Nat
    BY <1>4 DEF d, ahead, p, PlainChip
  <2> QED
    BY <1>4, <1>10, <2>1
<1>15. Polynomials(e, p.t)
  <2>1. Polynomials(c, clocks[chip])
    BY <1>4, Zenon DEF PokeyInv, PolynomialsFit, c
  <2> QED
    BY <1>4, <1>5, <1>14, <2>1, PolynomialsElapse DEF e
<1>16. PolynomialsFit'
  <2>1. Polynomials(u, p.t)
    BY <1>4, <1>7, <1>14, <1>15, PolynomialsCatchUp DEF u
  <2> QED
    BY <1>9, <1>10, <1>14, <2>1, Zenon DEF PokeyInv, PolynomialsFit
<1>17. ahead' = 0
  <2>1. ahead' = p.t - clocks'[chip]
    BY <1>3 DEF ahead, p
  <2> QED
    BY <1>14, <2>1
<1>18. AheadInTime'
  <2>1. event_min' \in Nat
    BY <1>12, NextEventLater
  <2>2. ahead' \in Nat /\ ahead' <= event_min'
    BY <1>17, <2>1
  <2>3. \A i \in Chips : i # chip => by_clock'[i].t = clocks'[i]
    BY <1>3, <1>10, Zenon DEF PokeyInv, AheadInTime
  <2> QED
    BY <1>3, <2>2, <2>3, Zenon DEF AheadInTime
<1>19. BuffersFit'
  BY <1>3, Zenon DEF PokeyInv, BuffersFit
<1>20. OutputFits'
  <2>1. cur_val = Output(r, c.out)
    BY <1>3, Zenon DEF PokeyInv, OutputFits, r, c
  <2>2. c.out \in [Channels -> Bit] /\ u.out \in [Channels -> Bit]
    BY <1>4, <1>8 DEF Counters
  <2>3. \A side \in 0 .. 1 : cur_val'[side] = Output(r, u.out)[side]
    <3> TAKE side \in 0 .. 1
    <3>1. Output(r, u.out)[side] =
            IF u.out[k] = c.out[k] THEN Output(r, c.out)[side]
            ELSE IF u.out[k] = 1 THEN Output(r, c.out)[side] + Volume(r, k, side)
            ELSE Output(r, c.out)[side] - Volume(r, k, side)
      BY <1>4, <1>8, <2>2, OutputMoves
    <3> QED
      BY <1>6, <2>1, <3>1
  <2>4. cur_val' = Output(r, u.out)
    <3>1. cur_val' = [side \in 0 .. 1 |-> cur_val'[side]]
      BY <1>2
    <3>2. Output(r, u.out) = [side \in 0 .. 1 |-> Output(r, u.out)[side]]
      BY Zenon DEF Output
    <3> QED
      BY <2>3, <3>1, <3>2
  <2> QED
    BY <1>3, <1>9, <2>4, Zenon DEF OutputFits, r
<1>21. PaceFits'
  <2>1. /\ calls > 0 /\ IF calls = 1 THEN began[0].cnt = 0 ELSE Fraction(began[0].cnt)
        /\ 256 * Played(chip) + Samp_n_cnt = (Samples - samples_left) * SampNMax + began[chip].cnt
        /\ chip = 1 => Whole(0, began[1].cnt) /\ Fraction(began[1].cnt)
    BY <1>3 DEF PokeyInv, PaceFits
  <2>2. 256 * Played(chip)' + Samp_n_cnt' = 256 * Played(chip) + Samp_n_cnt
    <3>1. Played(chip)' = Played(chip) + d /\ Played(chip) \in Int
      BY <1>1, <1>3, <1>4, <1>5, <1>10 DEF Played, PokeyTypes, Beginnings
    <3> QED
      BY <1>3, <1>4, <1>5, <3>1
  <2>3. chip = 1 => Played(0)' = Played(0)
    BY <1>3, <1>10 DEF Played, Chips
  <2>4. stage' # "rest" /\ stage' # "mix"
    BY <1>3
  <2>5. 256 * Played(chip)' + Samp_n_cnt' = (Samples - samples_left) * SampNMax + began[chip].cnt
    BY <2>1, <2>2
  <2>6. chip = 1 => Whole(0, began[1].cnt)'
    BY <1>3, <2>1, <2>3 DEF Whole
  <2> QED
    BY <1>3, <2>1, <2>4, <2>5, <2>6 DEF PaceFits
<1>22. ~overslept' => CountersAgree' /\ SoundIsSame'
  <2>1. SUFFICES ASSUME ~overslept' PROVE CountersAgree' /\ SoundIsSame'
    OBVIOUS
  <2>2. CountersAgree /\ SoundIsSame
    BY <1>3, <2>1, Zenon DEF PokeyInv
  <2>3. SoundIsSame'
    BY <1>3, <2>2, Zenon DEF SoundIsSame
  <2>4. \A j \in Channels : Counts(c, j) \/ c.cnt[j] - d > Longest
    <3> TAKE j \in Channels
    <3>1. c.cnt[j] \in Nat /\ Longest \in Nat
      BY <1>4 DEF Counters, Longest
    <3>2. Counts(c, j) \/ ~(c.cnt[j] - d <= Longest)
      BY <1>3, <2>1
    <3> QED
      BY <1>5, <3>1, <3>2
  <2>5. Counts(c, k)
    <3>1. ~(c.cnt[k] - d > Longest)
      BY <1>4, <1>5, <1>6 DEF Counters, Longest
    <3> QED
      BY <2>4, <3>1
  <2>6. c.max[k] > 0
    <3>1. c.max[k] = Period(r, k)
      BY <1>4, Zenon DEF PokeyInv, PeriodsFit, c, r
    <3> QED
      BY <1>4, <2>5, <3>1, PeriodOfChannel DEF Counts
  <2>7. \A i \in Chips : \A j \in Channels :
          Agrees(registers'[i], chips'[i], by_clock'[i], j, by_clock'[i].t - clocks'[i])
    <3> TAKE i \in Chips
    <3> TAKE j \in Channels
    <3>1. CASE i # chip
      BY <1>3, <1>9, <1>10, <2>2, <3>1, Zenon DEF CountersAgree
    <3>2. CASE i = chip
      <4>1. Agrees(r, c, p, j, d)
        BY <1>4, <2>2, Zenon DEF CountersAgree, ahead, r, c, p, d
      <4>2. Agrees(r, u, p, j, 0)
        BY <1>4, <1>5, <1>6, <1>15, <2>4, <2>5, <2>6, <4>1, EventAgrees DEF u, e
      <4>3. by_clock'[i].t - clocks'[i] = 0
        BY <1>3, <1>17, <3>2 DEF ahead
      <4> QED
        BY <1>3, <1>9, <3>2, <4>2, <4>3, Zenon DEF r, p
    <3> QED
      BY <3>1, <3>2
  <2>8. CountersAgree'
    BY <1>3, <1>9, <2>2, <2>7, Zenon DEF CountersAgree
  <2> QED
    BY <2>3, <2>8
<1> QED
  BY <1>12, <1>13, <1>16, <1>18, <1>19, <1>20, <1>21, <1>22, Zenon DEF PokeyInv

\* A sample is due: both chips are as far, and the buffers get it.
LEMMA SampleKeeps ==
  ASSUME PokeyInv, Sample
  PROVE  PokeyInv'
<1> DEFINE r == registers[chip]
           c == chips[chip]
           p == by_clock[chip]
           d == ahead
           e == Elapsed(c, d)
           x == [side \in 0 .. 1 |-> Clip(cur_val[side])]
           y == Output(r, p.out)
<1>1. PokeyTypes
  BY DEF PokeyInv
<1>2. /\ stage = "play" /\ d = event_min /\ \A k \in Channels : c.cnt[k] # d
      /\ chips' = [chips EXCEPT ![chip] = e]
      /\ Samp_n_cnt' = Samp_n_cnt - 256 * d + SampNMax
      /\ clocks' = [clocks EXCEPT ![chip] = @ + d]
      /\ overslept' = (overslept \/ \E j \in Channels : ~Counts(c, j) /\ c.cnt[j] - d <= Longest)
      /\ pokey_buffer' = [pokey_buffer EXCEPT ![chip] = Append(@, x)]
      /\ heard' = [heard EXCEPT ![chip] = Append(@, y)]
      /\ UNCHANGED <<registers, sound_buffer, by_clock, expected, tune, calls>>
  BY DEF Sample, Passed
<1>3. \/ /\ samples_left > 1 /\ samples_left' = samples_left - 1
         /\ UNCHANGED <<stage, chip, cur_val, began>>
      \/ /\ samples_left <= 1 /\ chip = 0 /\ stage' = stage /\ chip' = 1 /\ samples_left' = Samples
         /\ cur_val' = Output(registers[1], chips'[1].out)
         /\ began' = [began EXCEPT ![1] = [clocks |-> clocks[1], cnt |-> Samp_n_cnt']]
      \/ /\ samples_left <= 1 /\ chip = 1 /\ stage' = "mix"
         /\ UNCHANGED <<chip, samples_left, cur_val, began>>
  <2>1. chip = 0 \/ chip = 1
    BY <1>1 DEF PokeyTypes, Chips
  <2>2. samples_left \in Int
    BY <1>2 DEF PokeyInv, BuffersFit
  <2> QED
    BY <2>1, <2>2 DEF Sample, Begins
<1>4. /\ chip \in Chips /\ r \in Registers /\ c \in Counters /\ p \in PlainChip
      /\ clocks[chip] \in Nat /\ Samp_n_cnt \in Nat /\ SampNMax \in Nat /\ Samples \in Nat
  BY <1>1, PokeyAssumption DEF PokeyTypes
<1>5. /\ d \in Nat /\ d = Samp_n_cnt \div 256 /\ \A j \in Channels : d <= c.cnt[j]
  BY <1>1, <1>2, NextEvent
<1> HIDE DEF r, c, p, d, x, y
<1>6. e \in Counters /\ e.max = c.max /\ e.out = c.out
  BY <1>4, <1>5, ElapsedChip
<1> HIDE DEF e
<1>7. chips'[chip] = e /\ \A i \in Chips : i # chip => chips'[i] = chips[i]
  BY <1>1, <1>2 DEF PokeyTypes
<1>8. clocks'[chip] = clocks[chip] + d /\ \A i \in Chips : i # chip => clocks'[i] = clocks[i]
  BY <1>1, <1>2 DEF PokeyTypes
<1>9. Samp_n_cnt' \in Nat /\ Fraction(Samp_n_cnt')
  BY <1>2, <1>4, <1>5 DEF Fraction
<1>10. PokeyTypes'
  <2>1. chips' \in [Chips -> Counters]
    BY <1>1, <1>2, <1>6 DEF PokeyTypes
  <2>2. clocks' \in [Chips -> Nat]
    <3>1. clocks[chip] + d \in Nat
      BY <1>4, <1>5
    <3> QED
      BY <1>1, <1>2, <3>1 DEF PokeyTypes
  <2>3. overslept' \in BOOLEAN
    BY <1>2
  <2>4. chip' \in Chips /\ stage' \in {"rest", "play", "mix"}
    BY <1>2, <1>3, <1>4 DEF Chips
  <2>5. began' \in Beginnings
    <3>1. CASE began' = began
      BY <1>1, <3>1 DEF PokeyTypes
    <3>2. CASE began' = [began EXCEPT ![1] = [clocks |-> clocks[1], cnt |-> Samp_n_cnt']]
      BY <1>1, <1>9, <3>2 DEF PokeyTypes, Beginnings, Chips
    <3> QED
      BY <1>3, <3>1, <3>2
  <2> QED
    BY <1>1, <1>2, <1>9, <2>1, <2>2, <2>3, <2>4, <2>5, Zenon DEF PokeyTypes
<1>11. PeriodsFit'
  <2>1. PeriodsFit /\ \A i \in Chips : chips'[i].max = chips[i].max
    BY <1>6, <1>7, Zenon DEF PokeyInv, c
  <2> QED
    BY <1>2, <2>1, Zenon DEF PeriodsFit
<1>12. p.t = clocks[chip] + d /\ p.t \in Nat /\ clocks'[chip] = p.t
  <2>1. d = p.t - clocks[chip] /\ p.t \in Nat
    BY <1>4 DEF d, ahead, p, PlainChip
  <2> QED
    BY <1>4, <1>8, <2>1
<1>13. PolynomialsFit'
  <2>1. Polynomials(c, clocks[chip])
    BY <1>4, Zenon DEF PokeyInv, PolynomialsFit, c
  <2>2. Polynomials(e, p.t)
    BY <1>4, <1>5, <1>12, <2>1, PolynomialsElapse DEF e
  <2> QED
    BY <1>7, <1>8, <1>12, <2>2, Zenon DEF PokeyInv, PolynomialsFit
<1>14. \A i \in Chips : by_clock'[i].t = clocks'[i]
  BY <1>2, <1>8, <1>12, Zenon DEF PokeyInv, AheadInTime, p
<1>15. AheadInTime'
  <2>1. ahead' = 0
    <3>1. clocks'[chip'] \in Nat /\ by_clock'[chip'].t = clocks'[chip']
      BY <1>10, <1>14 DEF PokeyTypes
    <3> QED
      BY <3>1 DEF ahead
  <2>2. event_min' \in Nat
    BY <1>10, NextEventLater
  <2>3. ahead' \in Nat /\ ahead' <= event_min'
    BY <2>1, <2>2
  <2> QED
    BY <1>14, <2>3, Zenon DEF AheadInTime
<1>16. c.out \in [Channels -> Bit] /\ cur_val = Output(r, c.out)
  BY <1>2, <1>4 DEF PokeyInv, OutputFits, Counters, r, c
<1>17. x = Output(r, c.out) /\ x \in [0 .. 1 -> Int]
  BY <1>4, <1>16, OutputIsByte DEF x
<1>18. OutputFits'
  <2>1. CASE chip' = chip /\ cur_val' = cur_val
    BY <1>2, <1>6, <1>7, <1>16, <2>1, Zenon DEF OutputFits, r
  <2>2. CASE chip' = 1 /\ cur_val' = Output(registers[1], chips'[1].out)
    BY <1>2, <2>2, Zenon DEF OutputFits
  <2> QED
    BY <1>3, <2>1, <2>2
<1>19. BuffersFit'
  <2>1. /\ pokey_buffer \in Buffers
        /\ samples_left \in 1 .. Samples /\ Len(pokey_buffer[chip]) + samples_left = Samples
        /\ IF chip = 1 THEN Len(pokey_buffer[0]) = Samples ELSE pokey_buffer[1] = <<>>
    BY <1>2 DEF PokeyInv, BuffersFit
  <2>2. /\ pokey_buffer'[chip] = Append(pokey_buffer[chip], x)
        /\ \A i \in Chips : i # chip => pokey_buffer'[i] = pokey_buffer[i]
    BY <1>2, <1>4, <2>1 DEF Buffers
  <2>3. PICK b \in Seq([0 .. 1 -> Int]) : b = pokey_buffer[chip]
    BY <1>4, <2>1 DEF Buffers
  <2>4. Append(b, x) \in Seq([0 .. 1 -> Int]) /\ Len(Append(b, x)) = Len(b) + 1
    BY <1>17
  <2>5. pokey_buffer' \in Buffers
    BY <1>2, <1>4, <2>1, <2>3, <2>4 DEF Buffers
  <2>6. Len(pokey_buffer'[chip]) = Len(b) + 1 /\ Len(b) + samples_left = Samples /\ Len(b) \in Nat
    BY <2>1, <2>2, <2>3, <2>4
  <2>7. 0 \in Chips /\ 1 \in Chips /\ \A i \in Chips : i = 0 \/ i = 1
    BY DEF Chips
  <2>8. CASE samples_left > 1 /\ samples_left' = samples_left - 1 /\ UNCHANGED <<stage, chip>>
    <3>1. samples_left' \in 1 .. Samples /\ Len(pokey_buffer'[chip]) + samples_left' = Samples
      <4>1. PICK l \in Nat : l = Len(b)
        BY <2>6
      <4>2. PICK s \in Int : s = samples_left
        BY <2>1
      <4>3. s - 1 \in 1 .. Samples /\ (l + 1) + (s - 1) = Samples
        BY <1>4, <2>6, <2>8, <4>1, <4>2
      <4>4. Len(pokey_buffer'[chip]) = l + 1 /\ samples_left' = s - 1
        BY <2>6, <2>8, <4>1, <4>2, Zenon
      <4> QED
        BY <4>3, <4>4, Zenon
    <3>2. CASE chip = 1
      <4>1. Len(pokey_buffer'[0]) = Samples
        BY <2>1, <2>2, <2>7, <3>2
      <4> QED
        BY <1>2, <2>5, <2>8, <3>1, <3>2, <4>1 DEF BuffersFit
    <3>3. CASE chip = 0
      <4>1. pokey_buffer'[1] = <<>>
        BY <2>1, <2>2, <2>7, <3>3
      <4> QED
        BY <1>2, <2>5, <2>8, <3>1, <3>3, <4>1 DEF BuffersFit
    <3> QED
      BY <1>4, <2>7, <3>2, <3>3
  <2>9. CASE samples_left <= 1 /\ chip = 0 /\ stage' = stage /\ chip' = 1 /\ samples_left' = Samples
    <3>1. Len(pokey_buffer'[0]) = Samples
      BY <1>4, <2>1, <2>6, <2>9
    <3>2. pokey_buffer'[1] = <<>>
      BY <2>1, <2>2, <2>7, <2>9
    <3>3. samples_left' \in 1 .. Samples /\ Len(pokey_buffer'[1]) + samples_left' = Samples
      BY <2>9, <3>2, PokeyAssumption
    <3> QED
      BY <1>2, <2>5, <2>9, <3>1, <3>3 DEF BuffersFit
  <2>10. CASE samples_left <= 1 /\ chip = 1 /\ stage' = "mix"
    <3>1. Len(pokey_buffer'[1]) = Samples
      BY <1>4, <2>1, <2>6, <2>10
    <3>2. Len(pokey_buffer'[0]) = Samples
      BY <2>1, <2>2, <2>7, <2>10
    <3>3. \A i \in Chips : Len(pokey_buffer'[i]) = Samples
      BY <2>7, <3>1, <3>2
    <3> QED
      BY <2>5, <2>10, <3>3 DEF BuffersFit
  <2> QED
    BY <1>3, <2>8, <2>9, <2>10
<1>20. PaceFits'
  <2>1. /\ calls > 0 /\ IF calls = 1 THEN began[0].cnt = 0 ELSE Fraction(began[0].cnt)
        /\ 256 * Played(chip) + Samp_n_cnt = (Samples - samples_left) * SampNMax + began[chip].cnt
        /\ chip = 1 => Whole(0, began[1].cnt) /\ Fraction(began[1].cnt)
    BY <1>2 DEF PokeyInv, PaceFits
  <2>2. /\ samples_left \in 1 .. Samples /\ \A i \in Chips : began[i].clocks \in Nat /\ began[i].cnt \in Nat
    BY <1>1, <1>2 DEF PokeyInv, BuffersFit, PokeyTypes, Beginnings
  <2> DEFINE n == (clocks[chip] + d) - began[chip].clocks
  <2>3. n \in Int /\ n = Played(chip) + d /\ Played(chip) \in Int
    BY <1>4, <1>5, <2>2 DEF Played
  <2>4. 256 * n + Samp_n_cnt' = (Samples - (samples_left - 1)) * SampNMax + began[chip].cnt
    <3>1. PICK m \in Nat : m = Samples - samples_left
      BY <1>4, <2>2
    <3>2. (m + 1) * SampNMax = m * SampNMax + SampNMax /\ m * SampNMax \in Nat
      BY <1>4
    <3>3. Samples - (samples_left - 1) = m + 1
      BY <1>4, <2>2, <3>1
    <3>4. 256 * Played(chip) + Samp_n_cnt = m * SampNMax + began[chip].cnt
      BY <2>1, <3>1
    <3>5. 256 * n = 256 * Played(chip) + 256 * d
      BY <1>5, <2>3
    <3>6. PICK a \in Nat : a = m * SampNMax
      BY <3>2
    <3>7. (Samples - (samples_left - 1)) * SampNMax = a + SampNMax
      BY <3>2, <3>3, <3>6
    <3>8. PICK q \in Int : q = Played(chip)
      BY <2>3
    <3>9. PICK b \in Nat : b = began[chip].cnt
      BY <1>4, <2>2
    <3> HIDE DEF n
    <3>10. 256 * n + (Samp_n_cnt - 256 * d + SampNMax) = a + SampNMax + b
      <4>1. \A s, w, z \in Int : 256 * q + s = a + b => 256 * (q + z) + (s - 256 * z + w) = a + w + b
        OBVIOUS
      <4>2. 256 * q + Samp_n_cnt = a + b /\ n = q + d
        BY <2>3, <3>4, <3>6, <3>8, <3>9
      <4>3. Samp_n_cnt \in Int /\ d \in Int /\ SampNMax \in Int
        BY <1>4, <1>5
      <4> QED
        BY <4>1, <4>2, <4>3
    <3> QED
      BY <1>2, <3>7, <3>9, <3>10, Zenon
  <2> HIDE DEF n
  <2>5. 0 \in Chips /\ 1 \in Chips
    BY DEF Chips
  <2>6. CASE samples_left > 1 /\ samples_left' = samples_left - 1 /\ UNCHANGED <<stage, chip, began>>
    <3>1. Played(chip)' = n
      BY <1>8, <2>6, Zenon DEF Played, n
    <3>2. chip = 1 => Played(0)' = Played(0)
      BY <1>8, <2>5, <2>6 DEF Played
    <3>3. chip = 1 => Whole(0, began[1].cnt)'
      BY <2>1, <2>6, <3>2 DEF Whole
    <3> QED
      BY <1>2, <2>1, <2>4, <2>6, <3>1, <3>3 DEF PaceFits
  <2>7. CASE /\ samples_left <= 1 /\ chip = 0 /\ stage' = stage /\ chip' = 1 /\ samples_left' = Samples
             /\ began' = [began EXCEPT ![1] = [clocks |-> clocks[1], cnt |-> Samp_n_cnt']]
    <3>1. began'[1] = [clocks |-> clocks[1], cnt |-> Samp_n_cnt'] /\ began'[0] = began[0]
      BY <1>1, <2>5, <2>7 DEF PokeyTypes, Beginnings
    <3>2. Played(0)' = n /\ Played(1)' = 0
      <4>1. clocks'[1] = clocks[1] /\ clocks[1] \in Nat
        BY <1>1, <1>8, <2>5, <2>7 DEF PokeyTypes
      <4>2. Played(0)' = clocks'[0] - began'[0].clocks /\ Played(1)' = clocks'[1] - began'[1].clocks
        BY Zenon DEF Played
      <4>3. Played(0)' = n
        BY <1>8, <2>7, <3>1, <4>2, Zenon DEF n
      <4>4. Played(1)' = clocks[1] - clocks[1]
        BY <3>1, <4>1, <4>2
      <4> QED
        BY <4>1, <4>3, <4>4
    <3>3. Whole(0, began[1].cnt)'
      <4>1. Samples - (samples_left - 1) = Samples
        BY <1>4, <2>2, <2>7
      <4>2. 256 * n + Samp_n_cnt' = Samples * SampNMax + began[0].cnt
        BY <2>4, <2>7, <4>1
      <4> QED
        BY <2>7, <3>1, <3>2, <4>2 DEF Whole
    <3>4. 256 * Played(chip)' + Samp_n_cnt' = (Samples - samples_left') * SampNMax + began'[chip'].cnt
      <4>1. Samples - samples_left' = 0 /\ 0 * SampNMax = 0
        BY <1>4, <2>7
      <4>2. Played(chip)' = 0
        BY <2>7, <3>2 DEF Played
      <4> QED
        BY <1>9, <2>7, <3>1, <4>1, <4>2
    <3>5. Fraction(began[1].cnt)'
      BY <1>9, <3>1 DEF Fraction
    <3>6. stage' = "play" /\ chip' = 1
      BY <1>2, <2>7
    <3> QED
      BY <2>1, <1>2, <3>1, <3>3, <3>4, <3>5, <3>6 DEF PaceFits
  <2>8. CASE samples_left <= 1 /\ chip = 1 /\ stage' = "mix" /\ UNCHANGED <<chip, began>>
    <3>1. Played(1)' = n /\ Played(0)' = Played(0)
      <4>1. clocks'[1] = clocks[1] + d /\ clocks'[0] = clocks[0] /\ began' = began
        BY <1>8, <2>5, <2>8
      <4> QED
        BY <2>8, <4>1, Zenon DEF Played, n
    <3>2. Whole(0, began[1].cnt)'
      BY <2>1, <2>8, <3>1 DEF Whole
    <3>3. Whole(1, Samp_n_cnt)'
      <4>1. Samples - (samples_left - 1) = Samples
        BY <1>4, <2>2, <2>8
      <4>2. 256 * n + Samp_n_cnt' = Samples * SampNMax + began[1].cnt
        BY <2>4, <2>8, <4>1
      <4> QED
        BY <2>8, <3>1, <4>2 DEF Whole
    <3>4. Fraction(began[1].cnt)' /\ Fraction(Samp_n_cnt)'
      BY <1>9, <2>1, <2>8 DEF Fraction
    <3> QED
      BY <1>2, <2>1, <2>8, <3>2, <3>3, <3>4 DEF PaceFits
  <2> QED
    BY <1>3, <2>6, <2>7, <2>8
<1>21. ~overslept' => CountersAgree' /\ SoundIsSame'
  <2>1. SUFFICES ASSUME ~overslept' PROVE CountersAgree' /\ SoundIsSame'
    OBVIOUS
  <2>2. CountersAgree /\ SoundIsSame
    BY <1>2, <2>1, Zenon DEF PokeyInv
  <2>3. \A k \in Channels : Counts(c, k) \/ c.cnt[k] - d > Longest
    <3> TAKE k \in Channels
    <3>1. c.cnt[k] \in Nat /\ Longest \in Nat
      BY <1>4 DEF Counters, Longest
    <3>2. Counts(c, k) \/ ~(c.cnt[k] - d <= Longest)
      BY <1>2, <2>1
    <3> QED
      BY <1>5, <3>1, <3>2
  <2>4. \A k \in Channels : Agrees(r, e, p, k, 0) /\ e.cnt[k] > 0 /\ p.out[k] = c.out[k]
    <3> TAKE k \in Channels
    <3>1. Agrees(r, c, p, k, d)
      BY <1>4, <2>2, Zenon DEF CountersAgree, ahead, r, c, p, d
    <3> QED
      BY <1>2, <1>4, <1>5, <2>3, <3>1, ElapsedAgrees DEF e
  <2>5. \A i \in Chips : \A k \in Channels :
          /\ Agrees(registers'[i], chips'[i], by_clock'[i], k, by_clock'[i].t - clocks'[i])
          /\ chips'[i].cnt[k] > 0
    <3> TAKE i \in Chips
    <3> TAKE k \in Channels
    <3>1. CASE i # chip
      BY <1>2, <1>7, <1>8, <2>2, <3>1, Zenon DEF CountersAgree
    <3>2. CASE i = chip
      <4>1. by_clock'[i].t - clocks'[i] = 0
        <5>1. clocks'[i] \in Nat
          BY <1>10 DEF PokeyTypes
        <5> QED
          BY <1>14, <5>1
      <4> QED
        BY <1>2, <1>7, <2>4, <3>2, <4>1, Zenon DEF r, p
    <3> QED
      BY <3>1, <3>2
  <2>6. CountersAgree'
    BY <2>5, Zenon DEF CountersAgree
  <2>7. p.out = c.out
    BY <1>4, <2>4 DEF PlainChip, Counters
  <2>8. y = x
    BY <1>17, <2>7 DEF y
  <2>9. SoundIsSame'
    BY <1>2, <2>2, <2>8, Zenon DEF SoundIsSame
  <2> QED
    BY <2>6, <2>9
<1> QED
  BY <1>10, <1>11, <1>13, <1>15, <1>18, <1>19, <1>20, <1>21, Zenon DEF PokeyInv
-----------------------------------------------------------------------------
(* The invariant of the Pokeys, at the beginning and at every step *)

\* The chips begin silent.
LEMMA InitFits ==
  ASSUME PokeyInit
  PROVE  PokeyInv
<1>1. PICK song \in Songs :
        /\ registers = [i \in Chips |-> Stored(pokey_sound_init, 8, song.AUDCTL[i])]
        /\ tune = song.writes
  BY Zenon DEF PokeyInit
<1>2. /\ chips = [i \in Chips |-> Updated(counters_init, registers[i], Channels)]
      /\ by_clock = [i \in Chips |-> Updated(plain_init, registers[i], Channels)]
      /\ Samp_n_cnt = 0 /\ stage = "rest" /\ chip = 0 /\ calls = 0
      /\ pokey_buffer = [i \in Chips |-> <<>>] /\ heard = [i \in Chips |-> <<>>]
      /\ sound_buffer = <<>> /\ expected = <<>> /\ overslept = FALSE
      /\ clocks = [i \in Chips |-> 0] /\ began = [i \in Chips |-> [clocks |-> 0, cnt |-> 0]]
  BY Zenon DEF PokeyInit
<1>3. /\ tune \in Seq(Chips \X (0 .. 15) \X Byte)
      /\ \A i \in Chips : song.AUDCTL[i] \in Byte
  <2>1. song.writes \in Seq(Chips \X (0 .. 15) \X Byte) /\ song.AUDCTL \in [Chips -> Byte]
    BY PokeyAssumption, Zenon
  <2> QED
    BY <1>1, <2>1, Zenon
<1>4. pokey_sound_init \in Registers
  BY DEF pokey_sound_init, Registers, Byte
<1>5. counters_init \in Counters /\ plain_init \in PlainChip
  <2>1. Forever \in Nat /\ 0 \in Nat /\ 0 \in Int /\ 0 \in Bit
    BY DEF Forever, Bit
  <2>2. counters_init \in Counters
    BY <2>1 DEF counters_init, Counters
  <2>3. plain_init \in PlainChip
    BY <2>1 DEF plain_init, PlainChip
  <2> QED
    BY <2>2, <2>3
<1>6. \A i \in Chips : registers[i] \in Registers
  <2> TAKE i \in Chips
  <2>1. registers[i] = Stored(pokey_sound_init, 8, song.AUDCTL[i])
    BY <1>1, Zenon
  <2>2. 8 \in 0 .. 15
    OBVIOUS
  <2> QED
    BY <1>3, <1>4, <2>1, <2>2, StoredType, Zenon
<1>7. \A i \in Chips : \A k \in Channels : Off(registers[i], k)
  <2> TAKE i \in Chips
  <2> TAKE k \in Channels
  <2>1. registers[i].AUDC[k] = 0
    BY <1>1 DEF Stored, pokey_sound_init
  <2> QED
    BY <2>1 DEF Off
<1>8. \A i \in Chips :
        /\ chips[i] \in Counters /\ SamePolynomials(chips[i], counters_init)
        /\ \A k \in Channels : Changed(chips[i], counters_init, registers[i], k)
  <2> TAKE i \in Chips
  <2>1. chips[i] = Updated(counters_init, registers[i], Channels)
    BY <1>2, Zenon
  <2>2. Channels \in SUBSET Channels
    OBVIOUS
  <2> QED
    BY <1>5, <1>6, <2>1, <2>2, UpdatedChip, Zenon
<1>9. \A i \in Chips :
        /\ by_clock[i] \in PlainChip /\ by_clock[i].t = 0
        /\ \A k \in Channels : Changed(by_clock[i], plain_init, registers[i], k)
  <2> TAKE i \in Chips
  <2>1. by_clock[i] = Updated(plain_init, registers[i], Channels)
    BY <1>2, Zenon
  <2>2. plain_init.t = 0
    BY DEF plain_init
  <2> QED
    BY <1>5, <1>6, <2>1, <2>2, UpdatedPlain, Zenon
<1>10. \A i \in Chips : \A k \in Channels :
         /\ chips[i].max[k] = Forever /\ chips[i].cnt[k] = Forever /\ chips[i].out[k] = 1
         /\ by_clock[i].max[k] = Forever /\ by_clock[i].cnt[k] = Forever /\ by_clock[i].out[k] = 1
         /\ Period(registers[i], k) = Forever
  BY <1>6, <1>7, <1>8, <1>9, PeriodOfChannel, Zenon DEF Changed
<1>11. Forever \in Nat /\ Forever > Longest /\ Forever > 0
  BY DEF Forever, Longest
<1>12. PokeyTypes
  <2>1. registers \in [Chips -> Registers]
    BY <1>1, <1>6, Zenon
  <2>2. chips \in [Chips -> Counters] /\ by_clock \in [Chips -> PlainChip]
    BY <1>2, <1>8, <1>9, Zenon
  <2>3. began \in Beginnings /\ clocks \in [Chips -> Nat] /\ chip \in Chips
    BY <1>2 DEF Beginnings, Chips
  <2> QED
    BY <1>2, <1>3, <2>1, <2>2, <2>3 DEF PokeyTypes
<1>13. PeriodsFit
  BY <1>10, Zenon DEF PeriodsFit
<1>14. PolynomialsFit
  <2> SUFFICES ASSUME NEW i \in Chips PROVE Polynomials(chips[i], clocks[i])
    BY DEF PolynomialsFit
  <2>1. clocks[i] = 0
    BY <1>2, Zenon
  <2>2. /\ chips[i].p4 = 0 /\ chips[i].p5 = 0 /\ chips[i].p9 = 0 /\ chips[i].p17 = 0
        /\ chips[i].Poly_adjust = 0
    BY <1>8 DEF SamePolynomials, counters_init
  <2> QED
    BY <2>1, <2>2, 0 + 0 = 0, Zenon DEF Polynomials
<1>15. \A i \in Chips : by_clock[i].t = clocks[i]
  BY <1>2, <1>9
<1>16. AheadInTime
  BY <1>2, <1>15 DEF AheadInTime
<1>17. BuffersFit /\ OutputFits
  BY <1>2 DEF BuffersFit, OutputFits, Buffers
<1>18. PaceFits
  BY <1>2 DEF PaceFits
<1>19. CountersAgree
  <2> SUFFICES ASSUME NEW i \in Chips, NEW k \in Channels
               PROVE  /\ Agrees(registers[i], chips[i], by_clock[i], k, by_clock[i].t - clocks[i])
                      /\ chips[i].cnt[k] > 0
    BY Zenon DEF CountersAgree
  <2> QED
    BY <1>10, <1>11 DEF Agrees, Counts
<1>20. SoundIsSame
  <2>1. DOMAIN expected = {}
    BY <1>2
  <2>2. sound_buffer = [i \in DOMAIN expected |-> [side \in 0 .. 1 |-> Int16(256 * expected[i][side])]]
    BY <1>2, <2>1
  <2> QED
    BY <1>2, <2>2 DEF SoundIsSame
<1> QED
  BY <1>12, <1>13, <1>14, <1>16, <1>17, <1>18, <1>19, <1>20, Zenon DEF PokeyInv

\* What it says of what is heard.
LEMMA InvPlaysEveryClock ==
  ASSUME PokeyInv
  PROVE  PlaysEveryClock
<1> SUFFICES ASSUME ~overslept
             PROVE  /\ stage = "rest" => \A i \in Chips : SameState(chips[i], by_clock[i])
                    /\ SoundIsSame
  BY Zenon DEF PlaysEveryClock, SoundIsSame
<1>1. CountersAgree /\ SoundIsSame
  BY Zenon DEF PokeyInv
<1>2. ASSUME stage = "rest", NEW i \in Chips PROVE SameState(chips[i], by_clock[i])
  <2>1. by_clock[i].t - clocks[i] = 0
    BY <1>2 DEF PokeyInv, AheadInTime, PokeyTypes
  <2> SUFFICES ASSUME NEW k \in Channels
               PROVE  /\ chips[i].max[k] = by_clock[i].max[k] /\ chips[i].out[k] = by_clock[i].out[k]
                      /\ Counts(chips[i], k) => chips[i].cnt[k] = by_clock[i].cnt[k]
    BY Zenon DEF SameState
  <2>2. chips[i].max[k] = by_clock[i].max[k]
    BY Zenon DEF PokeyInv, PeriodsFit
  <2>3. Agrees(registers[i], chips[i], by_clock[i], k, 0) /\ chips[i].cnt[k] > 0
    BY <1>1, <1>2, <2>1, Zenon DEF CountersAgree
  <2>4. chips[i].cnt[k] \in Nat
    BY DEF PokeyInv, PokeyTypes, Counters
  <2> QED
    BY <2>2, <2>3, <2>4 DEF Agrees
<1> QED
  BY <1>1, <1>2

\* And of the pace of the chips.
LEMMA InvChipsKeepPace ==
  ASSUME PokeyInv
  PROVE  ChipsKeepPace
<1> SUFFICES ASSUME stage = "mix"
             PROVE  Played(1) - Played(0) \in
                      IF calls = 1 THEN SampNMax \div 256 .. SampNMax \div 256 + 2 ELSE -1 .. 1
  BY DEF ChipsKeepPace
<1>1. /\ Whole(0, began[1].cnt) /\ Fraction(began[1].cnt)
      /\ Whole(1, Samp_n_cnt) /\ Fraction(Samp_n_cnt)
      /\ IF calls = 1 THEN began[0].cnt = 0 ELSE Fraction(began[0].cnt)
  BY DEF PokeyInv, PaceFits
<1>2. /\ SampNMax \in Nat /\ Samples \in Nat
      /\ Samp_n_cnt \in Nat /\ began[0].cnt \in Nat /\ began[1].cnt \in Nat
      /\ Played(0) \in Int /\ Played(1) \in Int
  BY PokeyAssumption DEF PokeyInv, PokeyTypes, Beginnings, Played, Chips
<1>3. PICK x \in Int : x = Samples * SampNMax
  BY <1>2
<1> DEFINE b0 == began[0].cnt
           b1 == began[1].cnt
           n0 == Played(0)
           n1 == Played(1)
<1>4. /\ 256 * n0 + b1 = x + b0 /\ 256 * n1 + Samp_n_cnt = x + b1
      /\ b1 - SampNMax \in 0 .. 255 /\ Samp_n_cnt - SampNMax \in 0 .. 255
      /\ IF calls = 1 THEN b0 = 0 ELSE b0 - SampNMax \in 0 .. 255
  BY <1>1, <1>3 DEF Whole, Fraction
<1>5. CASE calls = 1
  BY <1>2, <1>4, <1>5
<1>6. CASE calls # 1
  BY <1>2, <1>4, <1>6
<1> QED
  BY <1>5, <1>6
\* Nothing happens to the Pokeys.
LEMMA PokeyStutterKeeps ==
  ASSUME PokeyInv, UNCHANGED pokeyVars
  PROVE  PokeyInv'
<1>1. /\ UNCHANGED <<registers, chips, Samp_n_cnt, stage, chip, samples_left, cur_val>>
      /\ UNCHANGED <<pokey_buffer, sound_buffer, clocks, began, by_clock, heard, expected>>
      /\ UNCHANGED <<overslept, tune, calls>>
  BY DEF pokeyVars, processVars, plainVars
<1>2. PokeyTypes' /\ PeriodsFit' /\ PolynomialsFit' /\ AheadInTime'
  BY <1>1, Zenon DEF PokeyInv, PokeyTypes, PeriodsFit, PolynomialsFit, AheadInTime, ahead, event_min
<1>3. BuffersFit' /\ OutputFits'
  BY <1>1, Zenon DEF PokeyInv, BuffersFit, OutputFits
<1>4. PaceFits'
  <2>1. PaceFits
    BY Zenon DEF PokeyInv
  <2>2. /\ Played(chip)' = Played(chip)
        /\ Whole(0, began[1].cnt)' = Whole(0, began[1].cnt)
        /\ Whole(1, Samp_n_cnt)' = Whole(1, Samp_n_cnt)
    BY <1>1, Zenon DEF Played, Whole
  <2> QED
    BY <1>1, <2>1, <2>2 DEF PaceFits, Fraction
<1>5. ~overslept' => CountersAgree' /\ SoundIsSame'
  BY <1>1, Zenon DEF PokeyInv, CountersAgree, SoundIsSame
<1> QED
  BY <1>2, <1>3, <1>4, <1>5, Zenon DEF PokeyInv

\* The invariant of the Pokeys holds after every step, an action of theirs or none.
LEMMA PokeyNextKeeps == PokeyInv /\ [PokeyNext]_pokeyVars => PokeyInv'
<1> SUFFICES ASSUME PokeyInv, [PokeyNext]_pokeyVars PROVE PokeyInv'
  OBVIOUS
<1>1. CASE sound_register_write
  BY <1>1, WriteKeeps
<1>2. CASE sound_process
  BY <1>2, ProcessKeeps
<1>3. CASE Clock
  BY <1>3, ClockKeeps
<1>4. CASE Event
  BY <1>4, EventKeeps
<1>5. CASE Sample
  BY <1>5, SampleKeeps
<1>6. CASE Mix
  BY <1>6, MixKeeps
<1>7. CASE UNCHANGED pokeyVars
  BY <1>7, PokeyStutterKeeps
<1> QED
  BY <1>1, <1>2, <1>3, <1>4, <1>5, <1>6, <1>7 DEF PokeyNext
-----------------------------------------------------------------------------
(* The theorems *)

\* Both invariants hold all the time: of a behaviour, the timers or the Pokeys
\* are at work, and the others stay as they are.
LEMMA DevicesInv == DevicesSpec => [](IInv /\ PokeyInv)
<1>1. DevicesInit => IInv /\ PokeyInv
  BY InitIsConsistent, InitFits DEF DevicesInit
<1>2. IInv /\ PokeyInv /\ [DevicesNext]_devicesVars => (IInv /\ PokeyInv)'
  <2>1. [DevicesNext]_devicesVars => [Next]_vars /\ [PokeyNext]_pokeyVars
    BY Zenon DEF DevicesNext, OfTimers, TimersStep, PokeysPlay, devicesVars
  <2> QED
    BY <2>1, NextKeeps, PokeyNextKeeps
<1> QED
  BY <1>1, <1>2, PTL DEF DevicesSpec

\* Whatever programs and callbacks do with the timers, none is in the list
\* twice, lost or free while it is in use, the list is sorted, and timers are
\* called at the time they were asked for: not later either, unless in the
\* slice one was enabled without a new time or the first was taken away.
THEOREM TimersKeep == DevicesSpec => []TimersKeepTheirTime
<1>1. IInv => TimersKeepTheirTime
  BY TimersInTime
<1> QED
  BY <1>1, DevicesInv, PTL

\* Whatever programs write to the Pokeys, in any order, and whatever bits the
\* mask of a write to AUDPAN has: jumping from event to event plays what
\* counting every clock does, unless a channel was left alone for twenty
\* minutes, and of the clocks of a call both chips play as many, up to one.
THEOREM PokeysSound == DevicesSpec => []SoundsAsClocked
<1>1. PokeyInv => SoundsAsClocked
  BY InvPlaysEveryClock, InvChipsKeepPace DEF SoundsAsClocked
<1> QED
  BY <1>1, DevicesInv, PTL
=============================================================================
