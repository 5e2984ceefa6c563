--------------------------- MODULE ScheduleProofs ---------------------------
(***************************************************************************)
(* Lemmas about the operators of Schedule: what the lists that             *)
(* insert_event() and finalize_schedule() build look like, where the walk  *)
(* of get_blocked_at_time() ends, and that the block list of a schedule    *)
(* does not change before the time get_next_unixtime() returns.            *)
(***************************************************************************)
EXTENDS Schedule, Induction, SequenceTheorems

IsByTime(list) == \A i, j \in DOMAIN list : i <= j => list[i].time <= list[j].time

(* The events of a payload: seconds since Sunday 00:00:00.                 *)
IsOfWeek(list) == \A i \in DOMAIN list : list[i].time \in 0 .. Week - 1

(* The last event of the week is also the one before the week, unless the  *)
(* week starts with an event of its own.                                   *)
RepeatsLast(w) ==
    /\ w[1] = [w[Len(w)] EXCEPT !.time = @ - Week]
    /\ \A i \in 2 .. Len(w) : w[i].time > 0

(* A weekly list finalize_schedule() has been called for.                  *)
IsFinal(w) ==
    /\ IsByTime(w)
    /\ \A i \in DOMAIN w : w[i].time < Week
    /\ \A i \in 2 .. Len(w) : w[i].time >= 0
    /\ w # << >> => w[1].time = 0 \/ RepeatsLast(w)

-----------------------------------------------------------------------------
(***************************************************************************)
(* The times of a list are numbers, and one of them is the earliest.       *)
(***************************************************************************)
LEMMA TimeIsInt ==
    ASSUME NEW list \in Seq(ScheduleEvent), NEW i \in DOMAIN list
    PROVE  list[i] \in ScheduleEvent /\ list[i].time \in Int
<1>1. list[i] \in ScheduleEvent
  OBVIOUS
<1> QED
  BY <1>1 DEF ScheduleEvent

-----------------------------------------------------------------------------
(***************************************************************************)
(* The walk of insert_event() stops, before the first event that is not    *)
(* earlier.                                                                *)
(***************************************************************************)
LEMMA InsertPositionStops ==
    ASSUME NEW list \in Seq(ScheduleEvent), NEW t \in Int
    PROVE  LET k == InsertPosition(list, t)
           IN  /\ k \in 1 .. Len(list) + 1
               /\ \A i \in 1 .. k - 1 : list[i].time < t
               /\ k \in DOMAIN list => list[k].time >= t
<1> DEFINE stops == {k \in 1 .. Len(list) + 1 : k \in DOMAIN list => list[k].time >= t}
<1>1. DOMAIN list = 1 .. Len(list) /\ Len(list) \in Nat
  OBVIOUS
<1>2. stops \in SUBSET Nat /\ Len(list) + 1 \in stops
  BY <1>1
<1>3. PICK k \in stops : \A j \in stops : k <= j
  BY <1>2, LeastNatural
<1>4. \A i \in 1 .. k - 1 : list[i].time < t
  <2> SUFFICES ASSUME NEW i \in 1 .. k - 1
               PROVE  list[i].time < t
    OBVIOUS
  <2>1. i \in DOMAIN list /\ i \in 1 .. Len(list) + 1 /\ ~(k <= i)
    BY <1>1, <1>3
  <2>2. ~(list[i].time >= t)
    BY <1>3, <2>1
  <2> QED
    BY <2>1, <2>2, TimeIsInt
<1> QED
  BY <1>3, <1>4 DEF InsertPosition

(***************************************************************************)
(* What the insertion of an element makes of a list, and of an order in    *)
(* which it has its place.                                                 *)
(***************************************************************************)
Insertion(list, k, e) == SubSeq(list, 1, k - 1) \o <<e>> \o SubSeq(list, k, Len(list))

LEMMA InsertionShape ==
    ASSUME NEW S, NEW list \in Seq(S), NEW e \in S, NEW k \in 1 .. Len(list) + 1
    PROVE  LET r == Insertion(list, k, e)
           IN  /\ r \in Seq(S)
               /\ Len(r) = Len(list) + 1
               /\ \A i \in 1 .. Len(r) :
                     r[i] = IF i < k THEN list[i] ELSE IF i = k THEN e ELSE list[i - 1]
<1> DEFINE front == SubSeq(list, 1, k - 1)
           back  == SubSeq(list, k, Len(list))
           one   == <<e>>
<1>2. Len(list) \in Nat /\ k \in Int /\ \A i \in 1 .. Len(list) : list[i] \in S
  OBVIOUS
<1>3. Insertion(list, k, e) = front \o one \o back
  BY DEF Insertion
<1>4. /\ front \in Seq(S) /\ Len(front) = k - 1
      /\ \A i \in 1 .. k - 1 : front[i] = list[i]
  BY <1>2
<1>5. /\ back \in Seq(S) /\ Len(back) = Len(list) - k + 1
      /\ \A i \in 1 .. Len(list) - k + 1 : back[i] = list[k + i - 1]
  BY <1>2
<1>6. one \in Seq(S) /\ Len(one) = 1 /\ one[1] = e
  OBVIOUS
<1> HIDE DEF front, back, one
<1> DEFINE most == front \o one
           all  == most \o back
<1>7. /\ most \in Seq(S) /\ Len(most) = k
      /\ \A i \in 1 .. k : most[i] = IF i < k THEN list[i] ELSE e
  <2>1. /\ most \in Seq(S) /\ Len(most) = Len(front) + Len(one)
        /\ \A i \in 1 .. Len(front) + Len(one) :
              most[i] = IF i <= Len(front) THEN front[i] ELSE one[i - Len(front)]
    BY <1>4, <1>6, ConcatProperties, Zenon
  <2> HIDE DEF most
  <2> QED
    BY <1>2, <1>4, <1>6, <2>1
<1> HIDE DEF most
<1>8. /\ all \in Seq(S) /\ Len(all) = Len(most) + Len(back)
      /\ \A i \in 1 .. Len(most) + Len(back) :
            all[i] = IF i <= Len(most) THEN most[i] ELSE back[i - Len(most)]
  BY <1>5, <1>7, ConcatProperties, Zenon
<1>9. Insertion(list, k, e) = all
  BY <1>3 DEF most
<1> HIDE DEF all
<1>10. Len(all) = Len(list) + 1
  BY <1>2, <1>5, <1>7, <1>8
<1>11. ASSUME NEW i \in 1 .. Len(list) + 1
       PROVE  all[i] = IF i < k THEN list[i] ELSE IF i = k THEN e ELSE list[i - 1]
  <2>1. all[i] = IF i <= k THEN most[i] ELSE back[i - k]
    BY <1>2, <1>5, <1>7, <1>8, <1>10
  <2>2. CASE i <= k
    BY <2>1, <2>2, <1>2, <1>7
  <2>3. CASE i > k
    <3>1. i - k \in 1 .. Len(list) - k + 1 /\ k + (i - k) - 1 = i - 1
      BY <2>3, <1>2
    <3> QED
      BY <2>1, <2>3, <3>1, <1>2, <1>5
  <2> QED
    BY <2>2, <2>3, <1>2
<1> QED
  BY <1>8, <1>9, <1>10, <1>11

IsInOrder(list, order) ==
    \A i, j \in DOMAIN list : i < j => <<list[i], list[j]>> \in order

LEMMA InsertionKeepsOrder ==
    ASSUME NEW S, NEW list \in Seq(S), NEW e \in S, NEW k \in 1 .. Len(list) + 1,
           NEW order, IsInOrder(list, order),
           \A i \in DOMAIN list : IF i < k THEN <<list[i], e>> \in order
                                  ELSE <<e, list[i]>> \in order
    PROVE  IsInOrder(Insertion(list, k, e), order)
<1> DEFINE r == Insertion(list, k, e)
           n == Len(list)
<1>1. /\ r \in Seq(S)
      /\ Len(r) = n + 1
      /\ \A i \in 1 .. n + 1 :
            r[i] = IF i < k THEN list[i] ELSE IF i = k THEN e ELSE list[i - 1]
  BY InsertionShape
<1>2. n \in Nat /\ DOMAIN list = 1 .. n /\ DOMAIN r = 1 .. n + 1
  BY <1>1
<1> HIDE DEF r
<1>3. SUFFICES ASSUME NEW i \in 1 .. n + 1, NEW j \in 1 .. n + 1, i < j
               PROVE  <<r[i], r[j]>> \in order
  BY <1>2 DEF IsInOrder, r
<1>4. CASE j < k
  <2>1. r[i] = list[i] /\ r[j] = list[j] /\ i \in DOMAIN list /\ j \in DOMAIN list
    BY <1>1, <1>2, <1>3, <1>4
  <2> QED
    BY <2>1, <1>3 DEF IsInOrder
<1>5. CASE j = k
  <2>1. r[i] = list[i] /\ r[j] = e /\ i \in DOMAIN list /\ i < k
    BY <1>1, <1>2, <1>3, <1>5
  <2> QED
    BY <2>1
<1>6. CASE j > k /\ i < k
  <2>1. /\ r[i] = list[i] /\ r[j] = list[j - 1]
        /\ i \in DOMAIN list /\ j - 1 \in DOMAIN list /\ i < j - 1
    BY <1>1, <1>2, <1>3, <1>6
  <2> QED
    BY <2>1 DEF IsInOrder
<1>7. CASE j > k /\ i = k
  <2>1. r[i] = e /\ r[j] = list[j - 1] /\ j - 1 \in DOMAIN list /\ ~(j - 1 < k)
    BY <1>1, <1>2, <1>3, <1>7
  <2> QED
    BY <2>1
<1>8. CASE i > k
  <2>1. /\ r[i] = list[i - 1] /\ r[j] = list[j - 1]
        /\ i - 1 \in DOMAIN list /\ j - 1 \in DOMAIN list /\ i - 1 < j - 1
    BY <1>1, <1>2, <1>3, <1>8
  <2> QED
    BY <2>1 DEF IsInOrder
<1> QED
  BY <1>4, <1>5, <1>6, <1>7, <1>8, <1>2

(***************************************************************************)
(* What an insertion that is not refused makes of a list.                  *)
(***************************************************************************)
LEMMA InsertEventShape ==
    ASSUME NEW list \in Seq(ScheduleEvent), NEW e \in ScheduleEvent, ~IsRefused(list, e),
           NEW k, k = InsertPosition(list, e.time)
    PROVE  LET r == InsertEvent(list, e)
           IN  /\ r \in Seq(ScheduleEvent)
               /\ Len(r) = Len(list) + 1
               /\ \A i \in 1 .. Len(r) :
                     r[i] = IF i < k THEN list[i] ELSE IF i = k THEN e ELSE list[i - 1]
<1>1. e.time \in Int
  BY DEF ScheduleEvent
<1>2. k \in 1 .. Len(list) + 1
  BY <1>1, InsertPositionStops
<1>3. InsertEvent(list, e) = Insertion(list, k, e)
  BY DEF InsertEvent, Insertion
<1> QED
  BY <1>2, <1>3, InsertionShape

(***************************************************************************)
(* insert_event() keeps a list sorted, and adds at most the new event.     *)
(***************************************************************************)
LEMMA InsertKeepsSorted ==
    ASSUME NEW list \in Seq(ScheduleEvent), NEW e \in ScheduleEvent, IsByTime(list)
    PROVE  LET r == InsertEvent(list, e)
           IN  /\ r \in Seq(ScheduleEvent)
               /\ IsByTime(r)
               /\ \A i \in DOMAIN r : r[i] = e \/ \E j \in DOMAIN list : r[i] = list[j]
<1>1. CASE IsRefused(list, e)
  BY <1>1 DEF InsertEvent
<1>2. CASE ~IsRefused(list, e)
  <2> DEFINE k == InsertPosition(list, e.time)
             r == InsertEvent(list, e)
             n == Len(list)
  <2>1. e.time \in Int /\ n \in Nat /\ DOMAIN list = 1 .. n
    BY DEF ScheduleEvent
  <2>2. /\ k \in 1 .. n + 1
        /\ \A i \in 1 .. k - 1 : list[i].time < e.time
        /\ k \in DOMAIN list => list[k].time >= e.time
    BY <2>1, InsertPositionStops
  <2>3. /\ r \in Seq(ScheduleEvent)
        /\ Len(r) = n + 1
        /\ \A i \in 1 .. Len(r) :
              r[i] = IF i < k THEN list[i] ELSE IF i = k THEN e ELSE list[i - 1]
    BY <1>2, InsertEventShape
  <2> HIDE DEF k, r
  <2>4. \A i \in 1 .. n : list[i].time \in Int
    BY <2>1, TimeIsInt
  <2>5. \A i \in 1 .. n : i >= k => list[i].time >= e.time
    BY <2>1, <2>2, <2>4 DEF IsByTime
  <2>6. DOMAIN r = 1 .. n + 1
    BY <2>1, <2>3
  <2>7. ASSUME NEW i \in 1 .. n + 1
        PROVE  r[i] = e \/ \E j \in DOMAIN list : r[i] = list[j]
    <3>1. CASE i < k
      <4>1. i \in DOMAIN list /\ r[i] = list[i]
        BY <3>1, <2>1, <2>2, <2>3
      <4> QED
        BY <4>1
    <3>2. CASE i = k
      BY <3>2, <2>1, <2>3
    <3>3. CASE i > k
      <4>1. i - 1 \in DOMAIN list /\ r[i] = list[i - 1]
        BY <3>3, <2>1, <2>2, <2>3
      <4> QED
        BY <4>1
    <3> QED
      BY <3>1, <3>2, <3>3, <2>2
  <2>8. ASSUME NEW i \in 1 .. n + 1, NEW j \in 1 .. n + 1, i < j
        PROVE  r[i].time <= r[j].time
    <3>1. CASE j < k
      <4>1. r[i] = list[i] /\ r[j] = list[j] /\ i \in DOMAIN list /\ j \in DOMAIN list
        BY <3>1, <2>1, <2>2, <2>3, <2>8
      <4> QED
        BY <4>1, <2>8 DEF IsByTime
    <3>2. CASE j = k
      <4>1. r[i] = list[i] /\ r[j] = e /\ i \in 1 .. k - 1 /\ i \in 1 .. n
        BY <3>2, <2>1, <2>2, <2>3, <2>8
      <4> QED
        BY <4>1, <2>1, <2>2, <2>4
    <3>3. CASE j > k /\ i < k
      <4>1. /\ r[i] = list[i] /\ r[j] = list[j - 1]
            /\ i \in 1 .. k - 1 /\ i \in 1 .. n /\ j - 1 \in 1 .. n /\ j - 1 >= k
        BY <3>3, <2>1, <2>2, <2>3
      <4> QED
        BY <4>1, <2>1, <2>2, <2>4, <2>5
    <3>4. CASE j > k /\ i = k
      <4>1. r[i] = e /\ r[j] = list[j - 1] /\ j - 1 \in 1 .. n /\ j - 1 >= k
        BY <3>4, <2>1, <2>2, <2>3
      <4> QED
        BY <4>1, <2>1, <2>4, <2>5
    <3>5. CASE i > k
      <4>1. /\ r[i] = list[i - 1] /\ r[j] = list[j - 1]
            /\ i - 1 \in DOMAIN list /\ j - 1 \in DOMAIN list /\ i - 1 <= j - 1
        BY <3>5, <2>1, <2>2, <2>3, <2>8
      <4> QED
        BY <4>1 DEF IsByTime
    <3> QED
      BY <3>1, <3>2, <3>3, <3>4, <3>5, <2>2
  <2>9. \A i \in DOMAIN r : r[i].time \in Int
    BY <2>3, TimeIsInt
  <2>10. IsByTime(r)
    BY <2>6, <2>8, <2>9 DEF IsByTime
  <2> QED
    BY <2>3, <2>6, <2>7, <2>10 DEF r
<1> QED
  BY <1>1, <1>2

(***************************************************************************)
(* finalize_schedule() puts the last event of the week before the week     *)
(* when the week does not start with one.                                  *)
(***************************************************************************)
LEMMA FinalizeWeeklyIsFinal ==
    ASSUME NEW w \in Seq(ScheduleEvent), IsByTime(w), IsOfWeek(w)
    PROVE  LET r == FinalizeWeekly(w)
           IN  /\ r \in Seq(ScheduleEvent)
               /\ IsFinal(r)
<1> DEFINE n == Len(w)
           last == w[n]
           e == [last EXCEPT !.time = @ - Week]
           r == InsertEvent(w, e)
<1>1. n \in Nat /\ DOMAIN w = 1 .. n /\ Week \in Nat /\ Week > 0
  BY WeekAssumption
<1>2. \A i \in 1 .. n : w[i] \in ScheduleEvent /\ w[i].time \in Int /\ w[i].time \in 0 .. Week - 1
  BY <1>1, TimeIsInt DEF IsOfWeek
<1>3. CASE ~(w # << >> /\ w[1].time > 0)
  <2>1. FinalizeWeekly(w) = w
    BY <1>3 DEF FinalizeWeekly
  <2>2. w # << >> => w[1].time = 0
    BY <1>1, <1>2, <1>3
  <2>3. (\A i \in DOMAIN w : w[i].time < Week) /\ (\A i \in 2 .. Len(w) : w[i].time >= 0)
    BY <1>1, <1>2
  <2> QED
    BY <2>1, <2>2, <2>3 DEF IsFinal
<1>4. CASE w # << >> /\ w[1].time > 0
  <2>1. n \in 1 .. n /\ n >= 1 /\ last.time \in 0 .. Week - 1
    BY <1>1, <1>2, <1>4
  <2>2. e \in ScheduleEvent /\ e.time = last.time - Week /\ e.time < 0 /\ e.time \in Int
    <3>1. last \in ScheduleEvent
      BY <1>2, <2>1
    <3> HIDE DEF last
    <3>2. e.time = last.time - Week
      BY <3>1 DEF ScheduleEvent
    <3>3. last.time - Week \in Int /\ last.time - Week < 0
      BY <1>1, <2>1
    <3>4. e \in ScheduleEvent
      BY <3>1, <3>3 DEF ScheduleEvent
    <3> QED
      BY <3>2, <3>3, <3>4
  <2>3. FinalizeWeekly(w) = r
    BY <1>4 DEF FinalizeWeekly
  <2> HIDE DEF last, e
  <2>4. InsertPosition(w, e.time) = 1
    <3> DEFINE k == InsertPosition(w, e.time)
    <3>1. k \in 1 .. n + 1 /\ \A i \in 1 .. k - 1 : w[i].time < e.time
      BY <2>2, InsertPositionStops
    <3>2. w[1].time > 0 /\ w[1].time \in Int
      BY <1>2, <1>4, <2>1
    <3> HIDE DEF k
    <3>3. ~(1 \in 1 .. k - 1)
      BY <2>2, <3>1, <3>2
    <3>4. k = 1
      BY <1>1, <3>1, <3>3
    <3> QED
      BY <3>4 DEF k
  <2>5. ~IsRefused(w, e)
    BY <1>4, <2>2 DEF IsRefused
  <2>6. /\ r \in Seq(ScheduleEvent)
        /\ Len(r) = n + 1
        /\ \A i \in 1 .. Len(r) :
              r[i] = IF i < 1 THEN w[i] ELSE IF i = 1 THEN e ELSE w[i - 1]
    BY <2>2, <2>4, <2>5, InsertEventShape
  <2>7. IsByTime(r)
    BY <2>2, InsertKeepsSorted
  <2> HIDE DEF r
  <2>8. r[1] = e /\ \A i \in 2 .. n + 1 : r[i] = w[i - 1]
    BY <1>1, <2>6
  <2>9. r[Len(r)] = last
    BY <2>1, <2>6, <2>8 DEF last
  <2>10. \A i \in 2 .. n + 1 : r[i].time > 0 /\ r[i].time < Week
    <3>1. \A i \in 1 .. n : w[i].time > 0
      BY <1>1, <1>2, <1>4, <2>1 DEF IsByTime
    <3> QED
      BY <3>1, <1>1, <1>2, <2>8
  <2>11. RepeatsLast(r)
    BY <2>6, <2>8, <2>9, <2>10, <1>1 DEF RepeatsLast, e
  <2>12. \A i \in DOMAIN r : r[i].time < Week
    BY <1>1, <2>2, <2>6, <2>8, <2>10
  <2>13. \A i \in 2 .. Len(r) : r[i].time >= 0
    <3>1. \A i \in 2 .. n + 1 : r[i].time \in Int
      BY <2>6, TimeIsInt
    <3> QED
      BY <2>6, <2>10, <3>1
  <2>14. IsFinal(r)
    BY <2>7, <2>11, <2>12, <2>13 DEF IsFinal
  <2> QED
    BY <2>3, <2>6, <2>14
<1> QED
  BY <1>3, <1>4

-----------------------------------------------------------------------------
(***************************************************************************)
(* The walk of get_blocked_at_time() ends at an event of the list; where   *)
(* it ends does not depend on anything but the times on its way.           *)
(***************************************************************************)
IsReached(list, t, k) ==
    /\ k \in DOMAIN list
    /\ \A i \in 2 .. k : list[i].time <= t
    /\ k < Len(list) => list[k + 1].time > t

LEMMA ReachedStops ==
    ASSUME NEW list \in Seq(ScheduleEvent), list # << >>, NEW t \in Int
    PROVE  IsReached(list, t, Reached(list, t))
<1> DEFINE stops == {k \in 1 .. Len(list) : k < Len(list) => list[k + 1].time > t}
<1>1. DOMAIN list = 1 .. Len(list) /\ Len(list) \in Nat /\ Len(list) # 0
  OBVIOUS
<1>2. stops \in SUBSET Nat /\ Len(list) \in stops
  BY <1>1
<1>3. PICK k \in stops : \A j \in stops : k <= j
  BY <1>2, LeastNatural
<1>4. \A i \in 2 .. k : list[i].time <= t
  <2> SUFFICES ASSUME NEW i \in 2 .. k
               PROVE  list[i].time <= t
    OBVIOUS
  <2>1. i - 1 \in 1 .. Len(list) /\ i - 1 < Len(list) /\ i - 1 < k /\ i \in DOMAIN list
    BY <1>1, <1>3
  <2>2. ~(list[(i - 1) + 1].time > t)
    BY <1>3, <2>1
  <2>3. (i - 1) + 1 = i /\ list[i].time \in Int
    BY <2>1, TimeIsInt
  <2> QED
    BY <2>2, <2>3
<1>5. k \in DOMAIN list /\ (k < Len(list) => list[k + 1].time > t)
  BY <1>1, <1>3
<1> QED
  BY <1>4, <1>5 DEF Reached, IsReached

LEMMA ReachedIs ==
    ASSUME NEW list \in Seq(ScheduleEvent), NEW t \in Int, NEW k, IsReached(list, t, k)
    PROVE  Reached(list, t) = k
<1>1. list # << >> /\ DOMAIN list = 1 .. Len(list) /\ Len(list) \in Nat
  BY DEF IsReached
<1>2. ASSUME NEW a, NEW b, IsReached(list, t, a), IsReached(list, t, b), a < b
      PROVE  FALSE
  <2>1. a + 1 \in 2 .. b /\ a < Len(list) /\ a + 1 \in DOMAIN list
    BY <1>1, <1>2 DEF IsReached
  <2>2. list[a + 1].time \in Int
    BY <2>1, TimeIsInt
  <2> QED
    BY <1>2, <2>1, <2>2 DEF IsReached
<1>3. IsReached(list, t, Reached(list, t))
  BY <1>1, ReachedStops
<1>4. k \in Int /\ Reached(list, t) \in Int
  BY <1>1, <1>3 DEF IsReached
<1> QED
  <2> DEFINE r == Reached(list, t)
  <2>1. ~(k < r)
    BY <1>2, <1>3
  <2>2. ~(r < k)
    BY <1>2, <1>3
  <2> HIDE DEF r
  <2>3. k = r
    BY <1>4, <2>1, <2>2 DEF r
  <2> QED
    BY <2>3 DEF r

-----------------------------------------------------------------------------
(***************************************************************************)
(* The weekly clock: a moment of the week, and how it goes on and wraps.   *)
(***************************************************************************)
LEMMA ModIs ==
    ASSUME NEW n \in Nat, n > 0, NEW q \in Int, NEW r \in 0 .. n - 1
    PROVE  (n * q + r) % n = r
OBVIOUS

LEMMA ModOf ==
    ASSUME NEW n \in Nat, n > 0, NEW a \in Int, NEW d \in Int
    PROVE  /\ a % n \in 0 .. n - 1
           /\ (a % n) + d \in 0 .. n - 1 => (a + d) % n = (a % n) + d
           /\ (a % n) + d \in n .. 2 * n - 1 => (a + d) % n = (a % n) + d - n
<1> DEFINE q == a \div n
           r == a % n
<1>1. q \in Int /\ r \in 0 .. n - 1
  OBVIOUS
<1>2. a = q * n + r
  OBVIOUS
<1> HIDE DEF q, r
<1>3. r + d \in 0 .. n - 1 => (a + d) % n = r + d
  <2> SUFFICES ASSUME r + d \in 0 .. n - 1
               PROVE  (a + d) % n = r + d
    OBVIOUS
  <2>1. a + d = n * q + (r + d)
    BY <1>1, <1>2
  <2> QED
    BY <1>1, <2>1, ModIs
<1>4. r + d \in n .. 2 * n - 1 => (a + d) % n = r + d - n
  <2> SUFFICES ASSUME r + d \in n .. 2 * n - 1
               PROVE  (a + d) % n = r + d - n
    OBVIOUS
  <2>1. a + d = n * (q + 1) + (r + d - n)
    BY <1>1, <1>2
  <2>2. q + 1 \in Int /\ r + d - n \in 0 .. n - 1
    BY <1>1
  <2> QED
    BY <2>1, <2>2, ModIs
<1> QED
  BY <1>1, <1>3, <1>4 DEF r

LEMMA WeeklyGoesOn ==
    ASSUME NEW zone, NEW t \in Int, NEW u \in Int, UTCOffset(zone, t) \in Int,
           UTCOffset(zone, u) = UTCOffset(zone, t)
    PROVE  /\ Weekly(zone, t) \in 0 .. Week - 1
           /\ Weekly(zone, t) + (u - t) \in 0 .. Week - 1
                => Weekly(zone, u) = Weekly(zone, t) + (u - t)
           /\ Weekly(zone, t) + (u - t) \in Week .. 2 * Week - 1
                => Weekly(zone, u) = Weekly(zone, t) + (u - t) - Week
<1> DEFINE a == t + UTCOffset(zone, t)
<1>1. a \in Int /\ u - t \in Int /\ Week \in Nat /\ Week > 0
  BY WeekAssumption
<1>2. Weekly(zone, t) = a % Week
  BY DEF Weekly
<1>3. u + UTCOffset(zone, u) = a + (u - t)
  OBVIOUS
<1>4. Weekly(zone, u) = (a + (u - t)) % Week
  BY <1>3 DEF Weekly
<1> HIDE DEF a
<1>5. /\ a % Week \in 0 .. Week - 1
      /\ (a % Week) + (u - t) \in 0 .. Week - 1 => (a + (u - t)) % Week = (a % Week) + (u - t)
      /\ (a % Week) + (u - t) \in Week .. 2 * Week - 1
            => (a + (u - t)) % Week = (a % Week) + (u - t) - Week
  BY <1>1, ModOf
<1> QED
  BY <1>2, <1>4, <1>5, Zenon

-----------------------------------------------------------------------------
(***************************************************************************)
(* The earliest of some times, or INT_MAX, and the first weekly event.     *)
(***************************************************************************)
LEMMA EarliestIs ==
    ASSUME NEW times \in SUBSET Int, NEW b \in Int, \A v \in times : b <= v
    PROVE  /\ Earliest(times) \in Int
           /\ Earliest(times) <= INT_MAX
           /\ \A v \in times : Earliest(times) <= v
           /\ Earliest(times) = INT_MAX \/ Earliest(times) \in times
           /\ times = {} => Earliest(times) = INT_MAX
<1>1. CASE \E v \in times : v < INT_MAX
  <2>1. PICK k \in times : \A v \in times : k <= v
    BY <1>1, LeastInteger
  <2>2. Earliest(times) \in times /\ \A v \in times : Earliest(times) <= v
    BY <1>1, <2>1 DEF Earliest
  <2>3. PICK v \in times : v < INT_MAX
    BY <1>1
  <2> HIDE DEF Earliest
  <2>4. Earliest(times) \in Int /\ v \in Int /\ INT_MAX \in Int /\ Earliest(times) <= v
    <3>1. \A j \in times : j \in Int
      OBVIOUS
    <3>2. INT_MAX \in Int
      BY WeekAssumption
    <3> QED
      BY <2>2, <2>3, <3>1, <3>2, Zenon
  <2>5. Earliest(times) <= INT_MAX
    BY <2>3, <2>4
  <2> QED
    BY <2>2, <2>3, <2>4, <2>5
<1>2. CASE ~\E v \in times : v < INT_MAX
  BY <1>2, WeekAssumption DEF Earliest
<1> QED
  BY <1>1, <1>2

LEMMA TimesAreInts ==
    ASSUME NEW list \in Seq(ScheduleEvent)
    PROVE  Times(list) \subseteq Int
BY TimeIsInt DEF Times

LEMMA FirstWeeklyIs ==
    ASSUME NEW list \in Seq(ScheduleEvent), Positive(list) # {}
    PROVE  FirstWeekly(list) \in Positive(list)
           /\ \A v \in Positive(list) : FirstWeekly(list) <= v
<1>1. Positive(list) \in SUBSET Nat
  BY TimesAreInts DEF Positive
<1>2. PICK k \in Positive(list) : \A v \in Positive(list) : k <= v
  BY <1>1, LeastNatural
<1> QED
  BY <1>2 DEF FirstWeekly

-----------------------------------------------------------------------------
(***************************************************************************)
(* What get_next_unixtime() returns is a number, and not in the past.      *)
(***************************************************************************)
LEMMA NextUnixtimeIs ==
    ASSUME NEW x, x.absolute \in Seq(ScheduleEvent), x.weekly \in Seq(ScheduleEvent),
           NEW zone, NEW t \in Int, UTCOffset(zone, t) \in Int
    PROVE  /\ GetNextUnixtime(x, zone, t) \in Int
           /\ t <= INT_MAX => t <= GetNextUnixtime(x, zone, t)
<1> DEFINE weekly   == Weekly(zone, t)
           absolute == {u \in Times(x.absolute) : u > t /\ u < INT_MAX}
           coming   == {(t - weekly) + u : u \in {v \in Times(x.weekly) : v > weekly}}
<1>1. weekly \in Nat /\ weekly < Week /\ Week \in Nat /\ INT_MAX \in Nat
  BY WeekAssumption DEF Weekly
<1>2. Times(x.absolute) \subseteq Int /\ Times(x.weekly) \subseteq Int
  BY TimesAreInts
<1>3. Earliest(absolute) \in Int /\ (t <= INT_MAX => t <= Earliest(absolute))
  <2>1. absolute \subseteq Int /\ \A v \in absolute : t <= v
    BY <1>1, <1>2
  <2> HIDE DEF absolute
  <2> QED
    BY <1>1, <2>1, EarliestIs
<1>4. Earliest(coming) \in Int /\ (t <= INT_MAX => t <= Earliest(coming))
  <2>1. \A u \in {v \in Times(x.weekly) : v > weekly} : (t - weekly) + u \in Int /\ t <= (t - weekly) + u
    BY <1>1, <1>2
  <2>2. coming \subseteq Int /\ \A v \in coming : t <= v
    BY <2>1
  <2> HIDE DEF coming
  <2> QED
    BY <1>1, <2>2, EarliestIs
<1>5. Positive(x.weekly) # {} => FirstWeekly(x.weekly) \in Nat
  BY <1>2, FirstWeeklyIs DEF Positive
<1>6. GetNextUnixtime(x, zone, t)
        = IF absolute # {} THEN Earliest(absolute)
          ELSE IF Positive(x.weekly) = {} THEN INT_MAX
          ELSE IF Earliest(coming) = INT_MAX THEN (t - weekly) + FirstWeekly(x.weekly) + Week
          ELSE Earliest(coming)
  BY DEF GetNextUnixtime
<1> HIDE DEF weekly, absolute, coming
<1> QED
  BY <1>1, <1>3, <1>4, <1>5, <1>6

-----------------------------------------------------------------------------
(***************************************************************************)
(* A list of calendar events alone: the event that counts at t counts for  *)
(* as long as no later one has come.                                       *)
(***************************************************************************)
LEMMA AbsoluteListLasts ==
    ASSUME NEW x, NEW zone, NEW t \in Int, NEW u \in Int, t <= u,
           x.absolute \in Seq(ScheduleEvent), x.weekly = << >>,
           u < GetNextUnixtime(x, zone, t)
    PROVE  GetBlockedAtTime(x, zone, u) = GetBlockedAtTime(x, zone, t)
<1> DEFINE abs    == x.absolute
           coming == {v \in Times(abs) : v > t /\ v < INT_MAX}
           Blocked(now) ==
               IF abs # << >> /\ abs[Reached(abs, now)].time <= now
               THEN BlockList(x, abs[Reached(abs, now)]) ELSE << >>
<1>1. \A now \in Int : GetBlockedAtTime(x, zone, now) = Blocked(now)
  BY DEF GetBlockedAtTime
<1>2. GetNextUnixtime(x, zone, t) = IF coming # {} THEN Earliest(coming) ELSE INT_MAX
  <2>1. Positive(x.weekly) = {}
    BY DEF Positive, Times
  <2> QED
    BY <2>1 DEF GetNextUnixtime
<1>3. coming \subseteq Int /\ \A v \in coming : t <= v
  BY TimesAreInts
<1>4. Earliest(coming) <= INT_MAX /\ Earliest(coming) \in Int
      /\ \A v \in coming : Earliest(coming) <= v
  <2> HIDE DEF coming
  <2> QED
    BY <1>3, EarliestIs
<1>5. ASSUME NEW i \in DOMAIN abs, abs[i].time > t
      PROVE  abs[i].time > u
  <2>1. abs[i].time \in Int /\ abs[i].time \in Times(abs)
    BY TimeIsInt DEF Times
  <2>2. INT_MAX \in Int /\ u < INT_MAX
    BY <1>2, <1>4, WeekAssumption
  <2>3. CASE abs[i].time < INT_MAX
    <3>1. abs[i].time \in coming
      BY <1>5, <2>1, <2>3
    <3> HIDE DEF coming
    <3> QED
      BY <1>2, <1>4, <2>1, <3>1
  <2> QED
    BY <2>1, <2>2, <2>3
<1>6. CASE abs = << >>
  BY <1>1, <1>6
<1>7. CASE abs # << >>
  <2> DEFINE k == Reached(abs, t)
  <2>1. IsReached(abs, t, k)
    BY <1>7, ReachedStops
  <2> HIDE DEF k
  <2>2. k \in DOMAIN abs /\ k \in 1 .. Len(abs) /\ abs[k].time \in Int /\ Len(abs) \in Nat
    BY <2>1, TimeIsInt DEF IsReached
  <2>3. IsReached(abs, u, k)
    <3>1. \A i \in 2 .. k : abs[i].time <= u
      <4>1. \A i \in 2 .. k : i \in DOMAIN abs /\ abs[i].time <= t
        BY <2>1, <2>2 DEF IsReached
      <4> QED
        BY <4>1, TimeIsInt
    <3>2. k < Len(abs) => abs[k + 1].time > u
      BY <1>5, <2>1, <2>2 DEF IsReached
    <3> QED
      BY <2>2, <3>1, <3>2 DEF IsReached
  <2>4. Reached(abs, u) = k
    BY <2>3, ReachedIs
  <2>5. abs[k].time <= t <=> abs[k].time <= u
    BY <1>5, <2>2
  <2>6. Blocked(u) = Blocked(t)
    BY <2>4, <2>5 DEF k
  <2> QED
    BY <1>1, <2>6
<1> QED
  BY <1>6, <1>7

(***************************************************************************)
(* A weekly list alone, without an event at Sunday 00:00:00: the event     *)
(* that counts at t counts until the next one, over the end of the week    *)
(* too, where the event finalize_schedule() put before the week takes over *)
(* from the last one.                                                      *)
(***************************************************************************)
LEMMA WeeklyListLasts ==
    ASSUME NEW x, NEW zone, NEW t \in Int, NEW u \in Int, t <= u, u < INT_MAX,
           UTCOffset(zone, t) \in Int, UTCOffset(zone, u) = UTCOffset(zone, t),
           x.weekly \in Seq(ScheduleEvent), x.absolute = << >>,
           IsFinal(x.weekly), 0 \notin Times(x.weekly),
           u < GetNextUnixtime(x, zone, t)
    PROVE  GetBlockedAtTime(x, zone, u) = GetBlockedAtTime(x, zone, t)
<1> DEFINE w       == x.weekly
           now     == Weekly(zone, t)
           later   == {v \in Times(w) : v > now}
           coming  == {(t - now) + v : v \in later}
           Blocked(time) ==
               IF w # << >> THEN BlockList(x, w[Reached(w, time)]) ELSE << >>
<1>1. now \in 0 .. Week - 1 /\ Week \in Nat /\ Week > 0 /\ INT_MAX \in Nat
  BY WeeklyGoesOn, WeekAssumption
<1>2. Weekly(zone, u) \in Int
  BY WeeklyGoesOn, WeekAssumption DEF Weekly
<1>3. \A v \in Int : Weekly(zone, v) \in Int =>
         GetBlockedAtTime(x, zone, v) = Blocked(Weekly(zone, v))
  BY DEF GetBlockedAtTime
<1>4. CASE w = << >>
  BY <1>1, <1>2, <1>3, <1>4
<1>5. CASE w # << >>
  <2> DEFINE n == Len(w)
             k == Reached(w, now)
  <2>1. n \in Nat /\ n > 0 /\ DOMAIN w = 1 .. n
    BY <1>5
  <2>2. \A i \in 1 .. n : w[i].time \in Int /\ w[i].time < Week /\ w[i].time \in Times(w)
    BY <2>1, TimeIsInt DEF IsFinal, Times
  <2>3. RepeatsLast(w)
    <3>1. w[1].time # 0
      BY <2>1, <2>2
    <3> QED
      BY <1>5, <3>1 DEF IsFinal
  <2>4. w[1].block = w[n].block /\ w[1].time = w[n].time - Week /\ n >= 2
    <3>1. w[1] \in ScheduleEvent /\ w[n] \in ScheduleEvent
      BY <2>1, TimeIsInt
    <3>2. w[1].block = w[n].block /\ w[1].time = w[n].time - Week
      BY <2>3, <3>1 DEF RepeatsLast, ScheduleEvent
    <3> QED
      BY <1>1, <2>1, <2>2, <3>2
  <2>5. w[n].time \in Positive(w) /\ \A i \in 2 .. n : w[i].time \in Positive(w)
    BY <2>1, <2>2, <2>3, <2>4 DEF RepeatsLast, Positive
  <2>6. GetNextUnixtime(x, zone, t)
          = IF Earliest(coming) = INT_MAX THEN (t - now) + FirstWeekly(w) + Week
            ELSE Earliest(coming)
    <3>1. Times(x.absolute) = {}
      BY DEF Times
    <3>2. Positive(w) # {}
      BY <2>5
    <3> QED
      BY <3>1, <3>2 DEF GetNextUnixtime
  <2>7. coming \subseteq Int /\ \A v \in coming : t <= v
    <3>1. \A v \in later : (t - now) + v \in Int /\ t <= (t - now) + v
      BY <1>1, TimesAreInts
    <3> QED
      BY <3>1
  <2>8. /\ Earliest(coming) <= INT_MAX /\ Earliest(coming) \in Int
        /\ \A v \in coming : Earliest(coming) <= v
        /\ coming = {} => Earliest(coming) = INT_MAX
    <3> HIDE DEF coming
    <3> QED
      BY <2>7, EarliestIs
  <2>9. IsReached(w, now, k)
    BY <1>1, <1>5, ReachedStops
  <2> HIDE DEF k
  <2>10. k \in 1 .. n /\ k \in DOMAIN w
    BY <2>1, <2>9 DEF IsReached
  <2>11. CASE \E i \in 1 .. n : w[i].time > now
    <3>1. ASSUME NEW i \in 1 .. n, w[i].time > now
          PROVE  now + (u - t) < w[i].time
      <4>1. (t - now) + w[i].time \in coming
        BY <2>2, <3>1
      <4>2. Earliest(coming) <= (t - now) + w[i].time
        BY <2>8, <4>1
      <4>3. u < Earliest(coming)
        BY <2>6, <2>8
      <4> HIDE DEF now, coming
      <4> QED
        BY <1>1, <2>2, <2>8, <4>2, <4>3
    <3>2. now + (u - t) \in 0 .. Week - 1
      BY <1>1, <2>2, <2>11, <3>1
    <3>3. Weekly(zone, u) = now + (u - t)
      BY <3>2, WeeklyGoesOn
    <3>4. IsReached(w, now + (u - t), k)
      <4>1. \A i \in 2 .. k : w[i].time <= now + (u - t)
        BY <1>1, <2>1, <2>2, <2>9, <2>10 DEF IsReached
      <4>2. k < Len(w) => w[k + 1].time > now + (u - t)
        <5> SUFFICES ASSUME k < Len(w)
                     PROVE  w[k + 1].time > now + (u - t)
          OBVIOUS
        <5>1. k + 1 \in 1 .. n /\ w[k + 1].time > now
          BY <2>1, <2>9, <2>10 DEF IsReached
        <5>2. now + (u - t) < w[k + 1].time
          BY <3>1, <5>1
        <5> HIDE DEF now
        <5> QED
          BY <1>1, <2>2, <5>1, <5>2
      <4> QED
        BY <2>10, <4>1, <4>2 DEF IsReached
    <3>5. Reached(w, Weekly(zone, u)) = k
      BY <3>2, <3>3, <3>4, ReachedIs
    <3>6. Blocked(Weekly(zone, u)) = Blocked(now)
      BY <3>5 DEF k
    <3> QED
      BY <1>1, <1>2, <1>3, <3>6
  <2>12. CASE ~\E i \in 1 .. n : w[i].time > now
    <3> DEFINE first == FirstWeekly(w)
    <3>1. later = {}
      BY <2>1, <2>12 DEF Times
    <3>2. u < (t - now) + first + Week
      BY <2>6, <2>8, <3>1
    <3>3. first \in Positive(w) /\ first \in Int /\ \A v \in Positive(w) : first <= v
      BY <2>5, FirstWeeklyIs, TimesAreInts DEF Positive
    <3>4. k = n
      BY <1>1, <2>1, <2>2, <2>9, <2>10, <2>12 DEF IsReached
    <3>5. first < Week
      <4>1. w[n].time < Week /\ w[n].time \in Int /\ first <= w[n].time
        BY <2>1, <2>2, <2>5, <3>3
      <4> QED
        BY <1>1, <3>3, <4>1
    <3> HIDE DEF first
    <3>6. CASE now + (u - t) < Week
      <4>1. Weekly(zone, u) = now + (u - t)
        BY <1>1, <3>6, WeeklyGoesOn
      <4>2. IsReached(w, now + (u - t), n)
        <5>1. \A i \in 2 .. n : w[i].time <= now + (u - t)
          <6>1. \A i \in 2 .. n : i \in 1 .. n /\ w[i].time \in Int /\ ~(w[i].time > now)
            BY <2>1, <2>2, <2>12
          <6> HIDE DEF now
          <6> QED
            BY <1>1, <6>1
        <5> QED
          BY <2>1, <5>1 DEF IsReached
      <4>3. Reached(w, Weekly(zone, u)) = k
        BY <1>2, <3>4, <4>1, <4>2, ReachedIs
      <4>4. Blocked(Weekly(zone, u)) = Blocked(now)
        BY <4>3 DEF k
      <4> QED
        BY <1>1, <1>2, <1>3, <4>4
    <3>7. CASE now + (u - t) >= Week
      <4>1. now + (u - t) \in Week .. 2 * Week - 1
        <5> HIDE DEF now
        <5> QED
          BY <1>1, <3>2, <3>3, <3>5, <3>7
      <4>2. Weekly(zone, u) = now + (u - t) - Week
        BY <4>1, WeeklyGoesOn, Zenon
      <4>3. now + (u - t) - Week < first
        <5> HIDE DEF now
        <5> QED
          BY <1>1, <3>2, <3>3
      <4>4. IsReached(w, now + (u - t) - Week, 1)
        <5>1. w[1 + 1].time \in Positive(w) /\ w[1 + 1].time \in Int
          BY <2>1, <2>2, <2>4, <2>5
        <5>2. w[1 + 1].time > now + (u - t) - Week
          <6> HIDE DEF now
          <6> QED
            BY <1>1, <3>3, <4>3, <5>1
        <5> QED
          BY <2>1, <5>2 DEF IsReached
      <4>5. Reached(w, Weekly(zone, u)) = 1
        BY <1>2, <4>2, <4>4, ReachedIs
      <4>6. BlockList(x, w[1]) = BlockList(x, w[n])
        BY <2>4 DEF BlockList
      <4>7. Blocked(Weekly(zone, u)) = Blocked(now)
        BY <3>4, <4>5, <4>6 DEF k
      <4> QED
        BY <1>1, <1>2, <1>3, <4>7
    <3> QED
      BY <1>1, <3>6, <3>7
  <2> QED
    BY <2>11, <2>12
<1> QED
  BY <1>4, <1>5
=============================================================================
