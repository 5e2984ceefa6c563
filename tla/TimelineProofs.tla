---------------------------- MODULE TimelineProofs ----------------------------
(***************************************************************************)
(* Facts about the timelines: the list of events is in order, the periods  *)
(* of a MAC are apart, and a batch holds what is to be announced; for a    *)
(* schedule of one kind the periods tell of the times at which the         *)
(* firewall blocks the MAC.                                                *)
(***************************************************************************)
EXTENDS Timeline, ScheduleProofs

(***************************************************************************)
(* The order of the list: by time, and at one time no absolute event comes *)
(* after another event.                                                    *)
(***************************************************************************)
Comes(x, e) == x.time < e.time \/ (x.time = e.time /\ ~e.absolute)

Order == {p \in TimelineEvent \X TimelineEvent : Comes(p[1], p[2])}

HasNoAbsoluteAt(list, t) == \A i \in DOMAIN list : list[i].absolute => list[i].time # t

LEMMA EventType ==
    ASSUME NEW e \in TimelineEvent
    PROVE  e.time \in Int /\ e.absolute \in BOOLEAN /\ e.block \in Seq(Nat)
BY DEF TimelineEvent

LEMMA InOrder ==
    ASSUME NEW list \in Seq(TimelineEvent), IsInOrder(list, Order),
           NEW i \in DOMAIN list, NEW j \in DOMAIN list, i < j
    PROVE  Comes(list[i], list[j]) /\ list[i].time <= list[j].time
<1>1. <<list[i], list[j]>> \in Order
  BY Zenon DEF IsInOrder
<1>2. list[i] \in TimelineEvent /\ list[j] \in TimelineEvent
  OBVIOUS
<1>3. Comes(list[i], list[j])
  BY <1>1 DEF Order
<1> QED
  BY <1>2, <1>3, EventType DEF Comes

(***************************************************************************)
(* insert_event_sorted() finds a place for an event.                       *)
(***************************************************************************)
IsPlace(list, e, k) ==
    /\ k \in 2 .. Len(list) + 1
    /\ \A i \in 2 .. k - 1 : Precedes(list[i], e)
    /\ k \in DOMAIN list => ~Precedes(list[k], e)

LEMMA PlaceExists ==
    ASSUME NEW list \in Seq(TimelineEvent), NEW e \in TimelineEvent, list # << >>
    PROVE  \E k : IsPlace(list, e, k)
<1> DEFINE stops == {k \in 2 .. Len(list) + 1 : k \in DOMAIN list => ~Precedes(list[k], e)}
<1>1. DOMAIN list = 1 .. Len(list) /\ Len(list) \in Nat /\ Len(list) # 0
  OBVIOUS
<1>2. stops \in SUBSET Nat /\ Len(list) + 1 \in stops
  BY <1>1
<1>3. PICK k \in stops : \A j \in stops : k <= j
  BY <1>2, LeastNatural
<1>4. ASSUME NEW i \in 2 .. k - 1
      PROVE  Precedes(list[i], e)
  <2>1. i \notin stops
    BY <1>1, <1>3, <1>4
  <2> QED
    BY <1>1, <1>3, <2>1
<1>5. IsPlace(list, e, k)
  BY <1>3, <1>4 DEF IsPlace
<1> QED
  BY <1>5

LEMMA InsertEventSortedIs ==
    ASSUME NEW list \in Seq(TimelineEvent), NEW e \in TimelineEvent
    PROVE  \E k \in 1 .. Len(list) + 1 :
              /\ InsertEventSorted(list, e) = Insertion(list, k, e)
              /\ IsInOrder(list, Order) /\ (e.absolute => HasNoAbsoluteAt(list, e.time))
                    => \A i \in DOMAIN list : IF i < k THEN <<list[i], e>> \in Order
                                              ELSE <<e, list[i]>> \in Order
<1> DEFINE isFirst == \/ list = << >>
                      \/ e.time < list[1].time
                      \/ e.time = list[1].time /\ e.absolute /\ ~list[1].absolute
           place == CHOOSE k : IsPlace(list, e, k)
           n == Len(list)
<1>1. InsertEventSorted(list, e) = Insertion(list, IF isFirst THEN 1 ELSE place, e)
  <2> DEFINE chosen == CHOOSE k \in 2 .. Len(list) + 1 :
                          /\ \A i \in 2 .. k - 1 : Precedes(list[i], e)
                          /\ k \in DOMAIN list => ~Precedes(list[k], e)
  <2>1. chosen = place
    BY Zenon DEF IsPlace
  <2>2. InsertEventSorted(list, e) = InsertAt(list, IF isFirst THEN 1 ELSE chosen, e)
    BY DEF InsertEventSorted
  <2> HIDE DEF chosen, place, isFirst
  <2> QED
    BY <2>1, <2>2 DEF InsertAt, Insertion
<1>2. n \in Nat /\ DOMAIN list = 1 .. n
  OBVIOUS
<1>3. \A i \in 1 .. n : list[i] \in TimelineEvent /\ list[i].time \in Int
  BY <1>2, EventType
<1>4. e.time \in Int
  BY EventType
<1>5. CASE isFirst
  <2>1. ASSUME IsInOrder(list, Order), NEW i \in DOMAIN list
        PROVE  <<e, list[i]>> \in Order
    <3>1. Comes(e, list[1]) /\ 1 \in DOMAIN list
      BY <1>2, <1>5 DEF Comes
    <3>2. i = 1 \/ Comes(list[1], list[i])
      BY <1>2, <2>1, <3>1, InOrder
    <3>3. Comes(e, list[i])
      BY <1>2, <1>3, <1>4, <3>1, <3>2 DEF Comes
    <3> QED
      BY <1>2, <1>3, <3>3 DEF Order
  <2>2. 1 \in 1 .. n + 1 /\ \A i \in DOMAIN list : ~(i < 1)
    BY <1>2
  <2>3. InsertEventSorted(list, e) = Insertion(list, 1, e)
    BY <1>1, <1>5
  <2> QED
    BY <2>1, <2>2, <2>3
<1>6. CASE ~isFirst
  <2>1. IsPlace(list, e, place) /\ n # 0
    BY <1>6, PlaceExists
  <2>2. InsertEventSorted(list, e) = Insertion(list, place, e)
    BY <1>1, <1>6
  <2> HIDE DEF place
  <2>3. place \in 2 .. n + 1
    BY <2>1 DEF IsPlace
  <2>4. ASSUME IsInOrder(list, Order), e.absolute => HasNoAbsoluteAt(list, e.time),
               NEW i \in DOMAIN list, i < place
        PROVE  <<list[i], e>> \in Order
    <3>1. e.absolute => (list[i].absolute => list[i].time # e.time)
      BY <2>4 DEF HasNoAbsoluteAt
    <3>2. CASE i = 1
      <4>1. ~(e.time < list[1].time) /\ (e.time = list[1].time /\ e.absolute => list[1].absolute)
        BY <1>6
      <4> QED
        BY <1>2, <1>3, <1>4, <3>1, <3>2, <4>1 DEF Comes, Order
    <3>3. CASE i # 1
      <4>1. Precedes(list[i], e)
        BY <1>2, <2>1, <2>3, <2>4, <3>3 DEF IsPlace
      <4> QED
        BY <1>2, <1>3, <1>4, <4>1 DEF Precedes, Comes, Order
    <3> QED
      BY <3>2, <3>3
  <2>5. ASSUME IsInOrder(list, Order), e.absolute => HasNoAbsoluteAt(list, e.time),
               NEW i \in DOMAIN list, ~(i < place)
        PROVE  <<e, list[i]>> \in Order
    <3>1. place \in DOMAIN list
      BY <1>2, <2>3, <2>5
    <3>2. ~Precedes(list[place], e)
      BY <2>1, <3>1 DEF IsPlace
    <3>3. e.absolute => (list[place].absolute => list[place].time # e.time)
      BY <2>5, <3>1 DEF HasNoAbsoluteAt
    <3>4. Comes(e, list[place])
      BY <1>2, <1>3, <1>4, <3>1, <3>2, <3>3 DEF Precedes, Comes
    <3>5. i = place \/ Comes(list[place], list[i])
      BY <1>2, <2>3, <2>5, <3>1, InOrder
    <3>6. Comes(e, list[i])
      BY <1>2, <1>3, <1>4, <3>1, <3>4, <3>5 DEF Comes
    <3> QED
      BY <1>2, <1>3, <3>6 DEF Order
  <2> QED
    BY <2>2, <2>3, <2>4, <2>5
<1> QED
  BY <1>5, <1>6

(***************************************************************************)
(* Events are added one after the other: what each of them makes of a list *)
(* is known, so what all of them make of it is.                            *)
(***************************************************************************)
LEMMA InsertEventSortedType ==
    ASSUME NEW X \in SUBSET TimelineEvent, NEW list \in Seq(X), NEW e \in X
    PROVE  InsertEventSorted(list, e) \in Seq(X)
<1>1. list \in Seq(TimelineEvent) /\ e \in TimelineEvent
  BY SeqMonotonic
<1>2. PICK k \in 1 .. Len(list) + 1 : InsertEventSorted(list, e) = Insertion(list, k, e)
  BY <1>1, InsertEventSortedIs
<1> QED
  BY <1>2, InsertionShape

LEMMA AddEventsStaysIn ==
    ASSUME NEW X \in SUBSET TimelineEvent, NEW list \in Seq(X), NEW events \in Seq(X),
           NEW included, NEW I, list \in I[0],
           \A i \in 1 .. Len(events) : \A l \in Seq(X) : l \in I[i - 1] =>
              IF i \in included THEN InsertEventSorted(l, events[i]) \in I[i] ELSE l \in I[i]
    PROVE  AddEvents(list, events, included) \in Seq(X) \cap I[Len(events)]
<1> DEFINE n == Len(events)
           S == Seq(X)
           Add(l, i) == IF i \in included THEN InsertEventSorted(l, events[i]) ELSE l
           Walk(f) == [i \in 0 .. n |-> IF i = 0 THEN list ELSE Add(f[i - 1], i)]
           step == [p \in (1 .. n) \X S |-> Add(p[2], p[1])]
           f == CHOOSE g : g = Walk(g)
<1>1. n \in Nat /\ \A i \in 1 .. n : events[i] \in X
  OBVIOUS
<1>2. \A i \in 1 .. n : \A l \in S : Add(l, i) \in S
  BY <1>1, InsertEventSortedType
<1>3. AddEvents(list, events, included) = f[n]
  BY DEF AddEvents
<1> HIDE DEF n, S
<1>4. PICK h : h = Walk(h) /\ \A i \in 0 .. n : h[i] \in S
  <2>1. step \in [(1 .. n) \X S -> S] /\ list \in S
    BY <1>2 DEF S
  <2> HIDE DEF step
  <2>2. PICK g : IsRun(g, n, S, list, step)
    BY <1>1, <2>1, RecursionExists
  <2>3. \A i \in 1 .. n : g[i - 1] \in S
    BY <1>1, <2>2 DEF IsRun
  <2>4. \A i \in 1 .. n : g[i] = Add(g[i - 1], i)
    BY <2>2, <2>3 DEF IsRun, step
  <2> HIDE DEF Add
  <2>5. g = Walk(g)
    BY <1>1, <2>2, <2>4 DEF IsRun
  <2>6. \A i \in 0 .. n : g[i] \in S
    BY <2>2 DEF IsRun
  <2> QED
    BY <2>5, <2>6
<1>5. f = Walk(f)
  BY <1>4
<1> HIDE DEF f
<1>6. \A i \in 1 .. n : f[i] = Add(f[i - 1], i)
  BY <1>1, <1>5
<1>7. f[0] = list
  BY <1>1, <1>5
<1> HIDE DEF Add
<1> DEFINE T == {i \in 0 .. n : f[i] \in S /\ f[i] \in I[i]}
<1>8. 0 \in T
  BY <1>1, <1>7 DEF S
<1>9. ASSUME NEW i \in 0 .. n - 1, i \in T
      PROVE  i + 1 \in T
  <2>1. i + 1 \in 1 .. n /\ i + 1 \in 0 .. n /\ (i + 1) - 1 = i
    BY <1>1
  <2>2. f[i + 1] = Add(f[i], i + 1) /\ f[i] \in S /\ f[i] \in I[i]
    BY <1>6, <1>9, <2>1
  <2>3. Add(f[i], i + 1) \in S
    BY <1>2, <2>1, <2>2
  <2>4. Add(f[i], i + 1) \in I[i + 1]
    BY <2>1, <2>2 DEF Add, n, S
  <2> QED
    BY <2>1, <2>2, <2>3, <2>4
<1>10. 0 .. n \subseteq T
  <2> HIDE DEF T
  <2> QED
    BY <1>1, <1>8, <1>9, RangeInduction
<1>11. n \in T
  BY <1>1, <1>10
<1> QED
  BY <1>3, <1>11 DEF n, S

-----------------------------------------------------------------------------
(***************************************************************************)
(* The list of events of a schedule: weekly events of the weeks ahead and  *)
(* absolute ones, in order if no two absolute events are at one time.      *)
(***************************************************************************)
HasEventLists(s) == s.weekly \in Seq(ScheduleEvent) /\ s.absolute \in Seq(ScheduleEvent)

HasOffsets(zone) == \A t \in Int : UTCOffset(zone, t) \in Int

IsStrict(list) == \A i, j \in DOMAIN list : i < j => list[i].time < list[j].time

EventsOfWeeks(s, zone, now) ==
    {WeeklyEvents(s, zone, now, x[1])[x[2]] : x \in (0 .. WeeksAhead - 1) \X DOMAIN s.weekly}

EventsOf(s, zone, now) ==
    EventsOfWeeks(s, zone, now) \cup {AbsoluteEvents(s)[i] : i \in DOMAIN s.absolute}

LEMMA WeeklyEventIs ==
    ASSUME NEW s, HasEventLists(s), NEW zone, HasOffsets(zone), NEW now \in Int,
           NEW w \in 0 .. WeeksAhead - 1, NEW i \in DOMAIN s.weekly
    PROVE  LET e == WeeklyEvents(s, zone, now, w)[i]
           IN  /\ e \in TimelineEvent /\ ~e.absolute /\ e.block = s.weekly[i].block
               /\ e.time = WeekStart(zone, now + w * Week) + s.weekly[i].time
               /\ WeekStart(zone, now + w * Week) \in Int
<1> DEFINE t == now + w * Week
<1>1. s.weekly[i].time \in Int /\ s.weekly[i].block \in Seq(Nat)
  BY TimeIsInt DEF HasEventLists, ScheduleEvent
<1>2. t \in Int
  BY WeekAssumption, TimelineAssumption
<1>3. Weekly(zone, t) \in Int
  BY <1>2, WeekAssumption DEF HasOffsets, Weekly
<1> HIDE DEF t
<1>4. WeekStart(zone, t) \in Int
  BY <1>2, <1>3 DEF WeekStart
<1> QED
  BY <1>1, <1>4 DEF WeeklyEvents, WeeklyToUnixTime, TimelineEvent, t

LEMMA AbsoluteEventIs ==
    ASSUME NEW s, HasEventLists(s), NEW i \in DOMAIN s.absolute
    PROVE  LET e == AbsoluteEvents(s)[i]
           IN  e \in TimelineEvent /\ e.absolute /\ e.time = s.absolute[i].time
<1>1. s.absolute[i].time \in Int /\ s.absolute[i].block \in Seq(Nat)
  BY TimeIsInt DEF HasEventLists, ScheduleEvent
<1> QED
  BY <1>1 DEF AbsoluteEvents, TimelineEvent

LEMMA EventsAreTyped ==
    ASSUME NEW s, HasEventLists(s), NEW zone, HasOffsets(zone), NEW now \in Int
    PROVE  EventsOf(s, zone, now) \in SUBSET TimelineEvent
BY WeeklyEventIs, AbsoluteEventIs DEF EventsOf, EventsOfWeeks

LEMMA InsertionInOrder ==
    ASSUME NEW list \in Seq(TimelineEvent), IsInOrder(list, Order), NEW e \in TimelineEvent,
           e.absolute => HasNoAbsoluteAt(list, e.time)
    PROVE  /\ IsInOrder(InsertEventSorted(list, e), Order)
           /\ \A j \in DOMAIN InsertEventSorted(list, e) :
                 InsertEventSorted(list, e)[j] = e
                 \/ \E i \in DOMAIN list : InsertEventSorted(list, e)[j] = list[i]
<1>1. PICK k \in 1 .. Len(list) + 1 :
          /\ InsertEventSorted(list, e) = Insertion(list, k, e)
          /\ \A i \in DOMAIN list : IF i < k THEN <<list[i], e>> \in Order
                                    ELSE <<e, list[i]>> \in Order
  BY InsertEventSortedIs
<1> DEFINE r == InsertEventSorted(list, e)
           n == Len(list)
<1>2. /\ r \in Seq(TimelineEvent) /\ Len(r) = n + 1
      /\ \A i \in 1 .. n + 1 :
            r[i] = IF i < k THEN list[i] ELSE IF i = k THEN e ELSE list[i - 1]
  BY <1>1, InsertionShape
<1>3. IsInOrder(r, Order)
  BY <1>1, InsertionKeepsOrder
<1> HIDE DEF r
<1>4. n \in Nat /\ DOMAIN list = 1 .. n /\ DOMAIN r = 1 .. n + 1
  BY <1>2
<1>5. ASSUME NEW j \in DOMAIN r
      PROVE  r[j] = e \/ \E i \in DOMAIN list : r[j] = list[i]
  <2>1. CASE j < k
    BY <1>2, <1>4, <1>5, <2>1
  <2>2. CASE j = k
    BY <1>2, <1>4, <1>5, <2>2
  <2>3. CASE j > k
    <3>1. j - 1 \in DOMAIN list /\ r[j] = list[j - 1]
      BY <1>2, <1>4, <1>5, <2>3
    <3> QED
      BY <3>1
  <2> QED
    BY <2>1, <2>2, <2>3, <1>4
<1> QED
  BY <1>3, <1>5 DEF r

HasNoAbsolute(list) == \A i \in DOMAIN list : ~list[i].absolute

LEMMA AddWeekIs ==
    ASSUME NEW s, HasEventLists(s), NEW zone, HasOffsets(zone), NEW now \in Int,
           NEW X, X = EventsOf(s, zone, now), NEW w \in 0 .. WeeksAhead - 1,
           NEW list \in Seq(X), IsInOrder(list, Order), HasNoAbsolute(list)
    PROVE  LET r == AddWeek(list, s, zone, now, w)
           IN  r \in Seq(X) /\ IsInOrder(r, Order) /\ HasNoAbsolute(r)
<1> DEFINE events == WeeklyEvents(s, zone, now, w)
           included == {i \in DOMAIN events : IsIncluded(zone, now, w, events[i].time)}
           D == {l \in Seq(X) : IsInOrder(l, Order) /\ HasNoAbsolute(l)}
           I == [i \in 0 .. Len(events) |-> D]
<1>1. X \in SUBSET TimelineEvent
  BY EventsAreTyped
<1>2. DOMAIN s.weekly = 1 .. Len(s.weekly) /\ Len(s.weekly) \in Nat
  BY DEF HasEventLists
<1>3. DOMAIN events = DOMAIN s.weekly /\ \A i \in DOMAIN s.weekly : events[i] \in X
  <2>1. \A i \in DOMAIN s.weekly : <<w, i>> \in (0 .. WeeksAhead - 1) \X DOMAIN s.weekly
    OBVIOUS
  <2>2. \A i \in DOMAIN s.weekly : events[i] \in EventsOfWeeks(s, zone, now)
    <3> HIDE DEF events
    <3> SUFFICES ASSUME NEW i \in DOMAIN s.weekly
                 PROVE  \E x \in (0 .. WeeksAhead - 1) \X DOMAIN s.weekly :
                           events[i] = WeeklyEvents(s, zone, now, x[1])[x[2]]
      BY Zenon DEF EventsOfWeeks
    <3> WITNESS <<w, i>> \in (0 .. WeeksAhead - 1) \X DOMAIN s.weekly
    <3> QED
      BY DEF events
  <2> QED
    BY <2>2 DEF EventsOf, WeeklyEvents
<1>4. events \in Seq(X) /\ Len(events) = Len(s.weekly)
  <2>1. events \in [1 .. Len(s.weekly) -> X]
    BY <1>2, <1>3 DEF WeeklyEvents
  <2> HIDE DEF events
  <2> QED
    BY <1>2, <2>1
<1>5. \A i \in 1 .. Len(events) : ~events[i].absolute
  BY <1>2, <1>4, WeeklyEventIs
<1> HIDE DEF events, included
<1>6. ASSUME NEW i \in 1 .. Len(events), NEW l \in Seq(X), l \in D
      PROVE  InsertEventSorted(l, events[i]) \in D
  <2> DEFINE e == events[i]
             r == InsertEventSorted(l, e)
  <2>1. l \in Seq(TimelineEvent) /\ e \in X /\ e \in TimelineEvent
    BY <1>1, <1>4, SeqMonotonic
  <2>2. ~e.absolute
    BY <1>5
  <2>3. r \in Seq(X)
    BY <1>1, <2>1, InsertEventSortedType
  <2> HIDE DEF e
  <2>4. IsInOrder(r, Order) /\ \A j \in DOMAIN r : r[j] = e \/ \E k \in DOMAIN l : r[j] = l[k]
    BY <1>6, <2>1, <2>2, InsertionInOrder
  <2> HIDE DEF r
  <2>5. HasNoAbsolute(r)
    BY <1>6, <2>2, <2>4 DEF HasNoAbsolute
  <2> QED
    BY <2>3, <2>4, <2>5 DEF r, e
<1>7. list \in I[0] /\ \A i \in 0 .. Len(events) : I[i] = D
  BY <1>2, <1>4
<1>8. \A i \in 1 .. Len(events) : \A l \in Seq(X) : l \in I[i - 1] =>
         IF i \in included THEN InsertEventSorted(l, events[i]) \in I[i] ELSE l \in I[i]
  <2>1. \A i \in 1 .. Len(events) : i \in 0 .. Len(events) /\ i - 1 \in 0 .. Len(events)
    BY <1>2, <1>4
  <2> HIDE DEF I, D
  <2> QED
    BY <1>6, <1>7, <2>1
<1> HIDE DEF I
<1>9. AddEvents(list, events, included) \in Seq(X) \cap I[Len(events)]
  BY <1>1, <1>4, <1>7, <1>8, AddEventsStaysIn
<1>10. Len(events) \in 0 .. Len(events)
  BY <1>2, <1>4
<1>11. AddWeek(list, s, zone, now, w) = AddEvents(list, events, included)
  BY DEF AddWeek, events, included
<1> QED
  BY <1>7, <1>9, <1>10, <1>11

LEMMA AddWeeksStaysIn ==
    ASSUME NEW s, NEW zone, NEW now, NEW S, << >> \in S, NEW I, << >> \in I[0],
           \A w \in 1 .. WeeksAhead : \A l \in S :
              /\ AddWeek(l, s, zone, now, w - 1) \in S
              /\ l \in I[w - 1] => AddWeek(l, s, zone, now, w - 1) \in I[w]
    PROVE  AddWeeks(s, zone, now) \in S \cap I[WeeksAhead]
<1> DEFINE n == WeeksAhead
           Walk(f) == [w \in 0 .. n |->
                          IF w = 0 THEN << >> ELSE AddWeek(f[w - 1], s, zone, now, w - 1)]
           step == [p \in (1 .. n) \X S |-> AddWeek(p[2], s, zone, now, p[1] - 1)]
           f == CHOOSE g : g = Walk(g)
<1>1. n \in Nat
  BY TimelineAssumption
<1>2. \A w \in 1 .. n : \A l \in S :
         /\ AddWeek(l, s, zone, now, w - 1) \in S
         /\ l \in I[w - 1] => AddWeek(l, s, zone, now, w - 1) \in I[w]
  OBVIOUS
<1>3. << >> \in I[0] /\ << >> \in S
  OBVIOUS
<1>4. AddWeeks(s, zone, now) = f[n]
  BY DEF AddWeeks
<1> HIDE DEF n
<1>5. \E h : h = Walk(h)
  <2>1. step \in [(1 .. n) \X S -> S]
    BY <1>2
  <2> HIDE DEF step
  <2>2. PICK g : IsRun(g, n, S, << >>, step)
    BY <1>1, <1>3, <2>1, RecursionExists
  <2>3. \A w \in 1 .. n : g[w - 1] \in S
    BY <1>1, <2>2 DEF IsRun
  <2>4. \A w \in 1 .. n : g[w] = AddWeek(g[w - 1], s, zone, now, w - 1)
    BY <2>2, <2>3 DEF IsRun, step
  <2>5. g = Walk(g)
    BY <1>1, <2>2, <2>4 DEF IsRun
  <2> QED
    BY <2>5
<1>6. f = Walk(f)
  BY <1>5
<1> HIDE DEF f
<1> DEFINE T == {w \in 0 .. n : f[w] \in S /\ f[w] \in I[w]}
<1>7. 0 \in T
  BY <1>1, <1>3, <1>6
<1>8. ASSUME NEW w \in 0 .. n - 1, w \in T
      PROVE  w + 1 \in T
  <2>1. w + 1 \in 1 .. n /\ w + 1 \in 0 .. n /\ w + 1 # 0 /\ (w + 1) - 1 = w
    BY <1>1
  <2>2. f[w + 1] = AddWeek(f[w], s, zone, now, w)
    BY <1>6, <2>1
  <2>3. AddWeek(f[w], s, zone, now, w) \in S /\ AddWeek(f[w], s, zone, now, w) \in I[w + 1]
    BY <1>2, <1>8, <2>1
  <2> QED
    BY <2>1, <2>2, <2>3
<1>9. 0 .. n \subseteq T
  <2> HIDE DEF T
  <2> QED
    BY <1>1, <1>7, <1>8, RangeInduction
<1>10. n \in T
  BY <1>1, <1>9
<1> QED
  BY <1>4, <1>10 DEF n

LEMMA AddWeeksIs ==
    ASSUME NEW s, HasEventLists(s), NEW zone, HasOffsets(zone), NEW now \in Int,
           NEW X, X = EventsOf(s, zone, now)
    PROVE  LET r == AddWeeks(s, zone, now)
           IN  r \in Seq(X) /\ IsInOrder(r, Order) /\ HasNoAbsolute(r)
<1> DEFINE D == {l \in Seq(X) : IsInOrder(l, Order) /\ HasNoAbsolute(l)}
           I == [w \in 0 .. WeeksAhead |-> D]
<1>1. << >> \in D
  BY DEF IsInOrder, HasNoAbsolute
<1>2. \A w \in 1 .. WeeksAhead : \A l \in D : AddWeek(l, s, zone, now, w - 1) \in D
  <2> SUFFICES ASSUME NEW w \in 1 .. WeeksAhead, NEW l \in D
               PROVE  AddWeek(l, s, zone, now, w - 1) \in D
    OBVIOUS
  <2>1. w - 1 \in 0 .. WeeksAhead - 1
    BY TimelineAssumption
  <2> QED
    BY <2>1, AddWeekIs
<1> HIDE DEF D
<1>3. \A w \in 0 .. WeeksAhead : I[w] = D
  OBVIOUS
<1> HIDE DEF I
<1>4. << >> \in I[0]
  <2>1. 0 \in 0 .. WeeksAhead
    BY TimelineAssumption
  <2> QED
    BY <1>1, <1>3, <2>1
<1>5. \A w \in 1 .. WeeksAhead : \A l \in D :
         /\ AddWeek(l, s, zone, now, w - 1) \in D
         /\ l \in I[w - 1] => AddWeek(l, s, zone, now, w - 1) \in I[w]
  <2>1. \A w \in 1 .. WeeksAhead : w \in 0 .. WeeksAhead
    BY TimelineAssumption
  <2> QED
    BY <1>2, <1>3, <2>1
<1>6. AddWeeks(s, zone, now) \in D
  BY <1>1, <1>4, <1>5, AddWeeksStaysIn
<1> QED
  BY <1>6 DEF D

LEMMA TimelineEventsAre ==
    ASSUME NEW s, HasEventLists(s), NEW zone, HasOffsets(zone), NEW now \in Int
    PROVE  LET r == TimelineEvents(s, zone, now)
           IN  /\ r \in Seq(EventsOf(s, zone, now))
               /\ IsStrict(s.absolute) => IsInOrder(r, Order)
<1> DEFINE X == EventsOf(s, zone, now)
           list == AddWeeks(s, zone, now)
           events == AbsoluteEvents(s)
           included == {i \in DOMAIN events : IsRecent(s, now, events[i].time)}
           n == Len(s.absolute)
           AreOf(l, i) == \A k \in DOMAIN l : l[k].absolute =>
                             \E j \in 1 .. i : l[k].time = s.absolute[j].time
           D(i) == {l \in Seq(X) : IsStrict(s.absolute) => IsInOrder(l, Order) /\ AreOf(l, i)}
           I == [i \in 0 .. n |-> D(i)]
<1>1. X \in SUBSET TimelineEvent
  BY EventsAreTyped
<1>2. DOMAIN s.absolute = 1 .. n /\ n \in Nat /\ \A i \in 1 .. n : s.absolute[i].time \in Int
  BY TimeIsInt DEF HasEventLists
<1>3. DOMAIN events = 1 .. n /\ \A i \in 1 .. n : events[i] \in X
  BY <1>2 DEF EventsOf, AbsoluteEvents
<1>4. events \in Seq(X) /\ Len(events) = n
  <2>1. events \in [1 .. n -> X]
    BY <1>2, <1>3 DEF AbsoluteEvents
  <2> HIDE DEF events
  <2> QED
    BY <1>2, <2>1
<1>5. \A i \in 1 .. n : events[i].absolute /\ events[i].time = s.absolute[i].time
  BY <1>2, AbsoluteEventIs
<1>6. list \in Seq(X) /\ IsInOrder(list, Order) /\ HasNoAbsolute(list)
  BY AddWeeksIs
<1>7. TimelineEvents(s, zone, now) = AddEvents(list, events, included)
  BY DEF TimelineEvents, AddAbsolute
<1> HIDE DEF X, list, events, included
<1>8. ASSUME NEW i \in 1 .. n, NEW l \in Seq(X), l \in D(i - 1)
      PROVE  l \in D(i) /\ InsertEventSorted(l, events[i]) \in D(i)
  <2> DEFINE e == events[i]
             r == InsertEventSorted(l, e)
  <2>1. l \in Seq(TimelineEvent) /\ e \in X /\ e \in TimelineEvent
    BY <1>1, <1>3, SeqMonotonic
  <2>2. e.absolute /\ e.time = s.absolute[i].time
    BY <1>5
  <2>3. r \in Seq(X)
    BY <1>1, <2>1, InsertEventSortedType
  <2>4. 1 .. i - 1 \subseteq 1 .. i /\ i \in 1 .. i
    OBVIOUS
  <2>5. ASSUME IsStrict(s.absolute)
        PROVE  IsInOrder(l, Order) /\ AreOf(l, i) /\ IsInOrder(r, Order) /\ AreOf(r, i)
    <3>1. IsInOrder(l, Order) /\ AreOf(l, i - 1)
      BY <1>8, <2>5
    <3>2. AreOf(l, i)
      BY <2>4, <3>1
    <3>3. HasNoAbsoluteAt(l, e.time)
      <4>1. \A j \in 1 .. i - 1 : s.absolute[j].time < s.absolute[i].time
        BY <1>2, <2>5 DEF IsStrict
      <4>2. \A j \in 1 .. i - 1 : s.absolute[j].time # e.time
        BY <1>2, <2>2, <4>1
      <4> QED
        BY <3>1, <4>2 DEF HasNoAbsoluteAt
    <3> HIDE DEF e, AreOf
    <3>4. IsInOrder(r, Order) /\ \A j \in DOMAIN r : r[j] = e \/ \E k \in DOMAIN l : r[j] = l[k]
      BY <2>1, <3>1, <3>3, InsertionInOrder
    <3> HIDE DEF r
    <3>5. AreOf(r, i)
      BY <2>2, <2>4, <3>2, <3>4 DEF AreOf
    <3> QED
      BY <3>1, <3>2, <3>4, <3>5
  <2> HIDE DEF e, r, AreOf
  <2> QED
    BY <2>3, <2>5 DEF r, e
<1>9. list \in D(0)
  BY <1>6 DEF HasNoAbsolute
<1> HIDE DEF D
<1>10. \A i \in 0 .. n : I[i] = D(i)
  OBVIOUS
<1>11. list \in I[0] /\ n \in 0 .. n /\ 0 \in 0 .. n
  BY <1>2, <1>9
<1>12. \A i \in 1 .. Len(events) : \A l \in Seq(X) : l \in I[i - 1] =>
          IF i \in included THEN InsertEventSorted(l, events[i]) \in I[i] ELSE l \in I[i]
  <2>1. \A i \in 1 .. n : i \in 0 .. n /\ i - 1 \in 0 .. n
    BY <1>2
  <2> HIDE DEF I
  <2> QED
    BY <1>4, <1>8, <1>10, <2>1
<1> HIDE DEF I
<1>13. AddEvents(list, events, included) \in Seq(X) \cap I[n]
  BY <1>1, <1>4, <1>6, <1>11, <1>12, AddEventsStaysIn
<1>14. AddEvents(list, events, included) \in D(n)
  BY <1>10, <1>11, <1>13
<1> QED
  BY <1>7, <1>13, <1>14 DEF D, X

(***************************************************************************)
(* Two weekly events at one time, which are those that end a week and that *)
(* finalize_schedule() put before the next, block the same MACs.           *)
(***************************************************************************)
HasOneOffset(zone) ==
    HasOffsets(zone) /\ \A t, u \in Int : UTCOffset(zone, t) = UTCOffset(zone, u)

LEMMA WeekAfterWeek ==
    ASSUME NEW zone, HasOneOffset(zone), NEW now \in Int, NEW w \in Int
    PROVE  WeekStart(zone, now + w * Week) = WeekStart(zone, now) + w * Week
<1> DEFINE a == now + UTCOffset(zone, now)
           q == a \div Week
           r == a % Week
           W == w * Week
<1>1. a \in Int /\ Week \in Nat /\ Week > 0 /\ W \in Int /\ now + W \in Int
  BY WeekAssumption DEF HasOneOffset, HasOffsets
<1>2. UTCOffset(zone, now + W) = UTCOffset(zone, now) /\ UTCOffset(zone, now) \in Int
  BY <1>1 DEF HasOneOffset, HasOffsets
<1>3. (now + W) + UTCOffset(zone, now + W) = a + W
  BY <1>1, <1>2
<1> HIDE DEF a
<1>4. q \in Int /\ r \in 0 .. Week - 1 /\ a = q * Week + r
  BY <1>1
<1> HIDE DEF q, r
<1>5. (Week * (q + w) + r) % Week = r
  BY <1>1, <1>4, ModIs
<1>6. a + W = Week * (q + w) + r
  BY <1>1, <1>4
<1>7. Weekly(zone, now + W) = r /\ Weekly(zone, now) = r
  <2>1. Weekly(zone, now + W) = (a + W) % Week
    BY <1>3 DEF Weekly
  <2>2. Weekly(zone, now) = a % Week
    BY DEF Weekly, a
  <2> QED
    BY <1>5, <1>6, <2>1, <2>2 DEF r
<1> HIDE DEF W
<1>8. WeekStart(zone, now + W) = WeekStart(zone, now) + W
  BY <1>1, <1>4, <1>7 DEF WeekStart
<1> QED
  BY <1>8 DEF W

LEMMA WeeklyTies ==
    ASSUME NEW s, HasEventLists(s), IsFinal(s.weekly), IsStrict(s.weekly),
           NEW zone, HasOneOffset(zone), NEW now \in Int,
           NEW x \in EventsOfWeeks(s, zone, now), NEW y \in EventsOfWeeks(s, zone, now),
           x.time = y.time
    PROVE  x.block = y.block
<1> DEFINE l == s.weekly
           n == Len(l)
           b == WeekStart(zone, now)
           IsOf(e, w, i) == e.time = b + w * Week + l[i].time /\ e.block = l[i].block
<1>1. n \in Nat /\ DOMAIN l = 1 .. n /\ Week \in Nat /\ Week > 0
  BY WeekAssumption DEF HasEventLists
<1>2. \A i \in 1 .. n : l[i].time \in Int
  BY <1>1, TimeIsInt DEF HasEventLists
<1>3. b \in Int
  BY <1>1 DEF HasOneOffset, HasOffsets, WeekStart, Weekly
<1>4. ASSUME NEW e \in EventsOfWeeks(s, zone, now)
      PROVE  \E w \in 0 .. WeeksAhead - 1, i \in 1 .. n : IsOf(e, w, i)
  <2>1. PICK p \in (0 .. WeeksAhead - 1) \X DOMAIN s.weekly :
            e = WeeklyEvents(s, zone, now, p[1])[p[2]]
    BY <1>4, Zenon DEF EventsOfWeeks
  <2>2. p[1] \in 0 .. WeeksAhead - 1 /\ p[2] \in DOMAIN s.weekly /\ p[1] \in Int
    BY <2>1
  <2>3. HasOffsets(zone)
    BY DEF HasOneOffset
  <2>4. /\ e.block = l[p[2]].block
        /\ e.time = WeekStart(zone, now + p[1] * Week) + l[p[2]].time
    BY <2>1, <2>2, <2>3, WeeklyEventIs
  <2>5. WeekStart(zone, now + p[1] * Week) = b + p[1] * Week
    BY <2>2, WeekAfterWeek
  <2>6. IsOf(e, p[1], p[2])
    BY <2>4, <2>5
  <2> QED
    BY <1>1, <2>2, <2>6
<1>14. IsFinal(l) /\ IsStrict(l) /\ \A k \in 1 .. n : l[k] \in ScheduleEvent
  BY <1>1 DEF HasEventLists
<1> HIDE DEF b, l, n
<1>15. n = Len(l)
  BY DEF n
<1>5. PICK w \in 0 .. WeeksAhead - 1, i \in 1 .. n : IsOf(x, w, i)
  BY <1>4
<1>6. PICK v \in 0 .. WeeksAhead - 1, j \in 1 .. n : IsOf(y, v, j)
  BY <1>4
<1>7. ASSUME NEW c \in 0 .. WeeksAhead - 1, NEW d \in 0 .. WeeksAhead - 1,
             NEW g \in 1 .. n, NEW h \in 1 .. n, c < d,
             b + c * Week + l[g].time = b + d * Week + l[h].time
      PROVE  l[g].block = l[h].block
  <2> DEFINE m == (d - c) * Week
  <2>1. m \in Int /\ m >= Week /\ (d - c # 1 => m >= 2 * Week) /\ (d - c = 1 => m = Week)
    <3>1. d - c \in Nat /\ d - c >= 1
      BY <1>7, TimelineAssumption
    <3>2. \A k \in Nat : k >= 1 => k * Week >= Week
      BY <1>1
    <3>3. \A k \in Nat : k >= 2 => k * Week >= 2 * Week
      BY <1>1
    <3> QED
      BY <1>1, <3>1, <3>2, <3>3
  <2>10. l[g].time \in Int /\ l[h].time \in Int /\ l[1].time \in Int /\ l[n].time \in Int
    BY <1>1, <1>2
  <2>2. l[g].time - l[h].time = m
    <3>1. c \in Int /\ d \in Int /\ c * Week \in Int /\ d * Week \in Int /\ m = d * Week - c * Week
      BY <1>1, TimelineAssumption
    <3> DEFINE cw == c * Week
               dw == d * Week
    <3>2. b + cw + l[g].time = b + dw + l[h].time
      BY <1>7
    <3>3. cw \in Int /\ dw \in Int /\ m = dw - cw
      BY <3>1
    <3> HIDE DEF m, cw, dw
    <3> QED
      BY <2>10, <1>3, <3>2, <3>3
  <2> HIDE DEF m
  <2>3. l[g].time < Week
    BY <1>1, <1>14 DEF IsFinal
  <2>4. l[h].time < 0
    BY <1>1, <2>1, <2>2, <2>3, <2>10
  <2>5. h = 1 /\ RepeatsLast(l)
    <3>1. ~(h \in 2 .. n)
      BY <1>14, <1>15, <2>4, <2>10 DEF IsFinal
    <3>2. h = 1
      BY <1>1, <3>1
    <3>3. l # << >>
      BY <1>1, <1>15
    <3> QED
      BY <1>14, <2>4, <3>2, <3>3 DEF IsFinal
  <2>6. l[1].time = l[n].time - Week /\ l[1].block = l[n].block
    <3>1. l[n] \in ScheduleEvent
      BY <1>1, <1>14
    <3>2. l[1] = [l[n] EXCEPT !.time = @ - Week]
      BY <1>15, <2>5 DEF RepeatsLast
    <3> QED
      BY <3>1, <3>2 DEF ScheduleEvent
  <2>7. l[n].time >= 0
    <3>1. n # 1
      BY <1>1, <2>6, <2>10
    <3>2. n \in 2 .. Len(l)
      BY <1>1, <1>15, <3>1
    <3> QED
      BY <1>14, <3>2 DEF IsFinal
  <2>8. l[g].time = l[n].time
    <3>1. l[g].time = m + l[h].time /\ l[h].time = l[n].time - Week
      BY <2>2, <2>5, <2>6, <2>10, <2>1
    <3>2. ~(m >= 2 * Week)
      <4>1. \A a, c1, d1 \in Int : a < Week /\ a = c1 + (d1 - Week) /\ d1 >= 0 => ~(c1 >= 2 * Week)
        BY <1>1
      <4>2. m \in Int
        BY <2>1
      <4> QED
        BY <2>3, <2>7, <2>10, <3>1, <4>1, <4>2
    <3> QED
      BY <1>1, <2>1, <2>10, <3>1, <3>2
  <2>9. g = n
    <3>1. ~(g < n)
      <4>1. n \in DOMAIN l /\ g \in DOMAIN l
        BY <1>1
      <4>2. g < n => l[g].time < l[n].time
        BY <1>14, <4>1, Zenon DEF IsStrict
      <4> QED
        BY <2>8, <2>10, <4>2
    <3> QED
      BY <1>1, <3>1
  <2> QED
    BY <2>5, <2>6, <2>9
<1>8. w = v => i = j
  <2>1. w = v => l[i].time = l[j].time
    <3> SUFFICES ASSUME w = v
                 PROVE  l[i].time = l[j].time
      OBVIOUS
    <3> DEFINE d == w * Week
    <3>1. d \in Int /\ l[i].time \in Int /\ l[j].time \in Int
      BY <1>1, <1>2, TimelineAssumption
    <3>2. b + d + l[i].time = b + d + l[j].time
      BY <1>5, <1>6
    <3> HIDE DEF d
    <3> QED
      BY <1>3, <3>1, <3>2
  <2>2. l[i].time \in Int /\ l[j].time \in Int
    BY <1>2
  <2> QED
    BY <1>1, <1>14, <2>1, <2>2 DEF IsStrict
<1>9. b + w * Week + l[i].time = b + v * Week + l[j].time
  BY <1>5, <1>6
<1>10. w \in Int /\ v \in Int
  OBVIOUS
<1>11. CASE w < v
  BY <1>5, <1>6, <1>7, <1>9, <1>11
<1>12. CASE v < w
  BY <1>5, <1>6, <1>7, <1>9, <1>12
<1>13. CASE w = v
  BY <1>5, <1>6, <1>8, <1>13
<1> QED
  BY <1>10, <1>11, <1>12, <1>13

-----------------------------------------------------------------------------
(***************************************************************************)
(* The walk of build_periods_for_mac() over a list in order.               *)
(***************************************************************************)
WalkState ==
    [block_start : Int, currently_blocked : BOOLEAN, start_is_absolute : BOOLEAN,
     absolute_controls_period : BOOLEAN, weekly_blocked : BOOLEAN,
     absolute_blocked : BOOLEAN, periods : Seq(Period)]

Stays(st, r) ==
    /\ r.currently_blocked = st.currently_blocked
    /\ r.block_start = st.block_start
    /\ r.periods = st.periods

Starts(e, st, r) ==
    /\ ~st.currently_blocked /\ r.currently_blocked
    /\ r.block_start = e.time
    /\ r.periods = st.periods

Ends(e, now, st, r) ==
    /\ st.currently_blocked /\ ~r.currently_blocked
    /\ \/ r.periods = st.periods
       \/ \E p \in Period : /\ p.start = st.block_start /\ p.end = e.time /\ e.time > now
                            /\ p.done = {}
                            /\ r.periods = Append(st.periods, p)

(* Nothing absolute happens at the time of the event.                      *)
IsFree(events, k) == ~events[k].absolute /\ ~FollowsTiedAbsolute(events, k)

NextIs(events, mac, now, st, k, r) ==
    \/ /\ Stays(st, r)
       /\ IsFree(events, k) /\ ~st.currently_blocked => ~ListsMac(events[k], mac)
    \/ /\ Starts(events[k], st, r)
       /\ events[k].absolute \/ IsFree(events, k)
       /\ ListsMac(events[k], mac)
    \/ /\ Ends(events[k], now, st, r)
       /\ events[k].absolute \/ IsFree(events, k)
       /\ ~ListsMac(events[k], mac)

LEMMA NextEventIs ==
    ASSUME NEW events \in Seq(TimelineEvent), NEW mac, NEW now \in Int,
           NEW before \in WalkState, NEW k \in 1 .. Len(events)
    PROVE  LET r == NextEvent(events, mac, now, before, k)
           IN  r \in WalkState /\ NextIs(events, mac, now, before, k, r)
<1> DEFINE e == events[k]
           listed == ListsMac(e, mac)
           st == IF e.absolute THEN [before EXCEPT !.absolute_blocked = listed]
                               ELSE [before EXCEPT !.weekly_blocked = listed]
           ignored == /\ ~e.absolute
                      /\ \/ FollowsTiedAbsolute(events, k)
                         \/ st.currently_blocked /\ st.absolute_controls_period
           r == NextEvent(events, mac, now, before, k)
<1>1. e \in TimelineEvent /\ e.time \in Int /\ e.absolute \in BOOLEAN
  BY EventType
<1>2. listed \in BOOLEAN
  BY DEF ListsMac
<1> HIDE DEF listed
<1>3. st \in WalkState /\ Stays(before, st)
  BY <1>1, <1>2 DEF WalkState, Stays
<1>4. r = CASE ignored -> st
          [] ~ignored /\ listed /\ ~st.currently_blocked -> StartPeriod(events, mac, st, k)
          [] ~ignored /\ listed /\ st.currently_blocked ->
                IF e.absolute THEN ReaffirmPeriod(events, mac, st, k, before.absolute_blocked)
                ELSE st
          [] ~ignored /\ ~listed /\ st.currently_blocked ->
                IF e.absolute /\ WeeklyHolds(events, mac, st, k)
                THEN [st EXCEPT !.absolute_controls_period = FALSE]
                ELSE EndPeriod(events, mac, now, st, k)
          [] OTHER -> st
  BY DEF NextEvent, listed
<1> HIDE DEF st, r, e
<1>5. st.currently_blocked \in BOOLEAN /\ st.absolute_controls_period \in BOOLEAN
  BY <1>3 DEF WalkState
<1>6. ignored <=> /\ ~e.absolute
                  /\ \/ FollowsTiedAbsolute(events, k)
                     \/ st.currently_blocked /\ st.absolute_controls_period
  OBVIOUS
<1> HIDE DEF ignored
<1>7. ~ignored => e.absolute \/ IsFree(events, k)
  BY <1>6 DEF IsFree, e
<1>8. CASE ignored
  <2>1. r = st
    BY <1>4, <1>8
  <2>2. IsFree(events, k) => st.currently_blocked
    BY <1>6, <1>8 DEF IsFree
  <2> QED
    BY <1>3, <2>1, <2>2 DEF NextIs, Stays, r
<1>9. CASE ~ignored /\ listed /\ ~st.currently_blocked
  <2>1. r = StartPeriod(events, mac, st, k)
    BY <1>4, <1>9
  <2>2. PICK absolute \in BOOLEAN :
            r = [st EXCEPT !.block_start = e.time, !.currently_blocked = TRUE,
                           !.start_is_absolute = absolute, !.absolute_controls_period = absolute]
    BY <2>1 DEF StartPeriod, e
  <2>3. r \in WalkState /\ Starts(e, before, r)
    BY <1>1, <1>3, <1>9, <2>2 DEF WalkState, Starts, Stays
  <2> QED
    BY <1>7, <1>9, <2>3 DEF NextIs, r, e, listed
<1>10. CASE ~ignored /\ listed /\ st.currently_blocked
  <2>1. r = IF e.absolute THEN ReaffirmPeriod(events, mac, st, k, before.absolute_blocked) ELSE st
    BY <1>4, <1>10
  <2>2. \/ r = st
        \/ \E b \in BOOLEAN : r = [st EXCEPT !.absolute_controls_period = b]
    BY <1>5, <2>1 DEF ReaffirmPeriod
  <2>3. r \in WalkState /\ Stays(before, r)
    BY <1>3, <2>2 DEF WalkState, Stays
  <2> QED
    BY <1>3, <1>10, <2>3 DEF NextIs, r, Stays
<1>11. CASE ~ignored /\ ~listed /\ st.currently_blocked
  <2>1. r = IF e.absolute /\ WeeklyHolds(events, mac, st, k)
            THEN [st EXCEPT !.absolute_controls_period = FALSE]
            ELSE EndPeriod(events, mac, now, st, k)
    BY <1>4, <1>11
  <2>2. CASE e.absolute /\ WeeklyHolds(events, mac, st, k)
    <3>1. r = [st EXCEPT !.absolute_controls_period = FALSE]
      BY <2>1, <2>2
    <3>2. r \in WalkState /\ Stays(before, r)
      BY <1>3, <3>1 DEF WalkState, Stays
    <3> QED
      BY <1>3, <1>11, <3>2 DEF NextIs, r, Stays
  <2>3. CASE ~(e.absolute /\ WeeklyHolds(events, mac, st, k))
    <3>1. r = EndPeriod(events, mac, now, st, k)
      BY <2>1, <2>3
    <3>2. PICK absolute \in BOOLEAN :
              r = [st EXCEPT !.periods = IF e.time > now
                                 THEN Append(@, [start |-> st.block_start, end |-> e.time,
                                                 start_is_absolute |-> st.start_is_absolute,
                                                 end_is_absolute |-> absolute, done |-> {}])
                                 ELSE @,
                             !.currently_blocked = FALSE, !.absolute_controls_period = FALSE]
      BY <1>1, <3>1 DEF EndPeriod, e
    <3> DEFINE p == [start |-> st.block_start, end |-> e.time,
                     start_is_absolute |-> st.start_is_absolute,
                     end_is_absolute |-> absolute, done |-> {}]
               periods == IF e.time > now THEN Append(st.periods, p) ELSE st.periods
    <3>3. p \in Period /\ p.start = before.block_start /\ p.end = e.time /\ p.done = {}
      BY <1>1, <1>3 DEF WalkState, Period, Stays
    <3>4. r = [st EXCEPT !.periods = periods, !.currently_blocked = FALSE,
                         !.absolute_controls_period = FALSE]
      BY <3>2
    <3> HIDE DEF p
    <3>5. st.periods \in Seq(Period) /\ periods \in Seq(Period)
      BY <1>3, <3>3 DEF WalkState
    <3>6. \/ periods = before.periods
          \/ e.time > now /\ periods = Append(before.periods, p)
      BY <1>3 DEF Stays
    <3> HIDE DEF periods
    <3>7. r \in WalkState /\ ~r.currently_blocked /\ r.periods = periods
      BY <1>3, <3>4, <3>5 DEF WalkState
    <3>8. Ends(e, now, before, r)
      BY <1>3, <1>11, <3>3, <3>6, <3>7 DEF Ends, Stays
    <3> QED
      BY <1>7, <1>11, <3>7, <3>8 DEF NextIs, r, e, listed
  <2> QED
    BY <2>2, <2>3
<1>12. CASE ~ignored /\ ~listed /\ ~st.currently_blocked
  <2>1. r = st
    BY <1>4, <1>12
  <2> QED
    BY <1>3, <1>12, <2>1 DEF NextIs, Stays, r, listed, e
<1> QED
  BY <1>2, <1>5, <1>8, <1>9, <1>10, <1>11, <1>12

(***************************************************************************)
(* The invariant of the walk: the periods so far are apart and over, the   *)
(* one that is open begins after them, and what a weekly event says of the *)
(* MAC at this time, another one at this time will say again.              *)
(***************************************************************************)
TiedAlike(events) ==
    \A i, j \in DOMAIN events :
        ~events[i].absolute /\ ~events[j].absolute /\ events[i].time = events[j].time
            => events[i].block = events[j].block

ArePeriodsApart(periods) ==
    /\ \A k \in DOMAIN periods : periods[k].start < periods[k].end
    /\ \A k \in 2 .. Len(periods) : periods[k - 1].end < periods[k].start

PeriodsUntil(periods, t) ==
    ArePeriodsApart(periods) /\ \A i \in DOMAIN periods : periods[i].end <= t

OpenAfter(st, t) ==
    st.currently_blocked =>
        st.block_start <= t /\ \A i \in DOMAIN st.periods : st.periods[i].end < st.block_start

WalkInv(events, mac, k, st) ==
    /\ PeriodsUntil(st.periods, events[k].time)
    /\ OpenAfter(st, events[k].time)
    /\ IsFree(events, k) =>
          IF st.currently_blocked
          THEN st.block_start = events[k].time => ListsMac(events[k], mac)
          ELSE ~ListsMac(events[k], mac)

LEMMA PeriodIsTyped ==
    ASSUME NEW periods \in Seq(Period), NEW i \in DOMAIN periods
    PROVE  periods[i].start \in Int /\ periods[i].end \in Int
<1>1. periods[i] \in Period
  OBVIOUS
<1> QED
  BY <1>1 DEF Period

LEMMA FirstEvent ==
    ASSUME NEW events \in Seq(TimelineEvent), NEW mac, NEW now \in Int,
           1 \in DOMAIN events, NEW st \in WalkState, st.periods = << >>, ~st.currently_blocked,
           NEW r, NextIs(events, mac, now, st, 1, r)
    PROVE  WalkInv(events, mac, 1, r)
<1>1. events[1].time \in Int
  BY EventType
<1>2. CASE Stays(st, r)
  BY <1>2 DEF Stays, NextIs, Starts, WalkInv, PeriodsUntil, ArePeriodsApart, OpenAfter
<1>3. CASE ~Stays(st, r)
  <2>1. Starts(events[1], st, r) /\ ListsMac(events[1], mac)
    BY <1>3 DEF NextIs, Ends
  <2>2. r.periods = << >> /\ r.block_start = events[1].time /\ r.currently_blocked
    BY <2>1 DEF Starts
  <2> QED
    BY <1>1, <2>1, <2>2 DEF WalkInv, PeriodsUntil, ArePeriodsApart, OpenAfter
<1> QED
  BY <1>2, <1>3

LEMMA TiesCarryOver ==
    ASSUME NEW events \in Seq(TimelineEvent), IsInOrder(events, Order), TiedAlike(events),
           NEW mac, NEW k \in DOMAIN events, k + 1 \in DOMAIN events,
           events[k + 1].absolute \/ IsFree(events, k + 1),
           events[k + 1].time <= events[k].time
    PROVE  /\ events[k + 1].time = events[k].time
           /\ IsFree(events, k)
           /\ ListsMac(events[k], mac) <=> ListsMac(events[k + 1], mac)
<1> DEFINE x == events[k]
           e == events[k + 1]
           n == Len(events)
<1>1. n \in Nat /\ DOMAIN events = 1 .. n /\ k \in 1 .. n /\ k < k + 1
  OBVIOUS
<1>2. x.time \in Int /\ e.time \in Int /\ \A i \in 1 .. n : events[i].time \in Int
  BY <1>1, EventType
<1>3. Comes(x, e)
  BY <1>1, InOrder
<1>4. e.time = x.time /\ ~e.absolute /\ IsFree(events, k + 1)
  BY <1>2, <1>3 DEF Comes
<1>5. \A i \in 1 .. k : events[i].time = e.time => ~events[i].absolute
  <2>1. \A i \in 1 .. (k + 1) - 1 : events[i].time = e.time => ~events[i].absolute
    BY <1>4 DEF IsFree, FollowsTiedAbsolute
  <2> QED
    BY <1>1, <2>1
<1>6. ~x.absolute
  BY <1>1, <1>4, <1>5
<1>7. IsFree(events, k)
  <2>1. \A i \in 1 .. k - 1 : i \in 1 .. k
    BY <1>1
  <2> QED
    BY <1>4, <1>5, <1>6, <2>1 DEF IsFree, FollowsTiedAbsolute
<1>8. x.block = e.block
  BY <1>4, <1>6 DEF TiedAlike
<1> QED
  BY <1>4, <1>7, <1>8 DEF ListsMac

LEMMA LaterEvent ==
    ASSUME NEW events \in Seq(TimelineEvent), IsInOrder(events, Order), TiedAlike(events),
           NEW mac, NEW now \in Int, NEW k \in DOMAIN events, k + 1 \in DOMAIN events,
           NEW st \in WalkState, WalkInv(events, mac, k, st),
           NEW r \in WalkState, NextIs(events, mac, now, st, k + 1, r)
    PROVE  WalkInv(events, mac, k + 1, r)
<1> DEFINE t == events[k].time
           u == events[k + 1].time
           counts == events[k + 1].absolute \/ IsFree(events, k + 1)
<1>1. t \in Int /\ u \in Int /\ t <= u
  <2>1. k < k + 1
    OBVIOUS
  <2> QED
    BY <2>1, EventType, InOrder
<1>2. counts /\ ~(t < u) => /\ u = t /\ IsFree(events, k)
                            /\ ListsMac(events[k], mac) <=> ListsMac(events[k + 1], mac)
  <2> SUFFICES ASSUME counts, ~(t < u)
               PROVE  /\ u = t /\ IsFree(events, k)
                      /\ ListsMac(events[k], mac) <=> ListsMac(events[k + 1], mac)
    BY Zenon
  <2>1. events[k + 1].time <= events[k].time
    BY <1>1
  <2> QED
    BY <2>1, TiesCarryOver
<1>3. IsFree(events, k + 1) => counts
  OBVIOUS
<1>4. st.block_start \in Int /\ r.block_start \in Int /\ st.periods \in Seq(Period)
  BY DEF WalkState
<1>5. \A i \in DOMAIN st.periods : st.periods[i].start \in Int /\ st.periods[i].end \in Int
  BY <1>4, PeriodIsTyped
<1>6. /\ PeriodsUntil(st.periods, t) /\ OpenAfter(st, t)
      /\ IsFree(events, k) =>
            IF st.currently_blocked
            THEN st.block_start = t => ListsMac(events[k], mac)
            ELSE ~ListsMac(events[k], mac)
  BY DEF WalkInv
<1>7. PeriodsUntil(st.periods, u)
  BY <1>1, <1>5, <1>6 DEF PeriodsUntil
<1> HIDE DEF t, counts
<1>8. CASE Stays(st, r)
  <2>1. r.currently_blocked = st.currently_blocked /\ r.block_start = st.block_start
        /\ r.periods = st.periods
    BY <1>8 DEF Stays
  <2>2. IsFree(events, k + 1) /\ ~st.currently_blocked => ~ListsMac(events[k + 1], mac)
    BY <2>1, Zenon DEF NextIs, Starts, Ends
  <2>3. OpenAfter(r, u)
    BY <1>1, <1>4, <1>6, <2>1 DEF OpenAfter
  <2>4. ASSUME IsFree(events, k + 1), st.currently_blocked, st.block_start = u
        PROVE  ListsMac(events[k + 1], mac)
    <3>1. st.block_start <= t
      BY <1>6, <2>4 DEF OpenAfter
    <3>2. ~(t < u)
      BY <1>1, <1>4, <2>4, <3>1
    <3> QED
      BY <1>2, <1>3, <1>6, <2>4, <3>2
  <2> QED
    BY <1>7, <2>1, <2>2, <2>3, <2>4 DEF WalkInv
<1>9. CASE Starts(events[k + 1], st, r)
  <2>1. ~st.currently_blocked /\ r.currently_blocked /\ r.block_start = u /\ r.periods = st.periods
    BY <1>9 DEF Starts
  <2>2. counts /\ ListsMac(events[k + 1], mac)
    BY <1>9 DEF NextIs, Starts, Ends, Stays, counts
  <2>3. t < u
    BY <1>2, <1>6, <2>1, <2>2
  <2>4. OpenAfter(r, u)
    BY <1>1, <1>5, <1>6, <2>1, <2>3 DEF OpenAfter, PeriodsUntil
  <2> QED
    BY <1>7, <2>1, <2>2, <2>4 DEF WalkInv
<1>10. CASE Ends(events[k + 1], now, st, r)
  <2>1. /\ st.currently_blocked /\ ~r.currently_blocked
        /\ \/ r.periods = st.periods
           \/ \E p \in Period : /\ p.start = st.block_start /\ p.end = u
                                /\ r.periods = Append(st.periods, p)
    BY <1>10 DEF Ends
  <2>2. counts /\ ~ListsMac(events[k + 1], mac)
    BY <1>10 DEF NextIs, Starts, Ends, Stays, counts
  <2>3. st.block_start < u
    <3>1. st.block_start <= t
      BY <1>6, <2>1 DEF OpenAfter
    <3>2. st.block_start = u => ~(t < u)
      BY <1>1, <1>4, <3>1
    <3>3. st.block_start # u
      BY <1>2, <1>6, <2>1, <2>2, <3>2
    <3> QED
      BY <1>1, <1>4, <3>1, <3>3
  <2>4. PeriodsUntil(r.periods, u)
    <3>1. CASE r.periods = st.periods
      BY <1>7, <3>1
    <3>2. CASE r.periods # st.periods
      <4>1. PICK p \in Period : p.start = st.block_start /\ p.end = u
                                /\ r.periods = Append(st.periods, p)
        BY <2>1, <3>2
      <4> DEFINE n == Len(st.periods)
                 q == r.periods
      <4>2. n \in Nat /\ DOMAIN st.periods = 1 .. n
        BY <1>4
      <4>3. /\ Len(q) = n + 1 /\ DOMAIN q = 1 .. n + 1
            /\ q[n + 1] = p /\ \A i \in 1 .. n : q[i] = st.periods[i]
        BY <1>4, <4>1, <4>2
      <4> HIDE DEF q, n
      <4>4. \A i \in 1 .. n + 1 : q[i].start < q[i].end /\ q[i].end <= u
        <5>1. \A i \in 1 .. n : q[i].start < q[i].end /\ q[i].end <= u
          BY <1>7, <4>2, <4>3 DEF PeriodsUntil, ArePeriodsApart
        <5>2. q[n + 1].start < q[n + 1].end /\ q[n + 1].end <= u
          BY <1>1, <2>3, <4>1, <4>3
        <5> QED
          BY <4>2, <5>1, <5>2
      <4>5. ASSUME NEW i \in 2 .. n + 1
            PROVE  q[i - 1].end < q[i].start
        <5>1. CASE i = n + 1
          <6>1. i - 1 \in 1 .. n /\ q[i - 1] = st.periods[i - 1] /\ q[i] = p
            BY <4>2, <4>3, <5>1
          <6>2. st.periods[i - 1].end < st.block_start
            BY <1>6, <2>1, <4>2, <6>1 DEF OpenAfter
          <6> QED
            BY <4>1, <6>1, <6>2
        <5>2. CASE i # n + 1
          <6>1. i \in 2 .. n /\ q[i - 1] = st.periods[i - 1] /\ q[i] = st.periods[i]
            BY <4>2, <4>3, <5>2
          <6> QED
            BY <1>7, <6>1 DEF PeriodsUntil, ArePeriodsApart, n
        <5> QED
          BY <5>1, <5>2
      <4>6. PeriodsUntil(q, u)
        BY <4>3, <4>4, <4>5 DEF PeriodsUntil, ArePeriodsApart
      <4> QED
        BY <4>6 DEF q
    <3> QED
      BY <3>1, <3>2
  <2> QED
    BY <2>1, <2>2, <2>4 DEF WalkInv, OpenAfter
<1> QED
  BY <1>8, <1>9, <1>10 DEF NextIs

(***************************************************************************)
(* The walk is a sequence of states, one after each event.                 *)
(***************************************************************************)
IsWalk(f, events, mac, now) ==
    /\ \A k \in 0 .. Len(events) : f[k] \in WalkState
    /\ f[0] = Unblocked
    /\ \A k \in 1 .. Len(events) : f[k] = NextEvent(events, mac, now, f[k - 1], k)

LEMMA BuildPeriodsWalks ==
    ASSUME NEW events \in Seq(TimelineEvent), NEW mac, NEW now \in Int
    PROVE  \E f : /\ IsWalk(f, events, mac, now)
                  /\ BuildPeriodsForMac(events, mac, now) = f[Len(events)].periods
<1> DEFINE n == Len(events)
           Walk(f) == [k \in 0 .. n |-> IF k = 0 THEN Unblocked
                                        ELSE NextEvent(events, mac, now, f[k - 1], k)]
           step == [p \in (1 .. n) \X WalkState |-> NextEvent(events, mac, now, p[2], p[1])]
           f == CHOOSE g : g = Walk(g)
<1>1. n \in Nat
  OBVIOUS
<1>2. Unblocked \in WalkState
  BY DEF Unblocked, WalkState
<1>3. \A k \in 1 .. n : \A st \in WalkState : NextEvent(events, mac, now, st, k) \in WalkState
  BY NextEventIs
<1>4. BuildPeriodsForMac(events, mac, now) = f[n].periods
  BY DEF BuildPeriodsForMac
<1> HIDE DEF n
<1>5. \E h : h = Walk(h)
  <2>1. step \in [(1 .. n) \X WalkState -> WalkState]
    BY <1>3
  <2> HIDE DEF step
  <2>2. PICK g : IsRun(g, n, WalkState, Unblocked, step)
    BY <1>1, <1>2, <2>1, RecursionExists
  <2>3. \A k \in 1 .. n : g[k - 1] \in WalkState
    BY <1>1, <2>2 DEF IsRun
  <2>4. \A k \in 1 .. n : g[k] = NextEvent(events, mac, now, g[k - 1], k)
    BY <2>2, <2>3 DEF IsRun, step
  <2>5. g = Walk(g)
    BY <1>1, <2>2, <2>4 DEF IsRun
  <2> QED
    BY <2>5
<1>6. f = Walk(f)
  BY <1>5
<1> HIDE DEF f
<1>7. f[0] = Unblocked /\ \A k \in 1 .. n : f[k] = NextEvent(events, mac, now, f[k - 1], k)
  BY <1>1, <1>6
<1> DEFINE T == {k \in 0 .. n : f[k] \in WalkState}
<1>8. 0 \in T
  BY <1>1, <1>2, <1>7
<1>9. ASSUME NEW k \in 0 .. n - 1, k \in T
      PROVE  k + 1 \in T
  <2>1. k + 1 \in 1 .. n /\ k + 1 \in 0 .. n /\ (k + 1) - 1 = k
    BY <1>1
  <2> QED
    BY <1>3, <1>7, <1>9, <2>1
<1>10. 0 .. n \subseteq T
  <2> HIDE DEF T
  <2> QED
    BY <1>1, <1>8, <1>9, RangeInduction
<1>11. IsWalk(f, events, mac, now)
  BY <1>7, <1>10 DEF IsWalk, n
<1> QED
  BY <1>4, <1>11 DEF n

(***************************************************************************)
(* The periods of a MAC end after the time at which they are built, and    *)
(* are apart if the list of events is in order.                            *)
(***************************************************************************)
LEMMA BuildPeriodsAre ==
    ASSUME NEW events \in Seq(TimelineEvent), NEW mac, NEW now \in Int
    PROVE  LET r == BuildPeriodsForMac(events, mac, now)
           IN  /\ r \in Seq(Period)
               /\ IsInOrder(events, Order) /\ TiedAlike(events) => ArePeriodsApart(r)
<1> DEFINE n == Len(events)
           ok == IsInOrder(events, Order) /\ TiedAlike(events)
<1>1. n \in Nat /\ DOMAIN events = 1 .. n
  OBVIOUS
<1>2. PICK f : /\ IsWalk(f, events, mac, now)
               /\ BuildPeriodsForMac(events, mac, now) = f[n].periods
  BY BuildPeriodsWalks
<1>3. /\ \A k \in 0 .. n : f[k] \in WalkState
      /\ f[0].periods = << >> /\ ~f[0].currently_blocked
      /\ \A k \in 1 .. n : f[k] = NextEvent(events, mac, now, f[k - 1], k)
  BY <1>2 DEF IsWalk, Unblocked
<1> HIDE DEF n, ok
<1> DEFINE T == {k \in 0 .. n : k # 0 /\ ok => WalkInv(events, mac, k, f[k])}
<1>4. 0 \in T
  BY <1>1
<1>5. ASSUME NEW k \in 0 .. n - 1, k \in T
      PROVE  k + 1 \in T
  <2>1. k + 1 \in 1 .. n /\ k + 1 \in 0 .. n /\ k + 1 # 0 /\ (k + 1) - 1 = k
    BY <1>1
  <2> DEFINE r == NextEvent(events, mac, now, f[k], k + 1)
  <2>2. f[k + 1] = r /\ f[k] \in WalkState
    BY <1>1, <1>3, <2>1
  <2>3. r \in WalkState /\ NextIs(events, mac, now, f[k], k + 1, r)
    BY <2>1, <2>2, NextEventIs DEF n
  <2> HIDE DEF r
  <2>4. ASSUME ok
        PROVE  WalkInv(events, mac, k + 1, r)
    <3>1. CASE k = 0
      <4>1. f[0].periods = << >> /\ ~f[0].currently_blocked /\ k + 1 = 1
        BY <1>3, <3>1
      <4>2. 1 \in DOMAIN events /\ NextIs(events, mac, now, f[0], 1, r) /\ f[0] \in WalkState
        BY <1>1, <2>1, <2>2, <2>3, <3>1
      <4>3. WalkInv(events, mac, 1, r)
        BY <4>1, <4>2, FirstEvent
      <4> QED
        BY <4>1, <4>3
    <3>2. CASE k # 0
      <4>1. k \in DOMAIN events /\ k + 1 \in DOMAIN events
        BY <1>1, <2>1, <3>2
      <4>2. WalkInv(events, mac, k, f[k])
        BY <1>5, <2>4, <3>2
      <4>3. IsInOrder(events, Order) /\ TiedAlike(events)
        BY <2>4 DEF ok
      <4> QED
        BY <2>2, <2>3, <4>1, <4>2, <4>3, LaterEvent
    <3> QED
      BY <3>1, <3>2
  <2> QED
    BY <2>1, <2>2, <2>3, <2>4
<1>6. 0 .. n \subseteq T
  <2> HIDE DEF T
  <2> QED
    BY <1>1, <1>4, <1>5, RangeInduction
<1>7. f[n] \in WalkState /\ (n # 0 /\ ok => WalkInv(events, mac, n, f[n]))
  <2>1. n \in 0 .. n
    BY <1>1
  <2> QED
    BY <1>3, <1>6, <2>1
<1>8. f[n].periods \in Seq(Period)
  BY <1>7 DEF WalkState
<1>9. ASSUME ok
      PROVE  ArePeriodsApart(f[n].periods)
  <2>1. CASE n = 0
    BY <1>3, <2>1 DEF ArePeriodsApart
  <2>2. CASE n # 0
    BY <1>7, <1>9, <2>2 DEF WalkInv, PeriodsUntil
  <2> QED
    BY <2>1, <2>2
<1> QED
  BY <1>2, <1>8, <1>9 DEF ok, n

(***************************************************************************)
(* build_timeline_from_schedule().                                         *)
(***************************************************************************)
Timelines(n) == [1 .. n -> Seq(Period)]

HasMacs(s) == DOMAIN s.macs = 1 .. Len(s.macs) /\ Len(s.macs) \in Nat

(* What decode.c makes of a payload that has no event twice.               *)
HasNoDuplicates(s) ==
    IsFinal(s.weekly) /\ IsStrict(s.weekly) /\ IsStrict(s.absolute)

LEMMA EventsAreTied ==
    ASSUME NEW s, HasEventLists(s), IsFinal(s.weekly), IsStrict(s.weekly),
           NEW zone, HasOneOffset(zone), NEW now \in Int,
           NEW events \in Seq(EventsOf(s, zone, now))
    PROVE  TiedAlike(events)
<1>1. ASSUME NEW e \in EventsOf(s, zone, now), ~e.absolute
      PROVE  e \in EventsOfWeeks(s, zone, now)
  BY <1>1, AbsoluteEventIs DEF EventsOf
<1>2. \A i \in DOMAIN events : events[i] \in EventsOf(s, zone, now)
  OBVIOUS
<1>3. SUFFICES ASSUME NEW i \in DOMAIN events, NEW j \in DOMAIN events,
                      ~events[i].absolute, ~events[j].absolute, events[i].time = events[j].time
               PROVE  events[i].block = events[j].block
  BY Zenon DEF TiedAlike
<1>4. events[i] \in EventsOfWeeks(s, zone, now) /\ events[j] \in EventsOfWeeks(s, zone, now)
  BY <1>1, <1>2, <1>3
<1> QED
  BY <1>3, <1>4, WeeklyTies

LEMMA BuildTimelineIs ==
    ASSUME NEW s, HasEventLists(s), HasMacs(s), NEW zone, HasOffsets(zone), NEW now \in Int
    PROVE  LET r == BuildTimelineFromSchedule(s, zone, now)
           IN  /\ r \in Timelines(Len(s.macs))
               /\ HasNoDuplicates(s) /\ HasOneOffset(zone) =>
                     \A mac \in 1 .. Len(s.macs) : ArePeriodsApart(r[mac])
<1> DEFINE events == TimelineEvents(s, zone, now)
           n == Len(s.macs)
           of(mac) == IF IsIndefinitelyBlocked(s, mac) THEN << >>
                      ELSE BuildPeriodsForMac(events, mac, now)
<1>1. events \in Seq(EventsOf(s, zone, now)) /\ (IsStrict(s.absolute) => IsInOrder(events, Order))
  BY TimelineEventsAre
<1>2. events \in Seq(TimelineEvent)
  BY <1>1, EventsAreTyped, SeqMonotonic
<1>3. BuildTimelineFromSchedule(s, zone, now) = [mac \in 1 .. n |-> of(mac)]
  BY DEF BuildTimelineFromSchedule, HasMacs
<1> HIDE DEF events, n
<1>4. \A mac : of(mac) \in Seq(Period)
  BY <1>2, BuildPeriodsAre
<1>5. ASSUME HasNoDuplicates(s), HasOneOffset(zone), NEW mac
      PROVE  ArePeriodsApart(of(mac))
  <2>1. TiedAlike(events)
    BY <1>1, <1>5, EventsAreTied DEF HasNoDuplicates
  <2>2. ArePeriodsApart(BuildPeriodsForMac(events, mac, now))
    BY <1>1, <1>2, <1>5, <2>1, BuildPeriodsAre DEF HasNoDuplicates
  <2>3. ArePeriodsApart(<< >>)
    BY DEF ArePeriodsApart
  <2> QED
    BY <2>2, <2>3
<1> HIDE DEF of
<1> QED
  BY <1>3, <1>4, <1>5 DEF Timelines, n

(***************************************************************************)
(* A new period has no notification behind it.                             *)
(***************************************************************************)
AreNew(periods) == \A i \in DOMAIN periods : periods[i].done = {}

LEMMA NextIsNew ==
    ASSUME NEW events, NEW mac, NEW now, NEW k, NEW st \in WalkState, AreNew(st.periods),
           NEW r, NextIs(events, mac, now, st, k, r)
    PROVE  AreNew(r.periods)
<1>1. CASE r.periods = st.periods
  BY <1>1
<1>2. CASE \E p \in Period : p.done = {} /\ r.periods = Append(st.periods, p)
  <2>1. PICK p \in Period : p.done = {} /\ r.periods = Append(st.periods, p)
    BY <1>2
  <2>2. st.periods \in Seq(Period)
    BY DEF WalkState
  <2> DEFINE l == st.periods
             n == Len(l)
  <2>3. /\ DOMAIN r.periods = 1 .. n + 1 /\ DOMAIN l = 1 .. n /\ n \in Nat
        /\ r.periods[n + 1] = p /\ \A i \in 1 .. n : r.periods[i] = l[i]
    BY <2>1, <2>2, AppendProperties
  <2> HIDE DEF l, n
  <2>4. \A i \in 1 .. n + 1 : i \in 1 .. n \/ i = n + 1
    BY <2>3
  <2> QED
    BY <2>1, <2>3, <2>4 DEF AreNew, l
<1> QED
  BY <1>1, <1>2, Zenon DEF NextIs, Stays, Starts, Ends

LEMMA NothingIsDoneYet ==
    ASSUME NEW s, HasEventLists(s), NEW zone, HasOffsets(zone), NEW now \in Int,
           NEW mac \in DOMAIN s.macs
    PROVE  AreNew(BuildTimelineFromSchedule(s, zone, now)[mac])
<1> DEFINE events == TimelineEvents(s, zone, now)
           n == Len(events)
           r == BuildTimelineFromSchedule(s, zone, now)[mac]
<1>1. events \in Seq(TimelineEvent)
  <2>1. events \in Seq(EventsOf(s, zone, now))
    BY TimelineEventsAre
  <2> QED
    BY <2>1, EventsAreTyped, SeqMonotonic
<1>2. r = << >> \/ r = BuildPeriodsForMac(events, mac, now)
  BY DEF BuildTimelineFromSchedule
<1> HIDE DEF r, events
<1>3. PICK f : /\ IsWalk(f, events, mac, now)
               /\ BuildPeriodsForMac(events, mac, now) = f[n].periods
  BY <1>1, BuildPeriodsWalks
<1>4. /\ n \in Nat /\ \A k \in 0 .. n : f[k] \in WalkState
      /\ f[0].periods = << >>
      /\ \A k \in 1 .. n : f[k] = NextEvent(events, mac, now, f[k - 1], k)
  BY <1>1, <1>3 DEF IsWalk, Unblocked
<1> DEFINE T == {k \in 0 .. n : AreNew(f[k].periods)}
<1> HIDE DEF n
<1>5. 0 \in T
  BY <1>4 DEF AreNew
<1>6. ASSUME NEW k \in 0 .. n - 1, k \in T
      PROVE  k + 1 \in T
  <2>1. k + 1 \in 1 .. n /\ k + 1 \in 0 .. n /\ (k + 1) - 1 = k /\ k \in 0 .. n
    BY <1>4
  <2>2. f[k + 1] = NextEvent(events, mac, now, f[k], k + 1) /\ f[k] \in WalkState
    BY <1>4, <2>1
  <2>3. NextIs(events, mac, now, f[k], k + 1, f[k + 1])
    BY <1>1, <2>1, <2>2, NextEventIs DEF n
  <2>4. AreNew(f[k + 1].periods)
    BY <1>6, <2>2, <2>3, NextIsNew
  <2> QED
    BY <2>1, <2>4
<1>7. 0 .. n \subseteq T
  <2> HIDE DEF T
  <2> QED
    BY <1>4, <1>5, <1>6, RangeInduction
<1>8. AreNew(f[n].periods)
  BY <1>4, <1>7
<1>9. AreNew(<< >>)
  BY DEF AreNew
<1> QED
  BY <1>2, <1>3, <1>8, <1>9 DEF r

-----------------------------------------------------------------------------
(***************************************************************************)
(* What has been dealt with is marked, and nothing else changes.           *)
(***************************************************************************)
SamePeriod(p, q) ==
    /\ p.start = q.start /\ p.end = q.end
    /\ p.start_is_absolute = q.start_is_absolute /\ p.end_is_absolute = q.end_is_absolute

LEMMA MarkDoneIs ==
    ASSUME NEW n \in Nat, NEW timeline \in Timelines(n), NEW now \in Int
    PROVE  LET r == MarkDone(timeline, now)
           IN  /\ r \in Timelines(n)
               /\ \A mac \in 1 .. n :
                     /\ Len(r[mac]) = Len(timeline[mac])
                     /\ \A k \in DOMAIN timeline[mac] :
                           /\ SamePeriod(r[mac][k], timeline[mac][k])
                           /\ timeline[mac][k].done \subseteq r[mac][k].done
                           /\ r[mac][k].done \subseteq
                                 timeline[mac][k].done \cup Pending(timeline[mac][k], now)
                           /\ \A x \in Pending(timeline[mac][k], now) :
                                 (\E b \in Batches(timeline, now) :
                                     Notification(mac, timeline[mac][k], x) \in ToSet(b))
                                        => x \in r[mac][k].done
<1> DEFINE batched == UNION {ToSet(b) : b \in Batches(timeline, now)}
           leftOver(mac, k) == NotificationsOf(timeline, mac, k, now) \ batched
           added(mac, k) == {x \in Pending(timeline[mac][k], now) :
                                Notification(mac, timeline[mac][k], x) \notin leftOver(mac, k)}
           marked(mac, k) == [timeline[mac][k] EXCEPT !.done = @ \cup added(mac, k)]
           r == MarkDone(timeline, now)
<1>1. DOMAIN timeline = 1 .. n /\ \A mac \in 1 .. n : timeline[mac] \in Seq(Period)
  BY DEF Timelines
<1>2. r = [mac \in 1 .. n |-> [k \in DOMAIN timeline[mac] |-> marked(mac, k)]]
  BY <1>1 DEF MarkDone
<1>3. \A mac, k : added(mac, k) \subseteq Kinds /\ added(mac, k) \subseteq Pending(timeline[mac][k], now)
  BY DEF Pending
<1>4. \A mac, k : \A x \in Pending(timeline[mac][k], now) :
         (\E b \in Batches(timeline, now) : Notification(mac, timeline[mac][k], x) \in ToSet(b))
            => x \in added(mac, k)
  OBVIOUS
<1> HIDE DEF r, added
<1>5. ASSUME NEW mac \in 1 .. n
      PROVE  /\ r[mac] \in Seq(Period) /\ Len(r[mac]) = Len(timeline[mac])
             /\ \A k \in DOMAIN timeline[mac] :
                   /\ SamePeriod(r[mac][k], timeline[mac][k])
                   /\ timeline[mac][k].done \subseteq r[mac][k].done
                   /\ added(mac, k) \subseteq r[mac][k].done
                   /\ r[mac][k].done \subseteq timeline[mac][k].done \cup added(mac, k)
  <2> DEFINE l == timeline[mac]
             m == Len(l)
  <2>1. l \in Seq(Period) /\ m \in Nat /\ DOMAIN l = 1 .. m
    BY <1>1
  <2>2. r[mac] = [k \in 1 .. m |-> marked(mac, k)]
    BY <1>2, <2>1
  <2>3. ASSUME NEW k \in 1 .. m
        PROVE  /\ marked(mac, k) \in Period
               /\ SamePeriod(marked(mac, k), l[k])
               /\ l[k].done \subseteq marked(mac, k).done
               /\ added(mac, k) \subseteq marked(mac, k).done
               /\ marked(mac, k).done \subseteq l[k].done \cup added(mac, k)
    <3>1. l[k] \in Period /\ added(mac, k) \subseteq Kinds
      BY <1>3, <2>1
    <3> QED
      BY <3>1 DEF Period, SamePeriod
  <2> HIDE DEF marked, l, m
  <2>4. r[mac] \in [1 .. m -> Period]
    BY <2>2, <2>3
  <2>5. r[mac] \in Seq(Period) /\ Len(r[mac]) = m
    BY <2>1, <2>4
  <2>6. \A k \in 1 .. m : r[mac][k] = marked(mac, k)
    BY <2>2
  <2> QED
    BY <2>1, <2>3, <2>5, <2>6 DEF l, m
<1>6. r \in Timelines(n)
  <2>1. r = [mac \in 1 .. n |-> r[mac]]
    BY <1>2
  <2> QED
    BY <1>5, <2>1 DEF Timelines
<1> QED
  BY <1>1, <1>3, <1>4, <1>5, <1>6 DEF r

(***************************************************************************)
(* get_next_notification_time(): no notification the thread waits for is   *)
(* before it, and it is not in the past.                                   *)
(***************************************************************************)
LEMMA NextNotificationTimeIs ==
    ASSUME NEW n \in Nat, NEW timeline \in Timelines(n), NEW now \in Int
    PROVE  LET r == GetNextNotificationTime(timeline, now)
           IN  /\ r \in Int /\ r <= INT_MAX
               /\ now <= INT_MAX => now <= r
               /\ \A mac \in 1 .. n : \A k \in DOMAIN timeline[mac] : \A kind \in Kinds :
                     Waits(timeline[mac][k], kind, now) => r <= DueTime(timeline[mac][k], kind)
<1> DEFINE waiting == {y \in Periods(timeline) \X Kinds : Waits(timeline[y[1][1]][y[1][2]], y[2], now)}
           due(x) == DueTime(timeline[x[1][1]][x[1][2]], x[2])
           times == {due(x) : x \in waiting}
           r == GetNextNotificationTime(timeline, now)
<1>1. r = Earliest(times)
  BY DEF GetNextNotificationTime
<1>2. DOMAIN timeline = 1 .. n /\ \A mac \in 1 .. n : timeline[mac] \in Seq(Period)
  BY DEF Timelines
<1>3. ASSUME NEW x \in waiting
      PROVE  due(x) \in Int /\ now <= due(x)
  <2> DEFINE mac == x[1][1]
             k == x[1][2]
             p == timeline[mac][k]
  <2>1. x[1] \in Periods(timeline) /\ x[2] \in Kinds /\ Waits(p, x[2], now)
    OBVIOUS
  <2>2. mac \in 1 .. n /\ k \in DOMAIN timeline[mac]
    BY <1>2, <2>1 DEF Periods
  <2> HIDE DEF mac, k
  <2>3. p.start \in Int /\ p.end \in Int
    BY <1>2, <2>2, PeriodIsTyped
  <2> HIDE DEF p
  <2>4. DueTime(p, x[2]) \in Int
    BY <2>1, <2>3, TimelineAssumption DEF DueTime, Kinds
  <2>5. now <= DueTime(p, x[2])
    BY <2>1, <2>4 DEF Waits
  <2> QED
    BY <2>4, <2>5 DEF p, mac, k
<1>4. ASSUME NEW mac \in 1 .. n, NEW k \in DOMAIN timeline[mac], NEW kind \in Kinds,
             Waits(timeline[mac][k], kind, now)
      PROVE  DueTime(timeline[mac][k], kind) \in times
  <2>1. <<mac, k>> \in Periods(timeline)
    BY <1>2, <1>4 DEF Periods
  <2>2. <<<<mac, k>>, kind>> \in waiting
    BY <1>4, <2>1
  <2> QED
    BY <2>2
<1> HIDE DEF waiting, due
<1>5. times \in SUBSET Int /\ \A v \in times : now <= v
  BY <1>3
<1> HIDE DEF times
<1>6. /\ r \in Int /\ r <= INT_MAX /\ \A v \in times : r <= v
      /\ r = INT_MAX \/ r \in times
  <2> HIDE DEF r
  <2>1. /\ Earliest(times) \in Int /\ Earliest(times) <= INT_MAX
        /\ \A v \in times : Earliest(times) <= v
        /\ Earliest(times) = INT_MAX \/ Earliest(times) \in times
    BY <1>5, EarliestIs
  <2> QED
    BY <1>1, <2>1
<1> QED
  BY <1>4, <1>5, <1>6

-----------------------------------------------------------------------------
(***************************************************************************)
(* A batch is not empty, holds what is to be announced of some period, and *)
(* is of one type and one time.                                            *)
(***************************************************************************)
Announcements(timeline, n, now) ==
    UNION {NotificationsOf(timeline, x[1], x[2], now) :
              x \in {y \in (1 .. n) \X Nat : y[2] \in DOMAIN timeline[y[1]]}}

BatchesIn(N, type) ==
    {b \in Seq(N) \ {<< >>} : \A i \in DOMAIN b : b[i].type = type /\ b[i].time = b[1].time}

BatchLists(N, type) == Seq(BatchesIn(N, type))

LEMMA AddToBatchIs ==
    ASSUME NEW N, NEW type, NEW batches \in BatchLists(N, type), NEW x \in N, x.type = type
    PROVE  AddToBatch(batches, x) \in BatchLists(N, type)
<1> DEFINE S == BatchesIn(N, type)
           n == Len(batches)
           last == batches[n]
           one == <<x>>
           more == Append(last, x)
<1>1. batches \in Seq(S) /\ n \in Nat
  BY DEF BatchLists
<1>2. one \in S
  BY DEF BatchesIn
<1>3. CASE batches = << >>
  <2>1. AddToBatch(batches, x) = <<one>>
    BY <1>3 DEF AddToBatch
  <2> HIDE DEF S, one
  <2> QED
    BY <1>2, <2>1 DEF BatchLists, S
<1>4. CASE batches # << >>
  <2>1. n \in 1 .. n /\ last \in S
    BY <1>1, <1>4
  <2>2. /\ last \in Seq(N) /\ last # << >>
        /\ \A i \in DOMAIN last : last[i].type = type /\ last[i].time = last[1].time
    BY <2>1 DEF BatchesIn
  <2>3. ASSUME last[1].time = x.time
        PROVE  more \in S
    <3>1. Len(last) \in Nat /\ Len(last) # 0 /\ DOMAIN last = 1 .. Len(last)
      BY <2>2
    <3>2. /\ more \in Seq(N) /\ Len(more) = Len(last) + 1
          /\ \A i \in 1 .. Len(last) : more[i] = last[i]
          /\ more[Len(last) + 1] = x
      BY <2>2, AppendProperties
    <3> HIDE DEF more, last
    <3>3. DOMAIN more = 1 .. Len(last) + 1 /\ more # << >> /\ more[1] = last[1]
      BY <3>1, <3>2
    <3>4. \A i \in DOMAIN more : more[i].type = type /\ more[i].time = more[1].time
      <4> SUFFICES ASSUME NEW i \in 1 .. Len(last) + 1
                   PROVE  more[i].type = type /\ more[i].time = last[1].time
        BY <3>3
      <4>1. i = Len(last) + 1 \/ i \in 1 .. Len(last)
        BY <3>1
      <4> QED
        BY <2>2, <2>3, <3>1, <3>2, <4>1
    <3> QED
      BY <3>2, <3>3, <3>4 DEF BatchesIn
  <2>4. \/ AddToBatch(batches, x) = Append(batches, one)
        \/ AddToBatch(batches, x) = [batches EXCEPT ![n] = more] /\ last[1].time = x.time
        \/ AddToBatch(batches, x) = batches
    BY <1>4 DEF AddToBatch
  <2> HIDE DEF S, one, more, last, n
  <2>5. Append(batches, one) \in Seq(S)
    BY <1>1, <1>2, AppendProperties
  <2>6. last[1].time = x.time => [batches EXCEPT ![n] = more] \in Seq(S)
    BY <1>1, <2>1, <2>3, ExceptSeq DEF n
  <2> QED
    BY <1>1, <2>4, <2>5, <2>6 DEF BatchLists, S
<1> QED
  BY <1>3, <1>4

(***************************************************************************)
(* The walk over the periods of a MAC, and the one over the MACs.          *)
(***************************************************************************)
IsMacWalk(f, batches, timeline, mac, type, now, N) ==
    /\ f[0] = batches
    /\ \A k \in 0 .. Len(timeline[mac]) : f[k] \in BatchLists(N, type)
    /\ \A k \in 1 .. Len(timeline[mac]) :
          f[k] = AddOfType(f[k - 1], NotificationsOf(timeline, mac, k, now), type)

IsBatchWalk(f, timeline, n, type, now, N) ==
    /\ f[0] = << >>
    /\ \A mac \in 0 .. n : f[mac] \in BatchLists(N, type)
    /\ \A mac \in 1 .. n : f[mac] = AddMac(f[mac - 1], timeline, mac, type, now)

WalksOverMac(batches, timeline, mac, type, now, N) ==
    \E f : /\ IsMacWalk(f, batches, timeline, mac, type, now, N)
           /\ AddMac(batches, timeline, mac, type, now) = f[Len(timeline[mac])]

WalksOverMacs(timeline, n, type, now, N) ==
    \E f : IsBatchWalk(f, timeline, n, type, now, N) /\ BatchesOf(timeline, type, now) = f[n]

LEMMA AddMacWalks ==
    ASSUME NEW n \in Nat, NEW timeline \in Timelines(n), NEW now,
           NEW mac \in 1 .. n, NEW type,
           NEW N, N = Announcements(timeline, n, now), NEW batches \in BatchLists(N, type)
    PROVE  WalksOverMac(batches, timeline, mac, type, now, N)
<1> DEFINE m == Len(timeline[mac])
           S == BatchLists(N, type)
           notifications(k) == NotificationsOf(timeline, mac, k, now)
           Walk(f) == [k \in 0 .. m |-> IF k = 0 THEN batches
                                        ELSE AddOfType(f[k - 1], notifications(k), type)]
           step == [p \in (1 .. m) \X S |-> AddOfType(p[2], notifications(p[1]), type)]
           f == CHOOSE g : g = Walk(g)
<1>1. m \in Nat /\ DOMAIN timeline[mac] = 1 .. m
  BY DEF Timelines
<1>2. \A k \in 1 .. m : notifications(k) \subseteq N
  <2> SUFFICES ASSUME NEW k \in 1 .. m
               PROVE  notifications(k) \subseteq N
    OBVIOUS
  <2>1. <<mac, k>> \in {y \in (1 .. n) \X Nat : y[2] \in DOMAIN timeline[y[1]]}
    BY <1>1
  <2> HIDE DEF m
  <2> QED
    BY <2>1 DEF Announcements
<1> HIDE DEF notifications
<1>3. \A k \in 1 .. m : \A b \in S : AddOfType(b, notifications(k), type) \in S
  <2> SUFFICES ASSUME NEW k \in 1 .. m, NEW b \in S
               PROVE  AddOfType(b, notifications(k), type) \in S
    OBVIOUS
  <2> DEFINE ofType == {x \in notifications(k) : x.type = type}
  <2>1. AddOfType(b, notifications(k), type) =
           IF ofType = {} THEN b ELSE AddToBatch(b, CHOOSE x \in ofType : TRUE)
    BY DEF AddOfType
  <2>2. ofType \subseteq N /\ \A x \in ofType : x.type = type
    BY <1>2
  <2> HIDE DEF ofType
  <2> DEFINE c == CHOOSE x \in ofType : TRUE
  <2>3. ofType # {} => c \in N /\ c.type = type
    BY <2>2
  <2> HIDE DEF c
  <2>4. CASE ofType = {}
    BY <2>1, <2>4
  <2>5. CASE ofType # {}
    <3>1. AddOfType(b, notifications(k), type) = AddToBatch(b, c)
      BY <2>1, <2>5 DEF c
    <3> QED
      BY <2>3, <2>5, <3>1, AddToBatchIs
  <2> QED
    BY <2>4, <2>5
<1>4. AddMac(batches, timeline, mac, type, now) = f[m]
  BY DEF AddMac, notifications
<1> HIDE DEF m, S
<1>5. batches \in S
  BY DEF S
<1>6. \E h : h = Walk(h)
  <2>1. step \in [(1 .. m) \X S -> S]
    BY <1>3
  <2> HIDE DEF step
  <2>2. PICK g : IsRun(g, m, S, batches, step)
    BY <1>1, <1>5, <2>1, RecursionExists
  <2>3. \A k \in 1 .. m : g[k - 1] \in S
    BY <1>1, <2>2 DEF IsRun
  <2>4. \A k \in 1 .. m : g[k] = AddOfType(g[k - 1], notifications(k), type)
    BY <2>2, <2>3 DEF IsRun, step
  <2>5. g = Walk(g)
    BY <1>1, <2>2, <2>4 DEF IsRun
  <2> QED
    BY <2>5
<1>7. f = Walk(f)
  BY <1>6
<1> HIDE DEF f
<1> DEFINE T == {k \in 0 .. m : f[k] \in S}
<1>8. 0 \in T
  BY <1>1, <1>5, <1>7
<1>9. ASSUME NEW k \in 0 .. m - 1, k \in T
      PROVE  k + 1 \in T
  <2>1. k + 1 \in 1 .. m /\ k + 1 \in 0 .. m /\ k + 1 # 0 /\ (k + 1) - 1 = k
    BY <1>1
  <2>2. f[k + 1] = AddOfType(f[k], notifications(k + 1), type)
    BY <1>7, <2>1
  <2> QED
    BY <1>3, <1>9, <2>1, <2>2
<1>10. 0 .. m \subseteq T
  <2> HIDE DEF T
  <2> QED
    BY <1>1, <1>8, <1>9, RangeInduction
<1>11. /\ f[0] = batches /\ \A k \in 0 .. m : f[k] \in S
       /\ \A k \in 1 .. m : f[k] = AddOfType(f[k - 1], notifications(k), type)
  BY <1>1, <1>7, <1>10
<1> QED
  BY <1>4, <1>11, Zenon DEF IsMacWalk, WalksOverMac, S, m, notifications

LEMMA AddMacIs ==
    ASSUME NEW n \in Nat, NEW timeline \in Timelines(n), NEW now,
           NEW mac \in 1 .. n, NEW type,
           NEW N, N = Announcements(timeline, n, now), NEW batches \in BatchLists(N, type)
    PROVE  AddMac(batches, timeline, mac, type, now) \in BatchLists(N, type)
<1>1. WalksOverMac(batches, timeline, mac, type, now, N)
  BY AddMacWalks
<1>2. PICK f : /\ IsMacWalk(f, batches, timeline, mac, type, now, N)
               /\ AddMac(batches, timeline, mac, type, now) = f[Len(timeline[mac])]
  BY <1>1, Zenon DEF WalksOverMac
<1>3. Len(timeline[mac]) \in 0 .. Len(timeline[mac])
  BY DEF Timelines
<1> QED
  BY <1>2, <1>3 DEF IsMacWalk

LEMMA BatchesOfWalks ==
    ASSUME NEW n \in Nat, NEW timeline \in Timelines(n), NEW type, NEW now,
           NEW N, N = Announcements(timeline, n, now)
    PROVE  WalksOverMacs(timeline, n, type, now, N)
<1> DEFINE S == BatchLists(N, type)
           Walk(f) == [mac \in 0 .. n |-> IF mac = 0 THEN << >>
                                          ELSE AddMac(f[mac - 1], timeline, mac, type, now)]
           step == [p \in (1 .. n) \X S |-> AddMac(p[2], timeline, p[1], type, now)]
           f == CHOOSE g : g = Walk(g)
<1>1. Len(timeline) = n
  BY DEF Timelines
<1>2. BatchesOf(timeline, type, now) = f[n]
  BY <1>1 DEF BatchesOf
<1>3. \A mac \in 1 .. n : \A b \in S : AddMac(b, timeline, mac, type, now) \in S
  BY AddMacIs
<1>4. << >> \in S
  BY DEF BatchLists
<1> HIDE DEF S
<1>5. \E h : h = Walk(h)
  <2>1. step \in [(1 .. n) \X S -> S]
    BY <1>3
  <2> HIDE DEF step
  <2>2. PICK g : IsRun(g, n, S, << >>, step)
    BY <1>4, <2>1, RecursionExists
  <2>3. \A mac \in 1 .. n : g[mac - 1] \in S
    BY <2>2 DEF IsRun
  <2>4. \A mac \in 1 .. n : g[mac] = AddMac(g[mac - 1], timeline, mac, type, now)
    BY <2>2, <2>3 DEF IsRun, step
  <2>5. g = Walk(g)
    BY <2>2, <2>4 DEF IsRun
  <2> QED
    BY <2>5
<1>6. f = Walk(f)
  BY <1>5
<1> HIDE DEF f
<1> DEFINE T == {mac \in 0 .. n : f[mac] \in S}
<1>7. 0 \in T
  BY <1>4, <1>6
<1>8. ASSUME NEW mac \in 0 .. n - 1, mac \in T
      PROVE  mac + 1 \in T
  <2>1. mac + 1 \in 1 .. n /\ mac + 1 \in 0 .. n /\ mac + 1 # 0 /\ (mac + 1) - 1 = mac
    OBVIOUS
  <2>2. f[mac + 1] = AddMac(f[mac], timeline, mac + 1, type, now)
    BY <1>6, <2>1
  <2> QED
    BY <1>3, <1>8, <2>1, <2>2
<1>9. 0 .. n \subseteq T
  <2> HIDE DEF T
  <2> QED
    BY <1>7, <1>8, RangeInduction
<1>10. /\ f[0] = << >> /\ \A mac \in 0 .. n : f[mac] \in S
       /\ \A mac \in 1 .. n : f[mac] = AddMac(f[mac - 1], timeline, mac, type, now)
  BY <1>6, <1>9
<1> QED
  BY <1>2, <1>10, Zenon DEF IsBatchWalk, WalksOverMacs, S

LEMMA BatchesOfIs ==
    ASSUME NEW n \in Nat, NEW timeline \in Timelines(n), NEW type, NEW now,
           NEW N, N = Announcements(timeline, n, now)
    PROVE  BatchesOf(timeline, type, now) \in BatchLists(N, type)
<1>1. WalksOverMacs(timeline, n, type, now, N)
  BY BatchesOfWalks
<1>2. PICK f : IsBatchWalk(f, timeline, n, type, now, N) /\ BatchesOf(timeline, type, now) = f[n]
  BY <1>1, Zenon DEF WalksOverMacs
<1> QED
  BY <1>2 DEF IsBatchWalk

LEMMA BatchIs ==
    ASSUME NEW n \in Nat, NEW timeline \in Timelines(n), NEW now,
           NEW b \in Batches(timeline, now)
    PROVE  /\ b # << >> /\ ToSet(b) # {}
           /\ \A x \in ToSet(b) : x.type = b[1].type /\ x.time = b[1].time
           /\ \A x \in ToSet(b) : \E mac \in 1 .. n : \E k \in DOMAIN timeline[mac] :
                 x \in NotificationsOf(timeline, mac, k, now)
<1> DEFINE N == Announcements(timeline, n, now)
<1>1. PICK type \in Types : b \in ToSet(BatchesOf(timeline, type, now))
  BY DEF Batches
<1>2. BatchesOf(timeline, type, now) \in BatchLists(N, type)
  BY BatchesOfIs
<1>3. b \in BatchesIn(N, type)
  BY <1>1, <1>2 DEF BatchLists, ToSet
<1>6. /\ b \in Seq(N) \ {<< >>}
      /\ \A i \in DOMAIN b : b[i].type = type /\ b[i].time = b[1].time
  BY <1>3 DEF BatchesIn
<1>4. \A x \in N : \E mac \in 1 .. n : \E k \in DOMAIN timeline[mac] :
         x \in NotificationsOf(timeline, mac, k, now)
  BY DEF Announcements
<1> HIDE DEF N
<1>5. 1 \in DOMAIN b /\ \A x \in ToSet(b) : x \in N
  BY <1>6 DEF ToSet
<1> QED
  BY <1>4, <1>5, <1>6 DEF ToSet

(***************************************************************************)
(* The type and the time of a notification tell the kind and the period.   *)
(***************************************************************************)
LEMMA PeriodsIncrease ==
    ASSUME NEW periods \in Seq(Period), ArePeriodsApart(periods),
           NEW i \in DOMAIN periods, NEW j \in DOMAIN periods, i < j
    PROVE  periods[i].end < periods[j].start
<1> DEFINE n == Len(periods)
           m == n - i - 1
           T == {d \in 0 .. m : periods[i].end < periods[i + 1 + d].start}
<1>1. n \in Nat /\ DOMAIN periods = 1 .. n /\ i \in 1 .. n /\ j \in 1 .. n /\ m \in Nat
  OBVIOUS
<1>2. \A k \in 1 .. n : periods[k].start \in Int /\ periods[k].end \in Int
                        /\ periods[k].start < periods[k].end
  BY <1>1, PeriodIsTyped DEF ArePeriodsApart
<1>3. \A k \in 1 .. n - 1 : periods[k].end < periods[k + 1].start
  <2> SUFFICES ASSUME NEW k \in 1 .. n - 1
               PROVE  periods[k].end < periods[k + 1].start
    OBVIOUS
  <2>1. k + 1 \in 2 .. Len(periods) /\ (k + 1) - 1 = k
    BY <1>1
  <2> QED
    BY <2>1 DEF ArePeriodsApart
<1>4. 0 \in T
  <2>1. i \in 1 .. n - 1 /\ i + 1 + 0 = i + 1 /\ 0 \in 0 .. m
    BY <1>1
  <2> QED
    BY <1>3, <2>1
<1>5. ASSUME NEW d \in 0 .. m - 1, d \in T
      PROVE  d + 1 \in T
  <2> DEFINE k == i + 1 + d
  <2>1. k \in 1 .. n - 1 /\ k \in 1 .. n /\ k + 1 \in 1 .. n /\ d + 1 \in 0 .. m
        /\ i + 1 + (d + 1) = k + 1
    BY <1>1
  <2>2. periods[i].end < periods[k].start
    BY <1>5
  <2>3. periods[k].end < periods[k + 1].start
    BY <1>3, <2>1
  <2> HIDE DEF k
  <2>4. periods[i].end < periods[k + 1].start
    <3>1. /\ periods[i].end \in Int /\ periods[k].start \in Int /\ periods[k].end \in Int
          /\ periods[k + 1].start \in Int /\ periods[k].start < periods[k].end
      BY <1>1, <1>2, <2>1
    <3>2. \A v, w, x, y \in Int : v < w /\ w < x /\ x < y => v < y
      OBVIOUS
    <3> QED
      BY <2>2, <2>3, <3>1, <3>2
  <2> QED
    BY <2>1, <2>4
<1>6. j - i - 1 \in 0 .. m /\ i + 1 + (j - i - 1) = j
  BY <1>1
<1> HIDE DEF m
<1>7. 0 .. m \subseteq T
  <2> HIDE DEF T
  <2> QED
    BY <1>1, <1>4, <1>5, RangeInduction
<1> QED
  BY <1>6, <1>7

LEMMA NotificationTells ==
    ASSUME NEW periods \in Seq(Period), ArePeriodsApart(periods),
           NEW i \in DOMAIN periods, NEW j \in DOMAIN periods,
           NEW mac, NEW x \in Kinds, NEW y \in Kinds,
           Notification(mac, periods[i], x) = Notification(mac, periods[j], y)
    PROVE  i = j /\ x = y
<1>1. x = y
  BY DEF Notification, Kinds
<1>2. periods[i].start = periods[j].start \/ periods[i].end = periods[j].end
  BY <1>1 DEF Notification
<1>3. i \in Int /\ j \in Int
  OBVIOUS
<1>4. /\ periods[i].start \in Int /\ periods[i].end \in Int
      /\ periods[j].start \in Int /\ periods[j].end \in Int
      /\ periods[i].start < periods[i].end /\ periods[j].start < periods[j].end
  BY PeriodIsTyped DEF ArePeriodsApart
<1>5. ~(i < j)
  BY <1>2, <1>4, PeriodsIncrease
<1>6. ~(j < i)
  BY <1>2, <1>4, PeriodsIncrease
<1> QED
  BY <1>1, <1>3, <1>5, <1>6

(***************************************************************************)
(* Where the periods of a MAC are apart, a batch has at most one entry for *)
(* a MAC, as two of one type and MAC differ in time.  So a batch is never  *)
(* full before the last MAC, and takes all there is to announce.           *)
(***************************************************************************)
Members(batches) == UNION {ToSet(batches[j]) : j \in DOMAIN batches}

(* The MACs come in order: the k-th entry is of the k-th MAC or later.     *)
IsSpread(batches) ==
    \A j \in DOMAIN batches : \A i \in DOMAIN batches[j] : i <= batches[j][i].mac

LEMMA BatchTakes ==
    ASSUME NEW N, NEW type, NEW batches \in BatchLists(N, type), NEW x \in N, x.type = type,
           x.mac \in 1 .. BatchSize, IsSpread(batches),
           \A y \in Members(batches) :
              y.mac \in Int /\ y.mac <= x.mac /\ (y.mac = x.mac => y.time # x.time)
    PROVE  /\ Members(AddToBatch(batches, x)) = Members(batches) \cup {x}
           /\ IsSpread(AddToBatch(batches, x))
<1> DEFINE n == Len(batches)
           last == batches[n]
           L == Len(last)
           one == <<x>>
           more == Append(last, x)
           r == AddToBatch(batches, x)
<1>0. \A list, y : y \in Members(list) <=> \E j \in DOMAIN list : y \in ToSet(list[j])
  BY Zenon DEF Members
<1>1. /\ batches \in Seq(BatchesIn(N, type)) /\ n \in Nat /\ DOMAIN batches = 1 .. n
      /\ 1 <= x.mac /\ x.mac <= BatchSize /\ x.mac \in Int /\ BatchSize \in Int
  BY TimelineAssumption DEF BatchLists
<1>2. DOMAIN one = 1 .. 1 /\ one[1] = x /\ ToSet(one) = {x}
  BY DEF ToSet
<1>3. CASE batches = << >>
  <2>1. r = <<one>>
    BY <1>3 DEF AddToBatch
  <2> HIDE DEF r, one
  <2>2. DOMAIN r = 1 .. 1 /\ r[1] = one
    BY <2>1
  <2>3. Members(r) = {x} /\ Members(batches) = {}
    BY <1>2, <1>3, <2>2 DEF Members
  <2>4. IsSpread(r)
    BY <1>1, <1>2, <2>2 DEF IsSpread
  <2> QED
    BY <2>3, <2>4 DEF r
<1>4. CASE batches # << >>
  <2>1. n \in 1 .. n /\ last \in BatchesIn(N, type)
    BY <1>1, <1>4
  <2>2. /\ last \in Seq(N) /\ last # << >> /\ L \in Nat /\ L # 0 /\ DOMAIN last = 1 .. L
        /\ \A i \in DOMAIN last : last[i].time = last[1].time
    BY <2>1 DEF BatchesIn
  <2>3. CASE last[1].time # x.time
    <3>1. r = Append(batches, one)
      BY <1>4, <2>3 DEF AddToBatch
    <3> HIDE DEF r, one, last
    <3>2. /\ DOMAIN r = 1 .. n + 1 /\ \A j \in 1 .. n : r[j] = batches[j]
          /\ r[n + 1] = one
      BY <1>1, <3>1, AppendProperties
    <3>3. \A j \in 1 .. n + 1 : j \in 1 .. n \/ j = n + 1
      BY <1>1
    <3>4. \A j \in 1 .. n : j \in 1 .. n + 1
      BY <1>1
    <3>5. n + 1 \in 1 .. n + 1
      BY <1>1
    <3> HIDE DEF n
    <3>6. Members(r) = Members(batches) \cup {x}
      <4>1. ASSUME NEW y
            PROVE  (\E j \in 1 .. n + 1 : y \in ToSet(r[j]))
                      <=> (\E j \in 1 .. n : y \in ToSet(batches[j])) \/ y = x
        BY <1>2, <3>2, <3>3, <3>4, <3>5
      <4> QED
        BY <1>0, <1>1, <3>2, <4>1
    <3>7. IsSpread(r)
      BY <1>1, <1>2, <3>2, <3>3 DEF IsSpread
    <3> QED
      BY <3>6, <3>7 DEF r
  <2>4. CASE last[1].time = x.time
    <3>1. L \in 1 .. L /\ last[L] \in Members(batches)
      <4>1. L \in 1 .. L
        BY <2>2
      <4> HIDE DEF L, n
      <4> QED
        BY <1>1, <2>1, <2>2, <4>1 DEF Members, ToSet
    <3>2. L <= last[L].mac
      <4> HIDE DEF L
      <4> QED
        BY <1>1, <2>1, <2>2, <3>1 DEF IsSpread
    <3>3. last[L].mac \in Int /\ last[L].mac <= x.mac /\ last[L].mac # x.mac
      <4>1. last[L].time = x.time
        BY <2>2, <2>4, <3>1
      <4> QED
        BY <3>1, <4>1
    <3> HIDE DEF last
    <3>4. L < x.mac
      <4>1. \A i, j, k \in Int : i <= j /\ j <= k /\ j # k => i < k
        OBVIOUS
      <4>2. L \in Int
        BY <2>2
      <4> QED
        BY <1>1, <3>2, <3>3, <4>1, <4>2
    <3>5. L < BatchSize
      <4> HIDE DEF L
      <4> QED
        BY <1>1, <2>2, <3>4
    <3>6. r = [batches EXCEPT ![n] = more]
      BY <1>4, <2>4, <3>5 DEF AddToBatch, last
    <3>7. /\ DOMAIN more = 1 .. L + 1 /\ more[L + 1] = x
          /\ \A i \in 1 .. L : more[i] = last[i]
      BY <2>2, AppendProperties
    <3>8. DOMAIN r = 1 .. n /\ \A j \in 1 .. n : r[j] = IF j = n THEN more ELSE batches[j]
      BY <1>1, <3>6
    <3>9. L + 1 \in 1 .. L + 1 /\ \A i \in 1 .. L : i \in 1 .. L + 1
      BY <2>2
    <3>10. \A i \in 1 .. L + 1 : i \in 1 .. L \/ i = L + 1
      BY <2>2
    <3>11. L + 1 <= x.mac
      <4> HIDE DEF L
      <4> QED
        BY <1>1, <2>2, <3>4
    <3> HIDE DEF r, more, L
    <3>12. ToSet(more) = ToSet(last) \cup {x}
      BY <2>2, <3>7, <3>9, <3>10 DEF ToSet
    <3> HIDE DEF n
    <3>13. Members(r) = Members(batches) \cup {x}
      <4>1. ASSUME NEW y
            PROVE  (\E j \in 1 .. n : y \in ToSet(r[j]))
                      <=> (\E j \in 1 .. n : y \in ToSet(batches[j])) \/ y = x
        <5>1. last = batches[n]
          BY DEF last
        <5> QED
          BY <2>1, <3>8, <3>12, <5>1
      <4> QED
        BY <1>0, <1>1, <3>8, <4>1
    <3>14. IsSpread(r)
      <4>1. \A i \in 1 .. L + 1 : i <= more[i].mac
        BY <1>1, <2>1, <2>2, <3>7, <3>10, <3>11 DEF IsSpread, last
      <4> QED
        BY <1>1, <3>7, <3>8, <4>1 DEF IsSpread
    <3> QED
      BY <3>13, <3>14 DEF r
  <2> QED
    BY <2>3, <2>4
<1> QED
  BY <1>3, <1>4

AnnouncedOf(timeline, mac, k, type, now) ==
    {x \in NotificationsOf(timeline, mac, k, now) : x.type = type}

(* Something of that type to be announced of the first k periods.          *)
IsOfMac(x, timeline, mac, k, type, now) ==
    \E i \in 1 .. k : x \in AnnouncedOf(timeline, mac, i, type, now)

LEMMA AnnouncedIs ==
    ASSUME NEW timeline, NEW mac, NEW k, NEW type, NEW now,
           NEW x \in AnnouncedOf(timeline, mac, k, type, now)
    PROVE  \E kind \in Kinds : /\ kind \in Pending(timeline[mac][k], now)
                               /\ x = Notification(mac, timeline[mac][k], kind)
                               /\ x.mac = mac /\ x.type = type
<1>1. PICK kind \in Pending(timeline[mac][k], now) : x = Notification(mac, timeline[mac][k], kind)
  BY Zenon DEF AnnouncedOf, NotificationsOf
<1>2. kind \in Kinds
  BY DEF Pending
<1>3. x.mac = mac
  BY <1>1 DEF Notification
<1>4. x.type = type
  BY DEF AnnouncedOf
<1> QED
  BY <1>1, <1>2, <1>3, <1>4

LEMMA OneOfEachType ==
    ASSUME NEW timeline, NEW mac, NEW k, NEW type, NEW now,
           NEW x \in AnnouncedOf(timeline, mac, k, type, now),
           NEW y \in AnnouncedOf(timeline, mac, k, type, now)
    PROVE  x = y
<1> DEFINE p == timeline[mac][k]
<1>1. PICK i \in Kinds : x = Notification(mac, p, i) /\ x.type = type
  BY AnnouncedIs
<1>2. PICK j \in Kinds : y = Notification(mac, p, j) /\ y.type = type
  BY AnnouncedIs
<1> HIDE DEF p
<1>3. i = j
  BY <1>1, <1>2 DEF Notification, Kinds
<1> QED
  BY <1>1, <1>2, <1>3

LEMMA TimesDiffer ==
    ASSUME NEW timeline, NEW mac, timeline[mac] \in Seq(Period), ArePeriodsApart(timeline[mac]),
           NEW i \in DOMAIN timeline[mac], NEW k \in DOMAIN timeline[mac], i # k,
           NEW type, NEW now,
           NEW x \in AnnouncedOf(timeline, mac, i, type, now),
           NEW y \in AnnouncedOf(timeline, mac, k, type, now)
    PROVE  x.time # y.time
<1>1. PICK a \in Kinds : x = Notification(mac, timeline[mac][i], a) /\ x.mac = mac /\ x.type = type
  BY AnnouncedIs
<1>2. PICK b \in Kinds : y = Notification(mac, timeline[mac][k], b) /\ y.mac = mac /\ y.type = type
  BY AnnouncedIs
<1>3. x.time = y.time => x = y
  BY <1>1, <1>2 DEF Notification
<1> QED
  BY <1>1, <1>2, <1>3, NotificationTells

LEMMA TypeTakes ==
    ASSUME NEW n \in Nat, n <= BatchSize, NEW timeline \in Timelines(n), NEW now,
           NEW mac \in 1 .. n, ArePeriodsApart(timeline[mac]), NEW k \in DOMAIN timeline[mac],
           NEW type, NEW N, N = Announcements(timeline, n, now),
           NEW batches \in BatchLists(N, type), IsSpread(batches),
           \A y \in Members(batches) :
              y.mac \in Int /\ (y.mac < mac \/ IsOfMac(y, timeline, mac, k - 1, type, now))
    PROVE  LET r == AddOfType(batches, NotificationsOf(timeline, mac, k, now), type)
           IN  /\ IsSpread(r)
               /\ \A y : y \in Members(r) <=>
                            y \in Members(batches) \/ y \in AnnouncedOf(timeline, mac, k, type, now)
<1> DEFINE ofType == AnnouncedOf(timeline, mac, k, type, now)
           c == CHOOSE x \in ofType : TRUE
           r == AddOfType(batches, NotificationsOf(timeline, mac, k, now), type)
<1>1. r = IF ofType = {} THEN batches ELSE AddToBatch(batches, c)
  BY DEF AddOfType, AnnouncedOf
<1> HIDE DEF r, c
<1>2. CASE ofType = {}
  BY <1>1, <1>2 DEF r
<1>3. CASE ofType # {}
  <2>1. c \in ofType
    BY <1>3 DEF c
  <2>2. \A x \in ofType : x = c
    BY <2>1, OneOfEachType
  <2>3. c.mac = mac /\ c.type = type
    BY <2>1, AnnouncedIs
  <2>4. c \in N
    <3>1. <<mac, k>> \in {y \in (1 .. n) \X Nat : y[2] \in DOMAIN timeline[y[1]]}
      BY DEF Timelines
    <3>2. c \in NotificationsOf(timeline, mac, k, now)
      BY <2>1 DEF AnnouncedOf
    <3> QED
      BY <3>1, <3>2 DEF Announcements
  <2>5. timeline[mac] \in Seq(Period)
    BY DEF Timelines
  <2>6. mac \in Int /\ k \in Int /\ mac \in 1 .. BatchSize
    BY <2>5, TimelineAssumption
  <2>7. ASSUME NEW y \in Members(batches)
        PROVE  y.mac \in Int /\ y.mac <= c.mac /\ (y.mac = c.mac => y.time # c.time)
    <3>1. CASE y.mac < mac
      BY <2>3, <2>6, <3>1
    <3>2. CASE IsOfMac(y, timeline, mac, k - 1, type, now)
      <4>1. PICK i \in 1 .. k - 1 : y \in AnnouncedOf(timeline, mac, i, type, now)
        BY <3>2 DEF IsOfMac
      <4>2. i \in DOMAIN timeline[mac] /\ i # k
        BY <2>5
      <4>3. y.mac = mac
        BY <4>1, AnnouncedIs
      <4>4. y.time # c.time
        BY <2>1, <2>5, <4>1, <4>2, TimesDiffer
      <4> QED
        BY <2>3, <2>6, <4>3, <4>4
    <3> QED
      BY <3>1, <3>2
  <2> HIDE DEF ofType
  <2>8. /\ Members(AddToBatch(batches, c)) = Members(batches) \cup {c}
        /\ IsSpread(AddToBatch(batches, c))
    BY <2>3, <2>4, <2>6, <2>7, BatchTakes
  <2>9. r = AddToBatch(batches, c)
    BY <1>1, <1>3
  <2> QED
    BY <2>1, <2>2, <2>8, <2>9 DEF r, ofType
<1> QED
  BY <1>2, <1>3

LEMMA MacTakes ==
    ASSUME NEW n \in Nat, n <= BatchSize, NEW timeline \in Timelines(n), NEW now,
           NEW mac \in 1 .. n, ArePeriodsApart(timeline[mac]),
           NEW type, NEW N, N = Announcements(timeline, n, now),
           NEW batches \in BatchLists(N, type), IsSpread(batches),
           \A y \in Members(batches) : y.mac \in Int /\ y.mac < mac
    PROVE  LET r == AddMac(batches, timeline, mac, type, now)
           IN  /\ IsSpread(r)
               /\ \A y : y \in Members(r) <=>
                            \/ y \in Members(batches)
                            \/ IsOfMac(y, timeline, mac, Len(timeline[mac]), type, now)
<1> DEFINE m == Len(timeline[mac])
           holds(b, k) == /\ IsSpread(b)
                          /\ \A y : y \in Members(b) <=>
                                       \/ y \in Members(batches)
                                       \/ IsOfMac(y, timeline, mac, k, type, now)
<1>1. m \in Nat /\ DOMAIN timeline[mac] = 1 .. m
  BY DEF Timelines
<1>2. WalksOverMac(batches, timeline, mac, type, now, N)
  BY AddMacWalks
<1>3. PICK f : /\ IsMacWalk(f, batches, timeline, mac, type, now, N)
               /\ AddMac(batches, timeline, mac, type, now) = f[m]
  BY <1>2, Zenon DEF WalksOverMac
<1>4. /\ f[0] = batches /\ \A k \in 0 .. m : f[k] \in BatchLists(N, type)
      /\ \A k \in 1 .. m :
            f[k] = AddOfType(f[k - 1], NotificationsOf(timeline, mac, k, now), type)
  BY <1>3, Zenon DEF IsMacWalk
<1> HIDE DEF m
<1>5. holds(f[0], 0)
  <2>1. \A y : ~IsOfMac(y, timeline, mac, 0, type, now)
    BY DEF IsOfMac
  <2> QED
    BY <1>4, <2>1
<1>6. ASSUME NEW k \in 0 .. m - 1, holds(f[k], k)
      PROVE  holds(f[k + 1], k + 1)
  <2>1. k \in 0 .. m /\ k + 1 \in 1 .. m /\ (k + 1) - 1 = k /\ k \in Int
    BY <1>1
  <2> DEFINE j == k + 1
  <2>2. f[k] \in BatchLists(N, type) /\ j \in 1 .. m /\ j - 1 = k
        /\ f[j] = AddOfType(f[k], NotificationsOf(timeline, mac, j, now), type)
    BY <1>4, <2>1
  <2>3. \A y : IsOfMac(y, timeline, mac, j, type, now) <=>
                  \/ IsOfMac(y, timeline, mac, k, type, now)
                  \/ y \in AnnouncedOf(timeline, mac, j, type, now)
    <3>1. \A i : i \in 1 .. j <=> i \in 1 .. k \/ i = j
      BY <2>1
    <3> QED
      BY <3>1 DEF IsOfMac
  <2> HIDE DEF j
  <2>4. \A y \in Members(f[k]) :
           y.mac \in Int /\ (y.mac < mac \/ IsOfMac(y, timeline, mac, j - 1, type, now))
    <3> SUFFICES ASSUME NEW y \in Members(f[k])
                 PROVE  y.mac \in Int /\ (y.mac < mac \/ IsOfMac(y, timeline, mac, k, type, now))
      BY <2>2
    <3>1. CASE y \in Members(batches)
      BY <3>1
    <3>2. CASE IsOfMac(y, timeline, mac, k, type, now)
      <4>1. PICK i \in 1 .. k : y \in AnnouncedOf(timeline, mac, i, type, now)
        BY <3>2 DEF IsOfMac
      <4>2. y.mac = mac
        BY <4>1, AnnouncedIs
      <4> QED
        BY <3>2, <4>2
    <3> QED
      BY <1>6, <3>1, <3>2
  <2> DEFINE r == AddOfType(f[k], NotificationsOf(timeline, mac, j, now), type)
  <2>5. /\ IsSpread(r)
        /\ \A y : y \in Members(r) <=>
                     y \in Members(f[k]) \/ y \in AnnouncedOf(timeline, mac, j, type, now)
    BY <1>1, <1>6, <2>2, <2>4, TypeTakes
  <2>6. f[j] = r
    BY <2>2
  <2> HIDE DEF r
  <2>7. holds(f[j], j)
    BY <1>6, <2>3, <2>5, <2>6, Zenon
  <2> QED
    BY <2>7 DEF j
<1> HIDE DEF holds
<1> DEFINE T == {k \in 0 .. m : holds(f[k], k)}
<1>7. 0 \in T
  BY <1>1, <1>5
<1>8. ASSUME NEW k \in 0 .. m - 1, k \in T
      PROVE  k + 1 \in T
  <2>1. k + 1 \in 0 .. m
    BY <1>1
  <2> QED
    BY <1>6, <1>8, <2>1
<1>9. 0 .. m \subseteq T
  <2> HIDE DEF T
  <2> QED
    BY <1>1, <1>7, <1>8, RangeInduction
<1>10. holds(f[m], m)
  BY <1>1, <1>9
<1> QED
  BY <1>3, <1>10 DEF holds, m

LEMMA AllAreBatched ==
    ASSUME NEW n \in Nat, n <= BatchSize, NEW timeline \in Timelines(n), NEW now,
           \A mac \in 1 .. n : ArePeriodsApart(timeline[mac]),
           NEW mac \in 1 .. n, NEW k \in DOMAIN timeline[mac],
           NEW x \in NotificationsOf(timeline, mac, k, now)
    PROVE  \E b \in Batches(timeline, now) : x \in ToSet(b) /\ Len(b) <= n
<1> DEFINE type == x.type
           N == Announcements(timeline, n, now)
           isOf(y, m) == \E i \in 1 .. m :
                            IsOfMac(y, timeline, i, Len(timeline[i]), type, now)
           holds(b, m) == IsSpread(b) /\ \A y : y \in Members(b) <=> isOf(y, m)
<1>1. WalksOverMacs(timeline, n, type, now, N)
  BY BatchesOfWalks
<1>2. PICK f : IsBatchWalk(f, timeline, n, type, now, N) /\ BatchesOf(timeline, type, now) = f[n]
  BY <1>1, Zenon DEF WalksOverMacs
<1>3. /\ f[0] = << >> /\ \A m \in 0 .. n : f[m] \in BatchLists(N, type)
      /\ \A m \in 1 .. n : f[m] = AddMac(f[m - 1], timeline, m, type, now)
  BY <1>2, Zenon DEF IsBatchWalk
<1>4. \A m \in 0 .. n : \A y : isOf(y, m) => y.mac \in 1 .. m
  <2> SUFFICES ASSUME NEW m \in 0 .. n, NEW y, NEW i \in 1 .. m,
                      IsOfMac(y, timeline, i, Len(timeline[i]), type, now)
               PROVE  y.mac \in 1 .. m
    OBVIOUS
  <2>1. PICK k1 \in 1 .. Len(timeline[i]) : y \in AnnouncedOf(timeline, i, k1, type, now)
    BY DEF IsOfMac
  <2>2. y.mac = i
    BY <2>1, AnnouncedIs
  <2> QED
    BY <2>2
<1> HIDE DEF type, N
<1>5. holds(f[0], 0)
  <2>1. IsSpread(<< >>) /\ \A y : y \notin Members(<< >>)
    BY DEF IsSpread, Members
  <2> QED
    BY <1>3, <2>1
<1>6. ASSUME NEW m \in 0 .. n - 1, holds(f[m], m)
      PROVE  holds(f[m + 1], m + 1)
  <2> DEFINE j == m + 1
             r == AddMac(f[m], timeline, j, type, now)
  <2>1. m \in 0 .. n /\ j \in 1 .. n /\ j - 1 = m /\ m \in Int
    OBVIOUS
  <2>2. f[m] \in BatchLists(N, type) /\ f[j] = r
    BY <1>3, <2>1
  <2>3. \A i : i \in 1 .. j <=> i \in 1 .. m \/ i = j
    BY <2>1
  <2>4. \A y \in Members(f[m]) : y.mac \in Int /\ y.mac < j
    <3>1. \A y \in Members(f[m]) : y.mac \in 1 .. m
      BY <1>4, <1>6, <2>1, Zenon
    <3>2. \A i \in 1 .. m : i \in Int /\ i < j
      BY <2>1
    <3> QED
      BY <3>1, <3>2
  <2> HIDE DEF j
  <2>5. /\ IsSpread(r)
        /\ \A y : y \in Members(r) <=>
                     \/ y \in Members(f[m])
                     \/ IsOfMac(y, timeline, j, Len(timeline[j]), type, now)
    BY <1>6, <2>1, <2>2, <2>4, MacTakes DEF N
  <2> HIDE DEF r
  <2>6. \A y : isOf(y, j) <=> isOf(y, m) \/ IsOfMac(y, timeline, j, Len(timeline[j]), type, now)
    BY <2>3
  <2> HIDE DEF isOf
  <2>7. holds(f[j], j)
    BY <1>6, <2>2, <2>5, <2>6, Zenon
  <2> QED
    BY <2>7 DEF j
<1> HIDE DEF holds
<1> DEFINE T == {m \in 0 .. n : holds(f[m], m)}
<1>7. 0 \in T
  BY <1>5
<1>8. ASSUME NEW m \in 0 .. n - 1, m \in T
      PROVE  m + 1 \in T
  <2>1. m + 1 \in 0 .. n
    OBVIOUS
  <2> QED
    BY <1>6, <1>8, <2>1
<1>9. 0 .. n \subseteq T
  <2> HIDE DEF T
  <2> QED
    BY <1>7, <1>8, RangeInduction
<1>10. holds(f[n], n) /\ n \in 0 .. n
  BY <1>9
<1>11. isOf(x, n)
  <2>1. x \in AnnouncedOf(timeline, mac, k, type, now)
    BY DEF AnnouncedOf, type
  <2>2. k \in 1 .. Len(timeline[mac])
    BY DEF Timelines
  <2> QED
    BY <2>1, <2>2 DEF IsOfMac
<1>12. x \in Members(f[n])
  BY <1>10, <1>11, Zenon DEF holds
<1>13. PICK j \in DOMAIN f[n] : x \in ToSet(f[n][j])
  BY <1>12, Zenon DEF Members
<1> DEFINE b == f[n][j]
           L == Len(b)
<1>14. b \in Batches(timeline, now)
  <2>1. x.type \in Types
    <3>1. PICK kind \in Pending(timeline[mac][k], now) : x = Notification(mac, timeline[mac][k], kind)
      BY Zenon DEF NotificationsOf
    <3>2. kind \in Kinds
      BY DEF Pending
    <3> QED
      BY <3>1, <3>2 DEF Notification, Types
  <2>2. b \in ToSet(BatchesOf(timeline, type, now))
    <3>1. b \in ToSet(f[n])
      BY DEF ToSet
    <3> QED
      BY <1>2, <3>1
  <2> QED
    BY <2>1, <2>2, Zenon DEF Batches, type
<1>15. L <= n
  <2>1. f[n] \in Seq(BatchesIn(N, type))
    BY <1>3, <1>10 DEF BatchLists
  <2>2. b \in BatchesIn(N, type)
    BY <2>1
  <2>3. L \in Nat /\ L \in DOMAIN b /\ b[L] \in ToSet(b)
    BY <2>2 DEF BatchesIn, ToSet
  <2> HIDE DEF L
  <2>4. L <= b[L].mac
    BY <1>10, <2>3 DEF holds, IsSpread
  <2>5. b[L] \in Members(f[n])
    BY <2>3, Zenon DEF Members
  <2>6. b[L].mac \in 1 .. n
    BY <1>4, <1>10, <2>5, Zenon DEF holds
  <2> HIDE DEF b
  <2> QED
    BY <2>3, <2>4, <2>6
<1> QED
  BY <1>13, <1>14, <1>15

-----------------------------------------------------------------------------
(***************************************************************************)
(* What the firewall is told of a schedule of one kind.  The event at a    *)
(* time says what is blocked at that time, and without an event nothing    *)
(* changes.                                                                *)
(***************************************************************************)
LEMMA ReachedAtEvent ==
    ASSUME NEW list \in Seq(ScheduleEvent), IsStrict(list), NEW i \in DOMAIN list
    PROVE  Reached(list, list[i].time) = i
<1>1. DOMAIN list = 1 .. Len(list) /\ Len(list) \in Nat /\ list[i].time \in Int
  BY TimeIsInt
<1>2. \A j \in 2 .. i : list[j].time <= list[i].time
  <2> SUFFICES ASSUME NEW j \in 2 .. i
               PROVE  list[j].time <= list[i].time
    OBVIOUS
  <2>1. j = i \/ (j \in DOMAIN list /\ j < i)
    BY <1>1
  <2>2. j \in DOMAIN list /\ j < i => list[j].time < list[i].time /\ list[j].time \in Int
    BY TimeIsInt DEF IsStrict
  <2> QED
    BY <1>1, <2>1, <2>2
<1>3. i < Len(list) => list[i + 1].time > list[i].time
  <2>1. i < Len(list) => i + 1 \in DOMAIN list /\ i < i + 1
    BY <1>1
  <2>2. i < Len(list) => list[i].time < list[i + 1].time /\ list[i + 1].time \in Int
    BY <2>1, TimeIsInt DEF IsStrict
  <2> QED
    BY <1>1, <2>2
<1>4. IsReached(list, list[i].time, i)
  BY <1>2, <1>3 DEF IsReached
<1> QED
  BY <1>1, <1>4, ReachedIs

LEMMA ReachedBetween ==
    ASSUME NEW list \in Seq(ScheduleEvent), list # << >>, NEW t \in Int,
           \A i \in DOMAIN list : list[i].time # t
    PROVE  Reached(list, t) = Reached(list, t - 1)
<1> DEFINE k == Reached(list, t - 1)
<1>1. DOMAIN list = 1 .. Len(list) /\ Len(list) \in Nat /\ t - 1 \in Int
  OBVIOUS
<1>2. \A i \in DOMAIN list : list[i].time \in Int
  BY TimeIsInt
<1>3. IsReached(list, t - 1, k)
  BY <1>1, ReachedStops
<1> HIDE DEF k
<1>4. IsReached(list, t, k)
  BY <1>1, <1>2, <1>3 DEF IsReached
<1>5. Reached(list, t) = k
  BY <1>4, ReachedIs
<1> QED
  BY <1>5 DEF k

BeginsWeek(zone, W) ==
    \A v \in Int : \A r \in 0 .. Week - 1 : Weekly(zone, W + v * Week + r) = r

(* Each time is in some week, counted from the one that begins at W.       *)
IsInSomeWeek(W) ==
    \A t \in Int : \E v \in Int : \E r \in 0 .. Week - 1 : t = W + v * Week + r

LEMMA WeekHas ==
    ASSUME NEW zone, HasOneOffset(zone), NEW now \in Int, NEW W, W = WeekStart(zone, now)
    PROVE  /\ W \in Int /\ W <= now /\ now < W + Week
           /\ BeginsWeek(zone, W) /\ IsInSomeWeek(W)
<1> DEFINE offset == UTCOffset(zone, now)
           a == now + offset
           q == a \div Week
           r0 == a % Week
<1>1. offset \in Int /\ a \in Int /\ Week \in Nat /\ Week > 0
      /\ \A t \in Int : UTCOffset(zone, t) = offset
  BY WeekAssumption DEF HasOneOffset, HasOffsets
<1>3. W = now - r0
  BY DEF WeekStart, Weekly
<1>8. a = now + offset
  OBVIOUS
<1> HIDE DEF a, offset
<1>2. r0 \in 0 .. Week - 1 /\ q \in Int /\ a = q * Week + r0 /\ q * Week = Week * q
  BY <1>1
<1> HIDE DEF r0, q
<1>4. W \in Int /\ W <= now /\ now < W + Week
  BY <1>1, <1>2, <1>3
<1>5. W + offset = Week * q
  <2>1. q * Week \in Int
    BY <1>1, <1>2
  <2> QED
    BY <1>1, <1>2, <1>3, <1>8, <2>1
<1>6. ASSUME NEW v \in Int, NEW r \in 0 .. Week - 1
      PROVE  Weekly(zone, W + v * Week + r) = r
  <2> DEFINE d == v * Week
  <2>1. d \in Int /\ Week * q \in Int /\ W + d + r \in Int /\ q + v \in Int
    BY <1>1, <1>2, <1>4
  <2>2. Week * (q + v) = Week * q + d
    BY <1>1, <1>2
  <2> HIDE DEF d
  <2>3. W + d + r + UTCOffset(zone, W + d + r) = Week * (q + v) + r
    BY <1>1, <1>4, <1>5, <2>1, <2>2
  <2>4. (Week * (q + v) + r) % Week = r
    BY <1>1, <2>1, ModIs
  <2>5. Weekly(zone, W + d + r) = r
    BY <2>3, <2>4 DEF Weekly
  <2> QED
    BY <2>5 DEF d
<1>7. ASSUME NEW t \in Int
      PROVE  \E v \in Int : \E r \in 0 .. Week - 1 : t = W + v * Week + r
  <2> DEFINE v == (t - W) \div Week
             r == (t - W) % Week
  <2>1. v \in Int /\ r \in 0 .. Week - 1 /\ t - W = v * Week + r
    BY <1>1, <1>4
  <2> HIDE DEF v, r
  <2>2. v * Week \in Int
    BY <1>1, <2>1
  <2>3. t = W + v * Week + r
    BY <1>4, <2>1, <2>2
  <2> QED
    BY <2>1, <2>3
<1> QED
  BY <1>4, <1>6, <1>7 DEF BeginsWeek, IsInSomeWeek

(* A schedule of weekly events only.                                       *)
IsWeeklyOnly(s) ==
    /\ s.weekly \in Seq(ScheduleEvent) /\ s.weekly # << >> /\ s.absolute = << >>
    /\ IsFinal(s.weekly) /\ IsStrict(s.weekly)

LEMMA FinalWeekIs ==
    ASSUME NEW l \in Seq(ScheduleEvent), l # << >>, IsFinal(l), NEW i \in DOMAIN l
    PROVE  /\ l[i].time \in Int /\ l[i].time < Week /\ l[Len(l)].time >= 0
           /\ l[1].time <= 0
           /\ l[i].time < 0 => /\ i = 1 /\ l[i].block = l[Len(l)].block
                               /\ l[i].time = l[Len(l)].time - Week
           /\ l[1].time # 0 => l[1].time < 0
<1> DEFINE n == Len(l)
<1>1. n \in Nat /\ n >= 1 /\ DOMAIN l = 1 .. n /\ Week \in Nat /\ Week > 0
  BY WeekAssumption
<1>2. \A j \in 1 .. n : l[j] \in ScheduleEvent /\ l[j].time \in Int /\ l[j].time < Week
  BY <1>1, TimeIsInt DEF IsFinal
<1>3. l[1].time = 0 \/ RepeatsLast(l)
  BY DEF IsFinal
<1>4. CASE l[1].time = 0
  <2>1. i = 1 \/ l[i].time >= 0
    BY <1>1 DEF IsFinal
  <2>2. n = 1 \/ l[n].time >= 0
    BY <1>1 DEF IsFinal
  <2> QED
    BY <1>1, <1>2, <1>4, <2>1, <2>2
<1>5. CASE RepeatsLast(l)
  <2>1. l[1] = [l[n] EXCEPT !.time = @ - Week] /\ l[n] \in ScheduleEvent /\ l[1] \in ScheduleEvent
    BY <1>1, <1>2, <1>5 DEF RepeatsLast
  <2>2. l[1].time = l[n].time - Week /\ l[1].block = l[n].block
    BY <2>1 DEF ScheduleEvent
  <2>3. n # 1 /\ l[1].time < 0
    BY <1>1, <1>2, <2>2
  <2>4. \A j \in 2 .. n : l[j].time >= 0
    BY DEF IsFinal
  <2> QED
    BY <1>1, <1>2, <2>2, <2>3, <2>4
<1> QED
  BY <1>3, <1>4, <1>5

LEMMA WeeklyOnlyBlocks ==
    ASSUME NEW s, IsWeeklyOnly(s), NEW zone, HasOffsets(zone), NEW t \in Int
    PROVE  GetBlockedAtTime(s, zone, t)
              = BlockList(s, s.weekly[Reached(s.weekly, Weekly(zone, t))])
<1>1. Weekly(zone, t) \in Int
  BY WeekAssumption DEF HasOffsets, Weekly
<1>2. ~(Weekly(zone, t) + 1 <= Weekly(zone, t))
  BY <1>1
<1> QED
  BY <1>2 DEF GetBlockedAtTime, IsWeeklyOnly

LEMMA WeeklyAtEvent ==
    ASSUME NEW s, IsWeeklyOnly(s), NEW zone, HasOneOffset(zone), NEW now \in Int,
           NEW v \in Int, NEW i \in DOMAIN s.weekly
    PROVE  GetBlockedAtTime(s, zone, WeekStart(zone, now) + v * Week + s.weekly[i].time)
              = BlockList(s, s.weekly[i])
<1> DEFINE l == s.weekly
           n == Len(l)
           W == WeekStart(zone, now)
           t == W + v * Week + l[i].time
<1>1. /\ l \in Seq(ScheduleEvent) /\ l # << >> /\ IsFinal(l) /\ IsStrict(l)
      /\ HasOffsets(zone) /\ Week \in Nat /\ Week > 0
  BY WeekAssumption DEF IsWeeklyOnly, HasOneOffset
<1>2. W \in Int /\ BeginsWeek(zone, W)
  BY WeekHas
<1>3. n \in Nat /\ n \in DOMAIN l /\ i \in DOMAIN l /\ l[n].time \in Int /\ l[n].time < Week
  BY <1>1, FinalWeekIs
<1>4. /\ l[i].time \in Int /\ l[i].time < Week /\ l[n].time >= 0
      /\ l[i].time < 0 => l[i].block = l[n].block /\ l[i].time = l[n].time - Week
  BY <1>1, FinalWeekIs
<1> HIDE DEF W, n, l
<1>5. t \in Int
  <2>1. v * Week \in Int
    BY <1>1
  <2> QED
    BY <1>2, <1>4, <2>1
<1>6. CASE l[i].time >= 0
  <2>1. Weekly(zone, t) = l[i].time
    <3>1. l[i].time \in 0 .. Week - 1
      BY <1>1, <1>4, <1>6
    <3> QED
      BY <1>2, <3>1, Zenon DEF BeginsWeek
  <2>2. Reached(l, l[i].time) = i
    BY <1>1, <1>3, ReachedAtEvent
  <2> HIDE DEF t
  <2>3. GetBlockedAtTime(s, zone, t) = BlockList(s, l[i])
    BY <1>1, <1>5, <2>1, <2>2, WeeklyOnlyBlocks DEF l
  <2> QED
    BY <2>3 DEF t, W, l
<1>7. CASE l[i].time < 0
  <2>1. Weekly(zone, t) = l[n].time
    <3>1. Weekly(zone, W + (v - 1) * Week + l[n].time) = l[n].time
      <4>1. v - 1 \in Int /\ l[n].time \in 0 .. Week - 1
        BY <1>1, <1>3, <1>4
      <4> QED
        BY <1>2, <4>1, Zenon DEF BeginsWeek
    <3>2. (v - 1) * Week = v * Week - Week
      BY <1>1
    <3>3. W + (v - 1) * Week + l[n].time = t
      <4> DEFINE d == v * Week
      <4>1. d \in Int /\ l[i].time = l[n].time - Week /\ (v - 1) * Week = d - Week
        BY <1>1, <1>4, <1>7, <3>2
      <4>2. t = W + d + l[i].time
        OBVIOUS
      <4> HIDE DEF d, t
      <4> QED
        BY <1>1, <1>2, <1>3, <4>1, <4>2
    <3> QED
      BY <3>1, <3>3
  <2>2. Reached(l, l[n].time) = n
    BY <1>1, <1>3, ReachedAtEvent
  <2>3. BlockList(s, l[n]) = BlockList(s, l[i])
    BY <1>4, <1>7 DEF BlockList
  <2> HIDE DEF t
  <2>4. GetBlockedAtTime(s, zone, t) = BlockList(s, l[i])
    BY <1>1, <1>5, <2>1, <2>2, <2>3, WeeklyOnlyBlocks DEF l
  <2> QED
    BY <2>4 DEF t, W, l
<1> QED
  BY <1>4, <1>6, <1>7

LEMMA WeeklyBetween ==
    ASSUME NEW s, IsWeeklyOnly(s), NEW zone, HasOneOffset(zone), NEW now \in Int,
           NEW v \in Int, NEW r \in 0 .. Week - 1, \A i \in DOMAIN s.weekly : s.weekly[i].time # r
    PROVE  LET t == WeekStart(zone, now) + v * Week + r
           IN  GetBlockedAtTime(s, zone, t) = GetBlockedAtTime(s, zone, t - 1)
<1> DEFINE l == s.weekly
           n == Len(l)
           W == WeekStart(zone, now)
           d == v * Week
           t == W + d + r
<1>1. /\ l \in Seq(ScheduleEvent) /\ l # << >> /\ IsFinal(l) /\ IsStrict(l)
      /\ HasOffsets(zone) /\ Week \in Nat /\ Week > 0
  BY WeekAssumption DEF IsWeeklyOnly, HasOneOffset
<1>2. W \in Int /\ BeginsWeek(zone, W)
  BY WeekHas
<1>3. d \in Int /\ (v - 1) * Week = d - Week
  BY <1>1
<1>4. t \in Int /\ t - 1 \in Int /\ Weekly(zone, t) = r
  <2>1. Weekly(zone, t) = r
    BY <1>2, Zenon DEF BeginsWeek
  <2> HIDE DEF W, d
  <2> QED
    BY <1>1, <1>2, <1>3, <2>1
<1>5. \A u \in Int : GetBlockedAtTime(s, zone, u) = BlockList(s, l[Reached(l, Weekly(zone, u))])
  BY <1>1, WeeklyOnlyBlocks
<1>6. CASE r # 0
  <2>1. Weekly(zone, t - 1) = r - 1
    <3>1. r - 1 \in 0 .. Week - 1
      BY <1>1, <1>6
    <3>2. Weekly(zone, W + d + (r - 1)) = r - 1
      BY <1>2, <3>1, Zenon DEF BeginsWeek
    <3>3. W + d + (r - 1) = t - 1
      BY <1>2, <1>3
    <3> QED
      BY <3>2, <3>3
  <2> HIDE DEF t, l
  <2>2. Reached(l, r) = Reached(l, r - 1)
    <3>1. r \in Int /\ \A i \in DOMAIN l : l[i].time # r
      BY DEF l
    <3> QED
      BY <1>1, <3>1, ReachedBetween
  <2> QED
    BY <1>4, <1>5, <2>1, <2>2 DEF t
<1>7. CASE r = 0
  <2>1. n \in Nat /\ n >= 1 /\ DOMAIN l = 1 .. n
    BY <1>1
  <2>2. /\ \A i \in 1 .. n : l[i].time \in Int /\ l[i].time < Week
        /\ l[1].time < 0 /\ l[1].block = l[n].block
    <3>1. l[1].time # 0
      BY <1>7, <2>1
    <3> QED
      BY <1>1, <2>1, <3>1, FinalWeekIs
  <2>3. \A i \in 2 .. n : l[i].time > 0
    <3>1. \A i \in 2 .. n : l[i].time >= 0
      BY <1>1 DEF IsFinal
    <3>2. \A i \in 2 .. n : i \in 1 .. n /\ l[i].time # 0
      BY <1>7, <2>1
    <3> QED
      BY <2>2, <3>1, <3>2
  <2>4. Reached(l, 0) = 1
    <3>1. IsReached(l, 0, 1)
      BY <2>1, <2>2, <2>3 DEF IsReached
    <3> QED
      BY <1>1, <3>1, ReachedIs
  <2>5. Weekly(zone, t - 1) = Week - 1
    <3>1. Week - 1 \in 0 .. Week - 1 /\ v - 1 \in Int
      BY <1>1
    <3>2. Weekly(zone, W + (v - 1) * Week + (Week - 1)) = Week - 1
      BY <1>2, <3>1, Zenon DEF BeginsWeek
    <3>3. W + (v - 1) * Week + (Week - 1) = t - 1
      <4> HIDE DEF d
      <4> QED
        BY <1>1, <1>2, <1>3, <1>7
    <3> QED
      BY <3>2, <3>3
  <2>6. Reached(l, Week - 1) = n
    <3>1. IsReached(l, Week - 1, n)
      BY <1>1, <2>1, <2>2 DEF IsReached
    <3> QED
      BY <1>1, <3>1, ReachedIs
  <2>7. BlockList(s, l[1]) = BlockList(s, l[n])
    BY <2>2 DEF BlockList
  <2> HIDE DEF t, l, n
  <2> QED
    BY <1>4, <1>5, <1>7, <2>4, <2>5, <2>6, <2>7 DEF t
<1> QED
  BY <1>6, <1>7

(***************************************************************************)
(* Calendar events only: nothing is blocked before the first of them.      *)
(***************************************************************************)
IsAbsoluteOnly(s) ==
    s.absolute \in Seq(ScheduleEvent) /\ s.absolute # << >> /\ s.weekly = << >>
    /\ IsStrict(s.absolute)

LEMMA AbsoluteOnlyBlocks ==
    ASSUME NEW s, IsAbsoluteOnly(s), NEW zone, NEW t \in Int
    PROVE  LET e == s.absolute[Reached(s.absolute, t)]
           IN  GetBlockedAtTime(s, zone, t) = IF e.time <= t THEN BlockList(s, e) ELSE << >>
BY DEF GetBlockedAtTime, IsAbsoluteOnly

LEMMA AbsoluteAtEvent ==
    ASSUME NEW s, IsAbsoluteOnly(s), NEW zone, NEW i \in DOMAIN s.absolute
    PROVE  GetBlockedAtTime(s, zone, s.absolute[i].time) = BlockList(s, s.absolute[i])
<1>1. s.absolute[i].time \in Int /\ Reached(s.absolute, s.absolute[i].time) = i
  BY TimeIsInt, ReachedAtEvent DEF IsAbsoluteOnly
<1> QED
  BY <1>1, AbsoluteOnlyBlocks

LEMMA AbsoluteBetween ==
    ASSUME NEW s, IsAbsoluteOnly(s), NEW zone, NEW t \in Int,
           \A i \in DOMAIN s.absolute : s.absolute[i].time # t
    PROVE  GetBlockedAtTime(s, zone, t) = GetBlockedAtTime(s, zone, t - 1)
<1> DEFINE l == s.absolute
           k == Reached(l, t)
<1>1. l \in Seq(ScheduleEvent) /\ l # << >> /\ t - 1 \in Int
  BY DEF IsAbsoluteOnly
<1>2. k = Reached(l, t - 1)
  BY <1>1, ReachedBetween
<1>3. k \in DOMAIN l
  BY <1>1, ReachedStops DEF IsReached
<1>4. l[k].time \in Int /\ l[k].time # t
  BY <1>1, <1>3, TimeIsInt
<1> HIDE DEF k
<1>5. l[k].time <= t <=> l[k].time <= t - 1
  BY <1>4
<1> QED
  BY <1>1, <1>2, <1>5, AbsoluteOnlyBlocks DEF k

-----------------------------------------------------------------------------
(***************************************************************************)
(* The list of events holds every event that is included, and no other.    *)
(***************************************************************************)
LEMMA InsertionMembers ==
    ASSUME NEW list \in Seq(TimelineEvent), NEW e \in TimelineEvent
    PROVE  /\ InsertEventSorted(list, e) \in Seq(TimelineEvent)
           /\ ToSet(InsertEventSorted(list, e)) = ToSet(list) \cup {e}
<1> DEFINE r == InsertEventSorted(list, e)
           n == Len(list)
<1>1. PICK k \in 1 .. n + 1 : r = Insertion(list, k, e)
  BY InsertEventSortedIs
<1>2. /\ r \in Seq(TimelineEvent) /\ Len(r) = n + 1
      /\ \A i \in 1 .. n + 1 :
            r[i] = IF i < k THEN list[i] ELSE IF i = k THEN e ELSE list[i - 1]
  BY <1>1, InsertionShape
<1> HIDE DEF r
<1>3. n \in Nat /\ DOMAIN list = 1 .. n /\ DOMAIN r = 1 .. n + 1
  BY <1>2
<1>4. \A i \in 1 .. n + 1 : r[i] = e \/ \E j \in 1 .. n : r[i] = list[j]
  <2> SUFFICES ASSUME NEW i \in 1 .. n + 1
               PROVE  r[i] = e \/ \E j \in 1 .. n : r[i] = list[j]
    OBVIOUS
  <2>1. i < k => i \in 1 .. n /\ r[i] = list[i]
    BY <1>2, <1>3
  <2>2. i > k => i - 1 \in 1 .. n /\ r[i] = list[i - 1]
    BY <1>2, <1>3
  <2>3. i = k => r[i] = e
    BY <1>2, <1>3
  <2> QED
    BY <2>1, <2>2, <2>3
<1>5. r[k] = e /\ \A j \in 1 .. n : \E i \in 1 .. n + 1 : r[i] = list[j]
  <2>1. r[k] = e
    BY <1>2, <1>3
  <2>2. ASSUME NEW j \in 1 .. n
        PROVE  \E i \in 1 .. n + 1 : r[i] = list[j]
    <3>1. j < k => j \in 1 .. n + 1 /\ r[j] = list[j]
      BY <1>2, <1>3
    <3>2. ~(j < k) => j + 1 \in 1 .. n + 1 /\ r[j + 1] = list[j]
      BY <1>2, <1>3
    <3> QED
      BY <3>1, <3>2
  <2> QED
    BY <2>1, <2>2
<1>6. ToSet(r) \subseteq ToSet(list) \cup {e}
  BY <1>3, <1>4 DEF ToSet
<1>7. ToSet(list) \subseteq ToSet(r)
  BY <1>3, <1>5 DEF ToSet
<1>8. e \in ToSet(r)
  BY <1>1, <1>3, <1>5 DEF ToSet
<1>9. ToSet(r) = ToSet(list) \cup {e}
  BY <1>6, <1>7, <1>8
<1> QED
  BY <1>2, <1>9 DEF r

LEMMA AddEventsAdds ==
    ASSUME NEW list \in Seq(TimelineEvent), NEW events \in Seq(TimelineEvent),
           NEW included \in SUBSET DOMAIN events
    PROVE  LET r == AddEvents(list, events, included)
           IN  /\ r \in Seq(TimelineEvent)
               /\ ToSet(r) = ToSet(list) \cup {events[i] : i \in included}
<1> DEFINE n == Len(events)
           S == Seq(TimelineEvent)
           first(i) == {j \in included : j <= i}
           D(i) == {l \in S : ToSet(l) = ToSet(list) \cup {events[j] : j \in first(i)}}
           I == [i \in 0 .. n |-> D(i)]
<1>1. n \in Nat /\ DOMAIN events = 1 .. n /\ \A i \in 1 .. n : events[i] \in TimelineEvent
  OBVIOUS
<1>2. first(0) = {} /\ first(n) = included
  BY <1>1
<1>3. \A i \in 1 .. n : first(i) = IF i \in included THEN first(i - 1) \cup {i} ELSE first(i - 1)
  <2> SUFFICES ASSUME NEW i \in 1 .. n
               PROVE  first(i) = IF i \in included THEN first(i - 1) \cup {i} ELSE first(i - 1)
    OBVIOUS
  <2>1. \A j \in included : j <= i <=> j <= i - 1 \/ j = i
    BY <1>1
  <2> QED
    BY <2>1
<1> HIDE DEF first
<1>4. list \in D(0)
  BY <1>2
<1>5. ASSUME NEW i \in 1 .. n, NEW l \in S, l \in D(i - 1)
      PROVE  IF i \in included THEN InsertEventSorted(l, events[i]) \in D(i) ELSE l \in D(i)
  <2>1. CASE i \notin included
    BY <1>3, <1>5, <2>1
  <2>2. CASE i \in included
    <3> DEFINE r == InsertEventSorted(l, events[i])
    <3>1. r \in S /\ ToSet(r) = ToSet(l) \cup {events[i]}
      BY <1>1, InsertionMembers
    <3> HIDE DEF r
    <3>2. {events[j] : j \in first(i)} = {events[j] : j \in first(i - 1)} \cup {events[i]}
      BY <1>3, <2>2
    <3> QED
      BY <1>5, <2>2, <3>1, <3>2 DEF r
  <2> QED
    BY <2>1, <2>2
<1> HIDE DEF D
<1>6. \A i \in 0 .. n : I[i] = D(i)
  OBVIOUS
<1> HIDE DEF I
<1>7. list \in I[0] /\ n \in 0 .. n
  BY <1>1, <1>4, <1>6
<1>8. \A i \in 1 .. n : \A l \in Seq(TimelineEvent) : l \in I[i - 1] =>
         IF i \in included THEN InsertEventSorted(l, events[i]) \in I[i] ELSE l \in I[i]
  <2>1. \A i \in 1 .. n : i \in 0 .. n /\ i - 1 \in 0 .. n
    BY <1>1
  <2> QED
    BY <1>5, <1>6, <2>1
<1>9. AddEvents(list, events, included) \in Seq(TimelineEvent) \cap I[n]
  BY <1>7, <1>8, AddEventsStaysIn
<1>10. AddEvents(list, events, included) \in D(n)
  BY <1>6, <1>7, <1>9
<1> QED
  BY <1>2, <1>9, <1>10 DEF D

-----------------------------------------------------------------------------
(***************************************************************************)
(* The walk over events of one kind: a MAC is blocked from the first event *)
(* that lists it to the first one that does not.                           *)
(***************************************************************************)
AreOfKind(events, kind) == \A k \in DOMAIN events : events[k].absolute = kind

IsWalkOfKind(st, kind) ==
    /\ st.currently_blocked => st.start_is_absolute = kind
    /\ IF kind THEN ~st.weekly_blocked ELSE ~st.absolute_controls_period

PeriodOfKind(start, end, kind) ==
    [start |-> start, end |-> end, start_is_absolute |-> kind, end_is_absolute |-> kind,
     done |-> {}]

NextOfKind(t, listed, kind, now, st, r) ==
    /\ r.currently_blocked <=> listed
    /\ r.block_start = IF listed /\ ~st.currently_blocked THEN t ELSE st.block_start
    /\ r.periods = IF ~listed /\ st.currently_blocked /\ t > now
                   THEN Append(st.periods, PeriodOfKind(st.block_start, t, kind))
                   ELSE st.periods

LEMMA NextEventOfKind ==
    ASSUME NEW events \in Seq(TimelineEvent), NEW kind \in BOOLEAN, AreOfKind(events, kind),
           NEW mac, NEW now \in Int,
           NEW before \in WalkState, IsWalkOfKind(before, kind), NEW k \in 1 .. Len(events)
    PROVE  LET r == NextEvent(events, mac, now, before, k)
           IN  /\ IsWalkOfKind(r, kind)
               /\ NextOfKind(events[k].time, ListsMac(events[k], mac), kind, now, before, r)
<1> DEFINE e == events[k]
           listed == ListsMac(e, mac)
           st == IF e.absolute THEN [before EXCEPT !.absolute_blocked = listed]
                               ELSE [before EXCEPT !.weekly_blocked = listed]
           ignored == /\ ~e.absolute
                      /\ \/ FollowsTiedAbsolute(events, k)
                         \/ st.currently_blocked /\ st.absolute_controls_period
           r == NextEvent(events, mac, now, before, k)
           t == e.time
<1>1. DOMAIN events = 1 .. Len(events) /\ k \in DOMAIN events /\ Len(events) \in Nat
  OBVIOUS
<1>2. e.absolute = kind /\ \A i \in DOMAIN events : events[i].absolute = kind
  BY <1>1 DEF AreOfKind
<1>3. kind => TiedWeekly(events, k) = {}
  <2>1. \A i \in k + 1 .. Len(events) : i \in DOMAIN events
    BY <1>1
  <2> QED
    BY <1>2, <2>1 DEF TiedWeekly
<1>4. ~kind => ~FollowsTiedAbsolute(events, k)
  BY <1>1, <1>2 DEF FollowsTiedAbsolute
<1>5. listed \in BOOLEAN
  BY DEF ListsMac
<1>6. r = CASE ignored -> st
          [] ~ignored /\ listed /\ ~st.currently_blocked -> StartPeriod(events, mac, st, k)
          [] ~ignored /\ listed /\ st.currently_blocked ->
                IF e.absolute THEN ReaffirmPeriod(events, mac, st, k, before.absolute_blocked)
                ELSE st
          [] ~ignored /\ ~listed /\ st.currently_blocked ->
                IF e.absolute /\ WeeklyHolds(events, mac, st, k)
                THEN [st EXCEPT !.absolute_controls_period = FALSE]
                ELSE EndPeriod(events, mac, now, st, k)
          [] OTHER -> st
  BY DEF NextEvent
<1> HIDE DEF listed, r
<1>7. /\ st.currently_blocked = before.currently_blocked
      /\ st.block_start = before.block_start /\ st.periods = before.periods
      /\ st.start_is_absolute = before.start_is_absolute
      /\ st.absolute_controls_period = before.absolute_controls_period
      /\ kind => ~st.weekly_blocked
      /\ st \in WalkState
  BY <1>2, <1>5 DEF WalkState, IsWalkOfKind
<1>8. /\ st.currently_blocked => st.start_is_absolute = kind
      /\ IF kind THEN ~st.weekly_blocked ELSE ~st.absolute_controls_period
  BY <1>7 DEF IsWalkOfKind
<1>9. st.currently_blocked \in BOOLEAN
  BY <1>7 DEF WalkState
<1>10. ~ignored
  BY <1>2, <1>4, <1>8
<1> HIDE DEF st, ignored
<1>11. CASE listed /\ ~st.currently_blocked
  <2>1. r = StartPeriod(events, mac, st, k)
    BY <1>6, <1>10, <1>11
  <2> DEFINE absolute == /\ events[k].absolute
                         /\ \A i \in TiedWeekly(events, k) : ~ListsMac(events[i], mac)
  <2>2. absolute = kind
    BY <1>2, <1>3
  <2>3. r = [st EXCEPT !.block_start = t, !.currently_blocked = TRUE,
                       !.start_is_absolute = absolute, !.absolute_controls_period = absolute]
    BY <2>1 DEF StartPeriod
  <2> HIDE DEF absolute, t
  <2>4. /\ r.block_start = t /\ r.currently_blocked /\ r.start_is_absolute = kind
        /\ r.absolute_controls_period = kind /\ r.weekly_blocked = st.weekly_blocked
        /\ r.periods = st.periods
    BY <1>7, <2>2, <2>3 DEF WalkState
  <2> QED
    <3>1. IsWalkOfKind(r, kind)
      BY <1>7, <1>8, <2>4 DEF IsWalkOfKind
    <3>2. NextOfKind(t, listed, kind, now, before, r)
      BY <1>7, <1>11, <2>4 DEF NextOfKind
    <3> QED
      BY <3>1, <3>2, Zenon DEF r, listed, t
<1>12. CASE listed /\ st.currently_blocked
  <2>1. r = IF e.absolute THEN ReaffirmPeriod(events, mac, st, k, before.absolute_blocked) ELSE st
    BY <1>6, <1>10, <1>12
  <2>2. CASE kind
    <3>1. r = ReaffirmPeriod(events, mac, st, k, before.absolute_blocked)
      BY <1>2, <2>1, <2>2
    <3>2. \E x : r = [st EXCEPT !.absolute_controls_period = x]
      BY <3>1, Zenon DEF ReaffirmPeriod
    <3>3. /\ r.block_start = st.block_start /\ r.currently_blocked = st.currently_blocked
          /\ r.start_is_absolute = st.start_is_absolute
          /\ r.weekly_blocked = st.weekly_blocked /\ r.periods = st.periods
      BY <1>7, <3>2 DEF WalkState
    <3> QED
      <4>1. IsWalkOfKind(r, kind)
        BY <1>7, <1>8, <2>2, <3>3 DEF IsWalkOfKind
      <4>2. NextOfKind(t, listed, kind, now, before, r)
        BY <1>7, <1>12, <3>3 DEF NextOfKind
      <4> QED
        BY <4>1, <4>2, Zenon DEF r, listed
  <2>3. CASE ~kind
    <3>1. r = st
      BY <1>2, <2>1, <2>3
    <3> QED
      <4>1. IsWalkOfKind(r, kind)
        BY <1>8, <3>1 DEF IsWalkOfKind
      <4>2. NextOfKind(t, listed, kind, now, before, r)
        BY <1>7, <1>12, <3>1 DEF NextOfKind
      <4> QED
        BY <4>1, <4>2, Zenon DEF r, listed
  <2> QED
    BY <2>2, <2>3
<1>13. CASE ~listed /\ st.currently_blocked
  <2>1. r = IF e.absolute /\ WeeklyHolds(events, mac, st, k)
            THEN [st EXCEPT !.absolute_controls_period = FALSE]
            ELSE EndPeriod(events, mac, now, st, k)
    BY <1>6, <1>10, <1>13
  <2>2. ~(e.absolute /\ WeeklyHolds(events, mac, st, k))
    BY <1>2, <1>3, <1>8 DEF WeeklyHolds
  <2> DEFINE absolute == /\ events[k].absolute
                         /\ \/ st.absolute_controls_period
                            \/ \A i \in TiedWeekly(events, k) : ListsMac(events[i], mac)
             p == [start |-> st.block_start, end |-> t,
                   start_is_absolute |-> st.start_is_absolute,
                   end_is_absolute |-> absolute, done |-> {}]
  <2>3. absolute = kind
    BY <1>2, <1>3
  <2>4. r = [st EXCEPT !.periods = IF t > now THEN Append(@, p) ELSE @,
                       !.currently_blocked = FALSE, !.absolute_controls_period = FALSE]
    BY <2>1, <2>2 DEF EndPeriod
  <2> HIDE DEF absolute, t
  <2>5. p = PeriodOfKind(before.block_start, t, kind)
    BY <1>7, <1>8, <1>13, <2>3 DEF PeriodOfKind
  <2> HIDE DEF p
  <2>6. /\ r.block_start = st.block_start /\ ~r.currently_blocked
        /\ r.absolute_controls_period = FALSE /\ r.weekly_blocked = st.weekly_blocked
        /\ r.periods = IF t > now THEN Append(st.periods, p) ELSE st.periods
    BY <1>7, <2>4 DEF WalkState
  <2> QED
    <3>1. IsWalkOfKind(r, kind)
      BY <1>7, <1>8, <2>6 DEF IsWalkOfKind
    <3>2. NextOfKind(t, listed, kind, now, before, r)
      BY <1>7, <1>13, <2>5, <2>6 DEF NextOfKind
    <3> QED
      BY <3>1, <3>2, Zenon DEF r, listed, t
<1>14. CASE ~listed /\ ~st.currently_blocked
  <2>1. r = st
    BY <1>6, <1>10, <1>14
  <2> QED
    <3>1. IsWalkOfKind(r, kind)
      BY <1>8, <2>1 DEF IsWalkOfKind
    <3>2. NextOfKind(t, listed, kind, now, before, r)
      BY <1>7, <1>14, <2>1 DEF NextOfKind
    <3> QED
      BY <3>1, <3>2, Zenon DEF r, listed
<1> QED
  BY <1>5, <1>9, <1>11, <1>12, <1>13, <1>14 DEF r

(***************************************************************************)
(* What the periods of a MAC tell of B, the times at which it is blocked,  *)
(* from a first time lo on: each is a block, which begins where it says    *)
(* unless the MAC has been blocked since lo; and from the time at which    *)
(* the periods were built on, a time in B is in one of them, or the MAC    *)
(* has been blocked since lo.                                              *)
(***************************************************************************)
AreAllIn(B, b, e) == \A t \in b .. e : t \in B

StaysBetween(B, b, e) == \A t \in Int : b < t /\ t < e => (t \in B <=> t - 1 \in B)

IsWithin(periods, t) ==
    \E i \in DOMAIN periods : periods[i].start <= t /\ t < periods[i].end

Tells(B, lo, p) ==
    /\ lo <= p.start /\ p.start < p.end
    /\ AreAllIn(B, p.start, p.end - 1) /\ p.end \notin B
    /\ p.start - 1 \in B => AreAllIn(B, lo, p.start - 1)

IsOfKind(p, kind) == p.start_is_absolute = kind /\ p.end_is_absolute = kind

TellsSoFar(B, lo, kind, u, st) ==
    \A i \in DOMAIN st.periods :
        /\ Tells(B, lo, st.periods[i]) /\ IsOfKind(st.periods[i], kind)
        /\ st.periods[i].end <= u
        /\ st.currently_blocked => st.periods[i].end < st.block_start

TellsOpen(B, lo, u, st) ==
    st.currently_blocked =>
        /\ lo <= st.block_start /\ st.block_start <= u
        /\ AreAllIn(B, st.block_start, u)
        /\ st.block_start - 1 \in B => AreAllIn(B, lo, st.block_start - 1)

KnowsSoFar(B, lo, now, u, st) ==
    \A t \in lo .. u :
        now <= t /\ t \in B => \/ IsWithin(st.periods, t)
                               \/ st.currently_blocked /\ st.block_start <= t
                               \/ AreAllIn(B, lo, t)

WalkTells(B, lo, kind, now, u, st) ==
    /\ st.currently_blocked <=> u \in B
    /\ TellsSoFar(B, lo, kind, u, st)
    /\ TellsOpen(B, lo, u, st)
    /\ KnowsSoFar(B, lo, now, u, st)

LEMMA StaysTheSame ==
    ASSUME NEW B, NEW a \in Int, NEW b \in Int, StaysBetween(B, a, b), NEW t \in a .. b - 1
    PROVE  t \in B <=> a \in B
<1> DEFINE n == b - 1 - a
           T == {i \in 0 .. n : a + i \in B <=> a \in B}
<1>1. n \in Nat /\ t - a \in 0 .. n /\ a + (t - a) = t /\ a + 0 = a
  OBVIOUS
<1>2. 0 \in T
  BY <1>1
<1>3. ASSUME NEW i \in 0 .. n - 1, i \in T
      PROVE  i + 1 \in T
  <2>1. a + (i + 1) \in Int /\ a < a + (i + 1) /\ a + (i + 1) < b /\ (a + (i + 1)) - 1 = a + i
    BY <1>1
  <2>2. a + (i + 1) \in B <=> a + i \in B
    <3> DEFINE u == a + (i + 1)
    <3>1. u \in B <=> u - 1 \in B
      <4> HIDE DEF u
      <4>1. u \in Int /\ a < u /\ u < b
        BY <2>1 DEF u
      <4> QED
        BY <4>1, Zenon DEF StaysBetween
    <3> QED
      BY <2>1, <3>1
  <2> QED
    BY <1>1, <1>3, <2>2
<1>4. 0 .. n \subseteq T
  <2> HIDE DEF T, n
  <2> QED
    BY <1>1, <1>2, <1>3, RangeInduction
<1> HIDE DEF n
<1>5. t - a \in T
  BY <1>1, <1>4
<1> QED
  BY <1>1, <1>5

LEMMA FirstTells ==
    ASSUME NEW B, NEW lo \in Int, NEW u \in Int, lo <= u, StaysBetween(B, lo, u),
           NEW kind, NEW now, NEW st, st.periods = << >>, ~st.currently_blocked,
           NEW listed, listed <=> u \in B, NEW r, NextOfKind(u, listed, kind, now, st, r)
    PROVE  WalkTells(B, lo, kind, now, u, r)
<1>1. /\ r.currently_blocked <=> u \in B
      /\ r.currently_blocked => r.block_start = u
      /\ r.periods = << >>
  BY DEF NextOfKind
<1>2. \A t \in lo .. u - 1 : t \in B <=> lo \in B
  BY StaysTheSame
<1>3. TellsSoFar(B, lo, kind, u, r)
  BY <1>1 DEF TellsSoFar
<1>4. TellsOpen(B, lo, u, r)
  <2>1. AreAllIn(B, u, u) <=> u \in B
    BY DEF AreAllIn
  <2>2. ASSUME u - 1 \in B
        PROVE  AreAllIn(B, lo, u - 1)
    <3>1. CASE lo = u
      BY <3>1 DEF AreAllIn
    <3>2. CASE lo # u
      <4>1. u - 1 \in lo .. u - 1
        BY <3>2
      <4> QED
        BY <1>2, <2>2, <4>1 DEF AreAllIn
    <3> QED
      BY <3>1, <3>2
  <2> QED
    BY <1>1, <2>1, <2>2 DEF TellsOpen
<1>5. KnowsSoFar(B, lo, now, u, r)
  <2> SUFFICES ASSUME NEW t \in lo .. u, t \in B
               PROVE  (r.currently_blocked /\ r.block_start <= t) \/ AreAllIn(B, lo, t)
    BY DEF KnowsSoFar
  <2>1. CASE t = u
    BY <1>1, <2>1
  <2>2. CASE t # u
    <3>1. t \in lo .. u - 1 /\ \A i \in lo .. t : i \in lo .. u - 1
      BY <2>2
    <3> QED
      BY <1>2, <3>1 DEF AreAllIn
  <2> QED
    BY <2>1, <2>2
<1> QED
  BY <1>1, <1>3, <1>4, <1>5 DEF WalkTells

LEMMA NextTells ==
    ASSUME NEW B, NEW lo \in Int, NEW u \in Int, NEW v \in Int, lo <= u, u <= v,
           StaysBetween(B, u, v),
           NEW kind, NEW now \in Int, NEW st \in WalkState, WalkTells(B, lo, kind, now, u, st),
           NEW listed, listed <=> v \in B, NEW r, NextOfKind(v, listed, kind, now, st, r)
    PROVE  WalkTells(B, lo, kind, now, v, r)
<1>1. /\ r.currently_blocked <=> v \in B
      /\ r.block_start = IF v \in B /\ ~st.currently_blocked THEN v ELSE st.block_start
      /\ r.periods = IF v \notin B /\ st.currently_blocked /\ v > now
                     THEN Append(st.periods, PeriodOfKind(st.block_start, v, kind))
                     ELSE st.periods
  BY DEF NextOfKind
<1>2. /\ st.currently_blocked <=> u \in B
      /\ TellsSoFar(B, lo, kind, u, st) /\ TellsOpen(B, lo, u, st) /\ KnowsSoFar(B, lo, now, u, st)
  BY DEF WalkTells
<1>3. \A t \in u .. v - 1 : t \in B <=> u \in B
  BY StaysTheSame
<1>4. (v \in B <=> u \notin B) => u < v /\ v - 1 \in u .. v - 1
  OBVIOUS
<1>5. st.block_start \in Int /\ st.periods \in Seq(Period)
  BY DEF WalkState
<1>6. \A i \in DOMAIN st.periods : st.periods[i].start \in Int /\ st.periods[i].end \in Int
  BY <1>5, PeriodIsTyped
<1> DEFINE p == PeriodOfKind(st.block_start, v, kind)
<1>7. p.start = st.block_start /\ p.end = v /\ IsOfKind(p, kind)
  BY DEF PeriodOfKind, IsOfKind
<1>8. CASE st.currently_blocked /\ v \in B
  <2>1. /\ r.currently_blocked /\ r.block_start = st.block_start /\ r.periods = st.periods
        /\ u \in B
    BY <1>1, <1>2, <1>8
  <2>2. TellsSoFar(B, lo, kind, v, r)
    BY <1>2, <1>6, <1>8, <2>1 DEF TellsSoFar
  <2>3. AreAllIn(B, st.block_start, v)
    <3>1. \A t \in st.block_start .. v : t \in st.block_start .. u \/ t \in u .. v - 1 \/ t = v
      BY <1>5
    <3>2. AreAllIn(B, st.block_start, u)
      BY <1>2, <1>8 DEF TellsOpen
    <3> QED
      BY <1>3, <1>8, <2>1, <3>1, <3>2 DEF AreAllIn
  <2>4. TellsOpen(B, lo, v, r)
    BY <1>2, <1>5, <1>8, <2>1, <2>3 DEF TellsOpen
  <2>5. KnowsSoFar(B, lo, now, v, r)
    <3> SUFFICES ASSUME NEW t \in lo .. v, now <= t, t \in B, ~(r.block_start <= t)
                 PROVE  IsWithin(r.periods, t) \/ AreAllIn(B, lo, t)
      BY <2>1 DEF KnowsSoFar
    <3>1. t \in lo .. u
      BY <1>2, <1>5, <1>8, <2>1 DEF TellsOpen
    <3> QED
      BY <1>2, <2>1, <3>1 DEF KnowsSoFar
  <2> QED
    BY <1>1, <2>2, <2>4, <2>5 DEF WalkTells
<1>9. CASE ~st.currently_blocked
  <2>1. u \notin B /\ r.periods = st.periods /\ (r.currently_blocked => r.block_start = v)
    BY <1>1, <1>2, <1>9
  <2>2. v \in B => u < v /\ v - 1 \notin B
    BY <1>3, <1>4, <2>1
  <2>3. TellsSoFar(B, lo, kind, v, r)
    <3>1. ASSUME NEW i \in DOMAIN st.periods
          PROVE  /\ Tells(B, lo, st.periods[i]) /\ IsOfKind(st.periods[i], kind)
                 /\ st.periods[i].end <= v /\ (v \in B => st.periods[i].end < v)
      <4>1. /\ Tells(B, lo, st.periods[i]) /\ IsOfKind(st.periods[i], kind)
            /\ st.periods[i].end <= u /\ st.periods[i].end \in Int
        BY <1>2, <1>6 DEF TellsSoFar
      <4> QED
        BY <2>2, <4>1
    <3> QED
      BY <1>1, <2>1, <3>1 DEF TellsSoFar
  <2>4. TellsOpen(B, lo, v, r)
    <3>1. r.currently_blocked => lo <= r.block_start
      BY <2>1
    <3>2. AreAllIn(B, v, v) <=> v \in B
      BY DEF AreAllIn
    <3> QED
      BY <1>1, <2>1, <2>2, <3>1, <3>2 DEF TellsOpen
  <2>5. KnowsSoFar(B, lo, now, v, r)
    <3> SUFFICES ASSUME NEW t \in lo .. v, now <= t, t \in B
                 PROVE  \/ IsWithin(r.periods, t)
                        \/ r.currently_blocked /\ r.block_start <= t
                        \/ AreAllIn(B, lo, t)
      BY DEF KnowsSoFar
    <3>1. t \in lo .. u \/ t \in u .. v - 1 \/ t = v
      OBVIOUS
    <3>2. t \notin u .. v - 1
      BY <1>3, <2>1
    <3>3. CASE t = v
      BY <1>1, <2>1, <3>3
    <3>4. CASE t \in lo .. u
      <4>1. IsWithin(st.periods, t) \/ AreAllIn(B, lo, t)
        BY <1>2, <1>9, <3>4 DEF KnowsSoFar
      <4> QED
        BY <2>1, <4>1
    <3> QED
      BY <3>1, <3>2, <3>3, <3>4
  <2> QED
    BY <1>1, <2>3, <2>4, <2>5 DEF WalkTells
<1>10. CASE st.currently_blocked /\ v \notin B
  <2>1. /\ u \in B /\ u < v /\ ~r.currently_blocked
        /\ r.periods = IF v > now THEN Append(st.periods, p) ELSE st.periods
    BY <1>1, <1>2, <1>4, <1>10
  <2>2. /\ lo <= st.block_start /\ st.block_start <= u
        /\ AreAllIn(B, st.block_start, u)
        /\ st.block_start - 1 \in B => AreAllIn(B, lo, st.block_start - 1)
    BY <1>2, <1>10 DEF TellsOpen
  <2>3. Tells(B, lo, p)
    <3>1. \A t \in st.block_start .. v - 1 : t \in st.block_start .. u \/ t \in u .. v - 1
      BY <1>5
    <3>2. AreAllIn(B, st.block_start, v - 1)
      BY <1>3, <2>1, <2>2, <3>1 DEF AreAllIn
    <3>3. st.block_start < v
      BY <1>5, <2>1, <2>2
    <3> HIDE DEF p
    <3> QED
      BY <1>7, <1>10, <2>2, <3>2, <3>3 DEF Tells
  <2> HIDE DEF p
  <2>4. \A i \in DOMAIN st.periods :
           /\ Tells(B, lo, st.periods[i]) /\ IsOfKind(st.periods[i], kind)
           /\ st.periods[i].end <= v
    <3> SUFFICES ASSUME NEW i \in DOMAIN st.periods
                 PROVE  /\ Tells(B, lo, st.periods[i]) /\ IsOfKind(st.periods[i], kind)
                        /\ st.periods[i].end <= v
      OBVIOUS
    <3>1. /\ Tells(B, lo, st.periods[i]) /\ IsOfKind(st.periods[i], kind)
          /\ st.periods[i].end <= u /\ st.periods[i].end \in Int
      BY <1>2, <1>6 DEF TellsSoFar
    <3> QED
      BY <3>1
  <2>5. \A t : t \in lo .. u /\ now <= t /\ t \in B =>
           IsWithin(st.periods, t) \/ st.block_start <= t \/ AreAllIn(B, lo, t)
    BY <1>2, <1>10 DEF KnowsSoFar
  <2>6. \A t \in lo .. v : now <= t /\ t \in B =>
           t < v /\ (IsWithin(st.periods, t) \/ st.block_start <= t \/ AreAllIn(B, lo, t))
    <3> SUFFICES ASSUME NEW t \in lo .. v, now <= t, t \in B
                 PROVE  t < v /\ (IsWithin(st.periods, t) \/ st.block_start <= t
                                  \/ AreAllIn(B, lo, t))
      OBVIOUS
    <3>1. t < v
      BY <1>10
    <3>2. t \in lo .. u \/ st.block_start <= t
      BY <1>5, <2>2
    <3> QED
      BY <2>5, <3>1, <3>2
  <2>7. CASE v > now
    <3> DEFINE n == Len(st.periods)
               q == r.periods
    <3>1. /\ n \in Nat /\ DOMAIN st.periods = 1 .. n /\ q = Append(st.periods, p)
      BY <1>5, <2>1, <2>7
    <3>2. /\ DOMAIN q = 1 .. n + 1 /\ q[n + 1] = p
          /\ \A i \in 1 .. n : q[i] = st.periods[i]
      BY <1>5, <3>1
    <3> HIDE DEF q, n
    <3>3. TellsSoFar(B, lo, kind, v, r)
      <4> SUFFICES ASSUME NEW i \in 1 .. n + 1
                   PROVE  Tells(B, lo, q[i]) /\ IsOfKind(q[i], kind) /\ q[i].end <= v
        BY <2>1, <3>2 DEF TellsSoFar, q
      <4>1. CASE i = n + 1
        BY <1>7, <2>3, <3>2, <4>1
      <4>2. CASE i # n + 1
        <5>1. i \in 1 .. n
          BY <3>1, <4>2
        <5> QED
          BY <2>4, <3>1, <3>2, <5>1
      <4> QED
        BY <4>1, <4>2
    <3>4. KnowsSoFar(B, lo, now, v, r)
      <4>1. \A t : IsWithin(st.periods, t) => IsWithin(q, t)
        <5>1. \A i \in 1 .. n : i \in 1 .. n + 1
          BY <3>1
        <5> QED
          BY <3>1, <3>2, <5>1 DEF IsWithin
      <4>2. \A t : st.block_start <= t /\ t < v => IsWithin(q, t)
        <5>1. n + 1 \in DOMAIN q
          BY <3>1, <3>2
        <5> QED
          BY <1>7, <3>2, <5>1 DEF IsWithin
      <4> QED
        BY <2>6, <4>1, <4>2 DEF KnowsSoFar, q
    <3> QED
      BY <1>1, <2>1, <3>3, <3>4 DEF WalkTells, TellsOpen
  <2>8. CASE ~(v > now)
    <3>1. r.periods = st.periods
      BY <2>1, <2>8
    <3>2. TellsSoFar(B, lo, kind, v, r)
      BY <2>1, <2>4, <3>1 DEF TellsSoFar
    <3>3. KnowsSoFar(B, lo, now, v, r)
      <4>1. \A t \in lo .. v : now <= t => ~(t < v)
        BY <2>8
      <4> QED
        BY <2>6, <4>1 DEF KnowsSoFar
    <3> QED
      BY <1>1, <2>1, <3>2, <3>3 DEF WalkTells, TellsOpen
  <2> QED
    BY <2>7, <2>8
<1>11. st.currently_blocked \in BOOLEAN
  BY DEF WalkState
<1> QED
  BY <1>8, <1>9, <1>10, <1>11

(***************************************************************************)
(* Wherever B ends after the first event, and after the time at which the  *)
(* periods are built, a period ends.                                       *)
(***************************************************************************)
EndsAt(B, t) == t \notin B /\ t - 1 \in B

HasEnd(periods, t) == \E i \in DOMAIN periods : periods[i].end = t

EndsSoFar(B, first, now, u, st) ==
    \A t \in first + 1 .. u : now < t /\ EndsAt(B, t) => HasEnd(st.periods, t)

LEMMA NextKnowsEnds ==
    ASSUME NEW B, NEW first \in Int, NEW u \in Int, NEW v \in Int, first <= u, u <= v,
           StaysBetween(B, u, v),
           NEW kind, NEW now \in Int, NEW st \in WalkState, st.currently_blocked <=> u \in B,
           EndsSoFar(B, first, now, u, st),
           NEW listed, listed <=> v \in B, NEW r, NextOfKind(v, listed, kind, now, st, r)
    PROVE  EndsSoFar(B, first, now, v, r)
<1> SUFFICES ASSUME NEW t \in first + 1 .. v, now < t, EndsAt(B, t)
             PROVE  HasEnd(r.periods, t)
  BY DEF EndsSoFar
<1> DEFINE p == PeriodOfKind(st.block_start, v, kind)
           n == Len(st.periods)
<1>1. r.periods = IF v \notin B /\ st.currently_blocked /\ v > now
                  THEN Append(st.periods, p) ELSE st.periods
  BY DEF NextOfKind
<1>2. st.periods \in Seq(Period) /\ n \in Nat /\ DOMAIN st.periods = 1 .. n
  BY DEF WalkState
<1>3. p.end = v
  BY DEF PeriodOfKind
<1>4. t \in Int /\ first < t /\ t <= v
  OBVIOUS
<1> HIDE DEF p, n
<1>5. HasEnd(st.periods, t) => HasEnd(r.periods, t)
  <2>1. \A i \in 1 .. n : i \in DOMAIN r.periods /\ r.periods[i] = st.periods[i]
    BY <1>1, <1>2 DEF n
  <2> QED
    BY <1>2, <2>1 DEF HasEnd
<1>6. CASE t <= u
  <2>1. t \in first + 1 .. u
    BY <1>4, <1>6
  <2> QED
    BY <1>5, <2>1 DEF EndsSoFar
<1>7. CASE u < t /\ t < v
  <2>1. t \in B <=> t - 1 \in B
    BY <1>4, <1>7, Zenon DEF StaysBetween
  <2> QED
    BY <2>1 DEF EndsAt
<1>8. CASE u < t /\ t = v
  <2>1. v - 1 \in u .. v - 1
    BY <1>8
  <2>2. u \in B
    BY <1>8, <2>1, StaysTheSame DEF EndsAt
  <2>3. r.periods = Append(st.periods, p)
    BY <1>1, <1>8, <2>2 DEF EndsAt
  <2>4. n + 1 \in DOMAIN r.periods /\ r.periods[n + 1] = p
    BY <1>2, <2>3 DEF n
  <2> QED
    BY <1>3, <1>8, <2>4 DEF HasEnd
<1> QED
  BY <1>4, <1>6, <1>7, <1>8

(***************************************************************************)
(* The list of events tells of B from lo on until its last event.          *)
(***************************************************************************)
IsToldBy(B, events, mac, lo) ==
    /\ \A k \in DOMAIN events :
          lo <= events[k].time /\ (ListsMac(events[k], mac) <=> events[k].time \in B)
    /\ \A t \in Int :
          /\ lo < t /\ \E k \in DOMAIN events : t <= events[k].time
          /\ \A k \in DOMAIN events : events[k].time # t
          => (t \in B <=> t - 1 \in B)

Tell(B, lo, kind, now, periods) ==
    /\ \A i \in DOMAIN periods : Tells(B, lo, periods[i]) /\ IsOfKind(periods[i], kind)
    /\ \A t \in Int :
          /\ lo <= t /\ now <= t /\ t \in B
          /\ \E i \in DOMAIN periods : t < periods[i].start
          => IsWithin(periods, t) \/ AreAllIn(B, lo, t)

KnowsEnds(B, events, now, periods) ==
    \A t \in Int :
        /\ now < t /\ EndsAt(B, t)
        /\ \E k \in DOMAIN events : events[k].time < t
        /\ \E k \in DOMAIN events : t <= events[k].time
        => HasEnd(periods, t)

(* No event that matters is missing after now and before the limit.        *)
IsToldAfter(B, events, now, limit) ==
    \A t \in Int :
        now < t /\ t < limit /\ (\A k \in DOMAIN events : events[k].time # t)
        => (t \in B <=> t - 1 \in B)

LEMMA NothingBetween ==
    ASSUME NEW events \in Seq(TimelineEvent), IsInOrder(events, Order), NEW mac,
           NEW B, NEW lo \in Int, IsToldBy(B, events, mac, lo)
    PROVE  /\ events # << >> => StaysBetween(B, lo, events[1].time)
           /\ \A k \in 1 .. Len(events) - 1 : StaysBetween(B, events[k].time, events[k + 1].time)
<1>1. Len(events) \in Nat /\ DOMAIN events = 1 .. Len(events)
  OBVIOUS
<1>2. \A k \in DOMAIN events : events[k].time \in Int /\ lo <= events[k].time
  BY EventType DEF IsToldBy
<1>3. \A i, j \in DOMAIN events : i < j => events[i].time <= events[j].time
  BY InOrder
<1>4. \A i, j \in DOMAIN events : i <= j => events[i].time <= events[j].time
  BY <1>1, <1>2, <1>3
<1>5. ASSUME NEW k \in DOMAIN events, NEW t \in Int, lo < t, t < events[k].time,
             \A i \in DOMAIN events : events[i].time # t
      PROVE  t \in B <=> t - 1 \in B
  <2>1. t <= events[k].time
    BY <1>2, <1>5
  <2> QED
    BY <1>5, <2>1, Zenon DEF IsToldBy
<1>6. ASSUME events # << >>
      PROVE  StaysBetween(B, lo, events[1].time)
  <2> SUFFICES ASSUME NEW t \in Int, lo < t, t < events[1].time
               PROVE  t \in B <=> t - 1 \in B
    BY Zenon DEF StaysBetween
  <2>1. 1 \in DOMAIN events
    BY <1>6
  <2>2. \A i \in DOMAIN events : events[i].time # t
    BY <1>1, <1>2, <1>4, <2>1
  <2> QED
    BY <1>5, <2>1, <2>2
<1>7. ASSUME NEW k \in 1 .. Len(events) - 1
      PROVE  StaysBetween(B, events[k].time, events[k + 1].time)
  <2> SUFFICES ASSUME NEW t \in Int, events[k].time < t, t < events[k + 1].time
               PROVE  t \in B <=> t - 1 \in B
    BY Zenon DEF StaysBetween
  <2>1. k \in DOMAIN events /\ k + 1 \in DOMAIN events
    BY <1>1
  <2>2. \A i \in DOMAIN events : i <= k \/ k + 1 <= i
    BY <1>1
  <2>3. \A i \in DOMAIN events : events[i].time # t
    BY <1>2, <1>4, <2>1, <2>2
  <2>4. lo < t
    BY <1>2, <2>1
  <2> QED
    BY <1>5, <2>1, <2>3, <2>4
<1> QED
  BY <1>6, <1>7

LEMMA PeriodsTell ==
    ASSUME NEW events \in Seq(TimelineEvent), IsInOrder(events, Order),
           NEW kind \in BOOLEAN, AreOfKind(events, kind), NEW mac, NEW now \in Int,
           NEW B, NEW lo \in Int, IsToldBy(B, events, mac, lo)
    PROVE  /\ Tell(B, lo, kind, now, BuildPeriodsForMac(events, mac, now))
           /\ KnowsEnds(B, events, now, BuildPeriodsForMac(events, mac, now))
<1> DEFINE n == Len(events)
           time(k) == events[k].time
<1>1. n \in Nat /\ DOMAIN events = 1 .. n /\ (n # 0 => events # << >>)
  OBVIOUS
<1>2. PICK f : /\ IsWalk(f, events, mac, now)
               /\ BuildPeriodsForMac(events, mac, now) = f[n].periods
  BY BuildPeriodsWalks
<1>3. /\ \A k \in 0 .. n : f[k] \in WalkState
      /\ f[0].periods = << >> /\ ~f[0].currently_blocked /\ IsWalkOfKind(f[0], kind)
      /\ \A k \in 1 .. n : f[k] = NextEvent(events, mac, now, f[k - 1], k)
  BY <1>2 DEF IsWalk, Unblocked, IsWalkOfKind
<1>4. \A k \in 1 .. n : /\ time(k) \in Int /\ lo <= time(k)
                        /\ ListsMac(events[k], mac) <=> time(k) \in B
  BY <1>1, EventType DEF IsToldBy
<1>5. \A k \in 1 .. n - 1 : time(k) <= time(k + 1)
  <2>1. \A k \in 1 .. n - 1 : k \in DOMAIN events /\ k + 1 \in DOMAIN events /\ k < k + 1
    BY <1>1
  <2> QED
    BY <2>1, InOrder
<1>6. /\ n # 0 => StaysBetween(B, lo, time(1))
      /\ \A k \in 1 .. n - 1 : StaysBetween(B, time(k), time(k + 1))
  BY <1>1, NothingBetween
<1>7. \A k \in 1 .. n : IsWalkOfKind(f[k - 1], kind) =>
         /\ IsWalkOfKind(f[k], kind)
         /\ NextOfKind(time(k), ListsMac(events[k], mac), kind, now, f[k - 1], f[k])
  <2>1. \A k \in 1 .. n : f[k - 1] \in WalkState
    BY <1>1, <1>3
  <2> QED
    BY <1>3, <2>1, NextEventOfKind
<1> HIDE DEF n, time
<1> DEFINE T == {k \in 0 .. n : /\ IsWalkOfKind(f[k], kind)
                                /\ k # 0 => /\ WalkTells(B, lo, kind, now, time(k), f[k])
                                            /\ time(1) <= time(k)
                                            /\ EndsSoFar(B, time(1), now, time(k), f[k])}
<1>8. 0 \in T
  BY <1>1, <1>3
<1>9. ASSUME NEW k \in 0 .. n - 1, k \in T
      PROVE  k + 1 \in T
  <2>1. k + 1 \in 1 .. n /\ k + 1 \in 0 .. n /\ (k + 1) - 1 = k
    BY <1>1
  <2>2. /\ IsWalkOfKind(f[k + 1], kind)
        /\ NextOfKind(time(k + 1), ListsMac(events[k + 1], mac), kind, now, f[k], f[k + 1])
    BY <1>7, <1>9, <2>1
  <2>3. f[k] \in WalkState
    BY <1>1, <1>3
  <2>4. /\ time(k + 1) \in Int /\ lo <= time(k + 1)
        /\ ListsMac(events[k + 1], mac) <=> time(k + 1) \in B
    BY <1>4, <2>1
  <2>5. CASE k = 0
    <3>1. k + 1 = 1 /\ n # 0
      BY <1>1, <2>1, <2>5
    <3>2. /\ time(1) \in Int /\ lo <= time(1) /\ (ListsMac(events[1], mac) <=> time(1) \in B)
          /\ NextOfKind(time(1), ListsMac(events[1], mac), kind, now, f[0], f[1])
      BY <2>2, <2>4, <2>5
    <3>3. WalkTells(B, lo, kind, now, time(1), f[1])
      BY <1>3, <1>6, <3>1, <3>2, FirstTells
    <3>4. time(1) <= time(1) /\ EndsSoFar(B, time(1), now, time(1), f[1])
      BY <3>2 DEF EndsSoFar
    <3> QED
      BY <2>1, <2>2, <3>1, <3>3, <3>4
  <2>6. CASE k # 0
    <3>1. k \in 1 .. n /\ k \in 1 .. n - 1
      BY <1>1, <2>1, <2>6
    <3>2. /\ time(k) \in Int /\ lo <= time(k) /\ time(k) <= time(k + 1)
          /\ StaysBetween(B, time(k), time(k + 1)) /\ WalkTells(B, lo, kind, now, time(k), f[k])
      BY <1>4, <1>5, <1>6, <1>9, <2>6, <3>1
    <3>4. /\ time(1) \in Int /\ time(1) <= time(k) /\ EndsSoFar(B, time(1), now, time(k), f[k])
          /\ f[k].currently_blocked <=> time(k) \in B
      <4>1. 1 \in 1 .. n
        BY <1>1, <3>1
      <4> QED
        BY <1>4, <1>9, <2>6, <3>2, <4>1 DEF WalkTells
    <3>3. WalkTells(B, lo, kind, now, time(k + 1), f[k + 1])
      BY <2>2, <2>3, <2>4, <3>2, NextTells
    <3>5. EndsSoFar(B, time(1), now, time(k + 1), f[k + 1])
      BY <2>2, <2>3, <2>4, <3>2, <3>4, NextKnowsEnds
    <3>6. time(1) <= time(k + 1)
      BY <2>4, <3>2, <3>4
    <3> QED
      BY <2>1, <2>2, <3>3, <3>5, <3>6
  <2> QED
    BY <2>5, <2>6
<1>10. 0 .. n \subseteq T
  <2> HIDE DEF T
  <2> QED
    BY <1>1, <1>8, <1>9, RangeInduction
<1>11. CASE n = 0
  BY <1>1, <1>2, <1>3, <1>11 DEF Tell, KnowsEnds
<1>12. CASE n # 0
  <2> DEFINE u == time(n)
             st == f[n]
  <2>1. n \in 0 .. n /\ n \in 1 .. n
    BY <1>1, <1>12
  <2>2. /\ u \in Int /\ st \in WalkState
        /\ TellsSoFar(B, lo, kind, u, st) /\ KnowsSoFar(B, lo, now, u, st)
    BY <1>3, <1>4, <1>10, <1>12, <2>1 DEF WalkTells
  <2> HIDE DEF u, st
  <2>3. st.block_start \in Int /\ st.periods \in Seq(Period)
    BY <2>2 DEF WalkState
  <2>4. \A i \in DOMAIN st.periods : st.periods[i].start \in Int /\ st.periods[i].end \in Int
    BY <2>3, PeriodIsTyped
  <2>5. ASSUME NEW t \in Int, lo <= t, now <= t, t \in B,
               NEW i \in DOMAIN st.periods, t < st.periods[i].start
        PROVE  IsWithin(st.periods, t) \/ AreAllIn(B, lo, t)
    <3>1. /\ st.periods[i].start < st.periods[i].end /\ st.periods[i].end <= u
          /\ st.currently_blocked => st.periods[i].end < st.block_start
      BY <2>2 DEF TellsSoFar, Tells
    <3>2. t \in lo .. u /\ (st.currently_blocked => ~(st.block_start <= t))
      BY <2>2, <2>3, <2>4, <2>5, <3>1
    <3> QED
      BY <2>2, <2>5, <3>2 DEF KnowsSoFar
  <2>6. Tell(B, lo, kind, now, st.periods)
    BY <2>2, <2>5 DEF Tell, TellsSoFar
  <2>7. KnowsEnds(B, events, now, st.periods)
    <3> SUFFICES ASSUME NEW t \in Int, now < t, EndsAt(B, t),
                        NEW i \in 1 .. n, time(i) < t, NEW k \in 1 .. n, t <= time(k)
                 PROVE  HasEnd(st.periods, t)
      BY <1>1 DEF KnowsEnds, time
    <3>1. /\ 1 \in 1 .. n /\ time(1) \in Int /\ time(i) \in Int /\ time(k) \in Int
          /\ time(1) <= time(i) /\ time(k) <= time(n)
      <4>1. 1 \in 1 .. n
        BY <1>1
      <4>2. \A a, b \in 1 .. n : a < b => time(a) <= time(b)
        BY <1>1, InOrder DEF time
      <4> QED
        BY <1>1, <1>4, <2>1, <4>1, <4>2
    <3>2. t \in time(1) + 1 .. u
      BY <2>2, <3>1 DEF u
    <3>3. EndsSoFar(B, time(1), now, u, st)
      BY <1>10, <1>12, <2>1 DEF u, st
    <3> QED
      BY <3>2, <3>3 DEF EndsSoFar
  <2> QED
    BY <1>2, <2>6, <2>7 DEF st
<1> QED
  BY <1>11, <1>12

-----------------------------------------------------------------------------
(***************************************************************************)
(* The events of the weeks and of the calendar that the list holds.        *)
(***************************************************************************)
IsOfAWeek(e, s, zone, now, w) ==
    \E i \in DOMAIN s.weekly : /\ e = WeeklyEvents(s, zone, now, w)[i]
                               /\ IsIncluded(zone, now, w, e.time)

LEMMA AddWeekAdds ==
    ASSUME NEW s, HasEventLists(s), NEW zone, HasOffsets(zone), NEW now \in Int,
           NEW w \in 0 .. WeeksAhead - 1, NEW list \in Seq(TimelineEvent)
    PROVE  LET r == AddWeek(list, s, zone, now, w)
           IN  /\ r \in Seq(TimelineEvent)
               /\ ToSet(r) = ToSet(list) \cup {e \in TimelineEvent : IsOfAWeek(e, s, zone, now, w)}
<1> DEFINE events == WeeklyEvents(s, zone, now, w)
           included == {i \in DOMAIN events : IsIncluded(zone, now, w, events[i].time)}
<1>1. DOMAIN s.weekly = 1 .. Len(s.weekly) /\ Len(s.weekly) \in Nat
  BY DEF HasEventLists
<1>2. DOMAIN events = DOMAIN s.weekly
  BY DEF WeeklyEvents
<1>3. \A i \in DOMAIN s.weekly : events[i] \in TimelineEvent
  BY WeeklyEventIs
<1>4. events \in Seq(TimelineEvent)
  <2>1. events = [i \in 1 .. Len(s.weekly) |-> events[i]]
    BY <1>1 DEF WeeklyEvents
  <2> HIDE DEF events
  <2>2. events \in [1 .. Len(s.weekly) -> TimelineEvent]
    BY <1>1, <1>3, <2>1
  <2> QED
    BY <1>1, <2>2
<1>5. AddWeek(list, s, zone, now, w) = AddEvents(list, events, included)
  BY DEF AddWeek
<1>6. {e \in TimelineEvent : IsOfAWeek(e, s, zone, now, w)} = {events[i] : i \in included}
  <2> HIDE DEF events
  <2>1. \A i \in included : events[i] \in TimelineEvent /\ IsOfAWeek(events[i], s, zone, now, w)
    BY <1>2, <1>3 DEF IsOfAWeek, events
  <2>2. \A e : IsOfAWeek(e, s, zone, now, w) => \E i \in included : e = events[i]
    BY <1>2 DEF IsOfAWeek, events
  <2> QED
    BY <2>1, <2>2
<1>7. included \in SUBSET DOMAIN events
  OBVIOUS
<1> HIDE DEF events, included
<1> QED
  BY <1>4, <1>5, <1>6, <1>7, AddEventsAdds

LEMMA AddWeeksAdds ==
    ASSUME NEW s, HasEventLists(s), NEW zone, HasOffsets(zone), NEW now \in Int
    PROVE  LET r == AddWeeks(s, zone, now)
           IN  /\ r \in Seq(TimelineEvent)
               /\ ToSet(r) = {e \in TimelineEvent :
                                 \E w \in 0 .. WeeksAhead - 1 : IsOfAWeek(e, s, zone, now, w)}
<1> DEFINE S == Seq(TimelineEvent)
           of(w) == {e \in TimelineEvent : IsOfAWeek(e, s, zone, now, w)}
           until(w) == {e \in TimelineEvent : \E v \in 0 .. w - 1 : IsOfAWeek(e, s, zone, now, v)}
           I == [w \in 0 .. WeeksAhead |-> {l \in S : ToSet(l) = until(w)}]
<1>1. WeeksAhead \in Nat
  BY TimelineAssumption
<1>2. << >> \in S /\ ToSet(<< >>) = until(0)
  BY DEF ToSet
<1>3. \A w \in 1 .. WeeksAhead : until(w) = until(w - 1) \cup of(w - 1)
  <2> SUFFICES ASSUME NEW w \in 1 .. WeeksAhead
               PROVE  until(w) = until(w - 1) \cup of(w - 1)
    OBVIOUS
  <2>1. \A v : v \in 0 .. w - 1 <=> v \in 0 .. (w - 1) - 1 \/ v = w - 1
    BY <1>1
  <2> QED
    BY <2>1
<1> HIDE DEF until
<1>4. \A w \in 1 .. WeeksAhead : \A l \in S :
         LET r == AddWeek(l, s, zone, now, w - 1)
         IN  r \in S /\ ToSet(r) = ToSet(l) \cup of(w - 1)
  <2>1. \A w \in 1 .. WeeksAhead : w - 1 \in 0 .. WeeksAhead - 1
    BY <1>1
  <2> QED
    BY <2>1, AddWeekAdds
<1> HIDE DEF of
<1>5. \A w \in 0 .. WeeksAhead : I[w] = {l \in S : ToSet(l) = until(w)}
  OBVIOUS
<1> HIDE DEF I
<1>6. << >> \in I[0]
  <2>1. 0 \in 0 .. WeeksAhead
    BY <1>1
  <2> HIDE DEF S
  <2> QED
    BY <1>2, <1>5, <2>1
<1>7. \A w \in 1 .. WeeksAhead : \A l \in S :
         /\ AddWeek(l, s, zone, now, w - 1) \in S
         /\ l \in I[w - 1] => AddWeek(l, s, zone, now, w - 1) \in I[w]
  <2>1. \A w \in 1 .. WeeksAhead : w \in 0 .. WeeksAhead /\ w - 1 \in 0 .. WeeksAhead
    BY <1>1
  <2> HIDE DEF S
  <2> QED
    BY <1>3, <1>4, <1>5, <2>1
<1>8. AddWeeks(s, zone, now) \in S \cap I[WeeksAhead]
  <2> HIDE DEF S
  <2> QED
    BY <1>2, <1>6, <1>7, AddWeeksStaysIn
<1> QED
  BY <1>1, <1>5, <1>8 DEF until

LEMMA TimelineEventsAdds ==
    ASSUME NEW s, HasEventLists(s), NEW zone, HasOffsets(zone), NEW now \in Int
    PROVE  LET r == TimelineEvents(s, zone, now)
           IN  /\ r \in Seq(TimelineEvent)
               /\ ToSet(r) = {e \in TimelineEvent :
                                 \E w \in 0 .. WeeksAhead - 1 : IsOfAWeek(e, s, zone, now, w)}
                             \cup {AbsoluteEvents(s)[i] : i \in
                                      {j \in DOMAIN s.absolute : IsRecent(s, now, s.absolute[j].time)}}
<1> DEFINE list == AddWeeks(s, zone, now)
           events == AbsoluteEvents(s)
           included == {i \in DOMAIN events : IsRecent(s, now, events[i].time)}
<1>1. list \in Seq(TimelineEvent)
      /\ ToSet(list) = {e \in TimelineEvent :
                           \E w \in 0 .. WeeksAhead - 1 : IsOfAWeek(e, s, zone, now, w)}
  BY AddWeeksAdds
<1>2. DOMAIN s.absolute = 1 .. Len(s.absolute) /\ Len(s.absolute) \in Nat
  BY DEF HasEventLists
<1>3. DOMAIN events = DOMAIN s.absolute
  BY DEF AbsoluteEvents
<1>4. \A i \in DOMAIN s.absolute : events[i] \in TimelineEvent /\ events[i].time = s.absolute[i].time
  BY AbsoluteEventIs
<1>5. events \in Seq(TimelineEvent)
  <2>1. events = [i \in 1 .. Len(s.absolute) |-> events[i]]
    BY <1>2 DEF AbsoluteEvents
  <2> HIDE DEF events
  <2>2. events \in [1 .. Len(s.absolute) -> TimelineEvent]
    BY <1>2, <1>4, <2>1
  <2> QED
    BY <1>2, <2>2
<1>6. included = {j \in DOMAIN s.absolute : IsRecent(s, now, s.absolute[j].time)}
  BY <1>3, <1>4
<1>7. TimelineEvents(s, zone, now) = AddEvents(list, events, included)
  BY DEF TimelineEvents, AddAbsolute
<1>8. included \in SUBSET DOMAIN events
  OBVIOUS
<1>9. LET r == AddEvents(list, events, included)
      IN  r \in Seq(TimelineEvent) /\ ToSet(r) = ToSet(list) \cup {events[i] : i \in included}
  <2> HIDE DEF list, events, included
  <2> QED
    BY <1>1, <1>5, <1>8, AddEventsAdds
<1> QED
  BY <1>1, <1>6, <1>7, <1>9

(***************************************************************************)
(* A block list names the MACs that an event lists, if the schedule knows  *)
(* all of them and each by one index.                                      *)
(***************************************************************************)
KnowsItsMacs(s) ==
    /\ \A i, j \in DOMAIN s.macs : s.macs[i] = s.macs[j] => i = j
    /\ \A list \in {s.weekly, s.absolute} : \A k \in DOMAIN list :
          \A i \in DOMAIN list[k].block : list[k].block[i] \in DOMAIN s.macs

BlockedTimes(s, zone, mac) ==
    {t \in Int : s.macs[mac] \in ToSet(GetBlockedAtTime(s, zone, t))}

LEMMA BlocksWhatIsListed ==
    ASSUME NEW s, KnowsItsMacs(s), NEW mac \in DOMAIN s.macs,
           NEW list \in {s.weekly, s.absolute}, NEW k \in DOMAIN list
    PROVE  s.macs[mac] \in ToSet(BlockList(s, list[k])) <=> ListsMac(list[k], mac)
<1> DEFINE b == list[k].block
<1>1. \A i \in DOMAIN b : b[i] \in DOMAIN s.macs
  BY DEF KnowsItsMacs
<1>2. BlockList(s, list[k]) = [i \in DOMAIN b |-> s.macs[b[i]]]
  BY <1>1 DEF BlockList
<1>3. \A i \in DOMAIN b : s.macs[b[i]] = s.macs[mac] <=> b[i] = mac
  BY <1>1 DEF KnowsItsMacs
<1> QED
  BY <1>2, <1>3 DEF ToSet, ListsMac

(***************************************************************************)
(* The list of a weekly schedule tells of the whole of its weeks.          *)
(***************************************************************************)
LEMMA WeeksInOrder ==
    ASSUME NEW v \in Int, NEW w \in Int, v < w
    PROVE  v * Week + Week <= w * Week
<1>1. Week \in Nat /\ w - v - 1 \in Nat
  BY WeekAssumption
<1>2. (w - v - 1) * Week \in Nat
  BY <1>1
<1>3. w * Week = (w - v - 1) * Week + v * Week + Week
  BY <1>1
<1>4. v * Week \in Int /\ w * Week \in Int
  BY <1>1
<1> QED
  BY <1>1, <1>2, <1>3, <1>4

LEMMA EventOfWeekIs ==
    ASSUME NEW s, HasEventLists(s), IsWeeklyOnly(s), NEW zone, HasOneOffset(zone),
           NEW now \in Int, NEW w \in 0 .. WeeksAhead - 1, NEW i \in DOMAIN s.weekly
    PROVE  LET e == WeeklyEvents(s, zone, now, w)[i]
           IN  /\ e \in TimelineEvent /\ ~e.absolute /\ e.block = s.weekly[i].block
               /\ e.time = WeekStart(zone, now) + w * Week + s.weekly[i].time
<1>1. WeeksAhead \in Nat /\ w \in Int
  BY TimelineAssumption
<1>2. WeekStart(zone, now + w * Week) = WeekStart(zone, now) + w * Week
  BY <1>1, WeekAfterWeek
<1> QED
  BY <1>2, WeeklyEventIs DEF HasOneOffset

LEMMA WeeklyIsTold ==
    ASSUME NEW s, HasEventLists(s), IsWeeklyOnly(s), KnowsItsMacs(s),
           NEW zone, HasOneOffset(zone), NEW now \in Int, NEW mac \in DOMAIN s.macs
    PROVE  LET events == TimelineEvents(s, zone, now)
           IN  /\ AreOfKind(events, FALSE)
               /\ IsToldBy(BlockedTimes(s, zone, mac), events, mac, WeekStart(zone, now) - 1)
               /\ IsToldAfter(BlockedTimes(s, zone, mac), events, now,
                              WeekStart(zone, now) + WeeksAhead * Week)
<1> DEFINE events == TimelineEvents(s, zone, now)
           l == s.weekly
           W == WeekStart(zone, now)
           B == BlockedTimes(s, zone, mac)
           weeks == WeeksAhead * Week
<1>1. /\ l \in Seq(ScheduleEvent) /\ l # << >> /\ s.absolute = << >>
      /\ IsFinal(l) /\ HasOffsets(zone) /\ Week \in Nat /\ Week > 0
      /\ WeeksAhead \in Nat /\ weeks \in Int
  BY WeekAssumption, TimelineAssumption DEF IsWeeklyOnly, HasOneOffset
<1>2. W \in Int /\ W <= now /\ now < W + Week /\ IsInSomeWeek(W)
  BY WeekHas
<1>3. \A i \in DOMAIN l : l[i].time \in Int /\ l[i].time < Week
  BY <1>1, FinalWeekIs
<1>4. /\ events \in Seq(TimelineEvent)
      /\ ToSet(events) = {e \in TimelineEvent :
                             \E w \in 0 .. WeeksAhead - 1 : IsOfAWeek(e, s, zone, now, w)}
  <2>1. {AbsoluteEvents(s)[i] : i \in
            {j \in DOMAIN s.absolute : IsRecent(s, now, s.absolute[j].time)}} = {}
    BY <1>1
  <2> QED
    BY <1>1, <2>1, TimelineEventsAdds
<1> HIDE DEF events
<1>5. \A k \in DOMAIN events : \E w \in 0 .. WeeksAhead - 1 : IsOfAWeek(events[k], s, zone, now, w)
  BY <1>4 DEF ToSet
<1>6. ASSUME NEW w \in 0 .. WeeksAhead - 1, NEW i \in DOMAIN l
      PROVE  LET e == WeeklyEvents(s, zone, now, w)[i]
             IN  /\ e \in TimelineEvent /\ ~e.absolute /\ e.block = l[i].block
                 /\ e.time = W + w * Week + l[i].time
  BY EventOfWeekIs
<1>7. ASSUME NEW w \in 0 .. WeeksAhead - 1, NEW i \in DOMAIN l
      PROVE  ListsMac(l[i], mac) <=> W + w * Week + l[i].time \in B
  <2>1. w \in Int /\ W + w * Week + l[i].time \in Int
    <3>1. w \in Int /\ w * Week \in Int
      BY <1>1
    <3> QED
      BY <1>2, <1>3, <3>1
  <2>2. GetBlockedAtTime(s, zone, W + w * Week + l[i].time) = BlockList(s, l[i])
    BY <2>1, WeeklyAtEvent
  <2>3. s.macs[mac] \in ToSet(BlockList(s, l[i])) <=> ListsMac(l[i], mac)
    BY BlocksWhatIsListed
  <2> QED
    BY <2>1, <2>2, <2>3 DEF BlockedTimes
<1>8. ASSUME NEW k \in DOMAIN events
      PROVE  /\ ~events[k].absolute /\ W <= events[k].time /\ events[k].time <= now + weeks
             /\ events[k].time < W + weeks
             /\ ListsMac(events[k], mac) <=> events[k].time \in B
  <2>1. PICK w \in 0 .. WeeksAhead - 1, i \in DOMAIN l :
             /\ events[k] = WeeklyEvents(s, zone, now, w)[i]
             /\ IsIncluded(zone, now, w, events[k].time)
    BY <1>5 DEF IsOfAWeek
  <2> DEFINE e == events[k]
             d == w * Week
  <2>2. ~e.absolute /\ e.block = l[i].block /\ e.time = W + d + l[i].time
    BY <1>6, <2>1
  <2>3. ListsMac(e, mac) <=> e.time \in B
    BY <1>7, <2>2 DEF ListsMac
  <2>4. d \in Int /\ d + Week <= weeks
    <3>1. w \in Int /\ w < WeeksAhead /\ WeeksAhead \in Int
      BY <1>1
    <3> QED
      BY <1>1, <3>1, WeeksInOrder
  <2> HIDE DEF d, W, weeks, e
  <2>5. e.time \in Int /\ e.time < W + weeks
    BY <1>1, <1>2, <1>3, <2>2, <2>4
  <2>6. e.time <= now + weeks /\ IF w = 0 THEN e.time >= W ELSE e.time > now
    BY <2>1 DEF IsIncluded, FutureLimit, e, W, weeks
  <2> QED
    BY <1>2, <2>2, <2>3, <2>5, <2>6 DEF e
<1>9. ASSUME NEW t \in Int, W - 1 < t, t < W + weeks,
             \A j \in DOMAIN events : events[j].time # t
      PROVE  t \in B <=> t - 1 \in B
  <2>1. PICK v \in Int, r \in 0 .. Week - 1 : t = W + v * Week + r
    BY <1>2, Zenon DEF IsInSomeWeek
  <2> DEFINE d == v * Week
  <2>2. d \in Int /\ (v < 0 => d + Week <= 0) /\ (WeeksAhead <= v => weeks <= d)
        /\ (0 < v => Week <= d)
    <3>1. d \in Int /\ WeeksAhead \in Int
      BY <1>1
    <3>2. v < 0 => d + Week <= 0 * Week
      BY WeeksInOrder
    <3>3. WeeksAhead < v => weeks + Week <= d
      BY <3>1, WeeksInOrder
    <3>4. 0 < v => 0 * Week + Week <= d
      BY WeeksInOrder
    <3>5. 0 * Week = 0 /\ (WeeksAhead = v => weeks = d)
      BY <1>1
    <3>6. WeeksAhead <= v => WeeksAhead < v \/ WeeksAhead = v
      BY <3>1
    <3> HIDE DEF d, weeks
    <3> QED
      BY <1>1, <3>1, <3>2, <3>3, <3>4, <3>5, <3>6
  <2>3. t = W + d + r
    BY <2>1
  <2> HIDE DEF d, W, weeks
  <2>4. 0 <= v
    <3>1. v < 0 => FALSE
      BY <1>1, <1>2, <1>9, <2>2, <2>3
    <3> QED
      BY <3>1
  <2>5. v < WeeksAhead
    <3>1. WeeksAhead <= v => FALSE
      BY <1>1, <1>2, <1>9, <2>2, <2>3
    <3> QED
      BY <1>1, <3>1
  <2>6. v \in 0 .. WeeksAhead - 1 /\ IsIncluded(zone, now, v, t)
    <3>1. v \in 0 .. WeeksAhead - 1
      BY <1>1, <2>4, <2>5
    <3>2. t <= now + weeks
      BY <1>1, <1>2, <1>9
    <3>3. IF v = 0 THEN t >= W ELSE t > now
      <4>1. v # 0 => Week <= d
        BY <2>2, <2>4
      <4>2. v # 0 => t > now
        BY <1>1, <1>2, <2>2, <2>3, <4>1
      <4>3. t >= W
        BY <1>2, <1>9
      <4> QED
        BY <4>2, <4>3
    <3> QED
      BY <3>1, <3>2, <3>3 DEF IsIncluded, FutureLimit, W, weeks
  <2>7. ASSUME NEW i \in DOMAIN l, l[i].time = r
        PROVE  FALSE
    <3> DEFINE e == WeeklyEvents(s, zone, now, v)[i]
    <3>1. e \in TimelineEvent /\ e.time = t
      BY <1>6, <2>1, <2>6, <2>7 DEF W
    <3>2. IsOfAWeek(e, s, zone, now, v)
      BY <2>6, <3>1 DEF IsOfAWeek
    <3>3. e \in ToSet(events)
      BY <1>4, <2>6, <3>1, <3>2
    <3> HIDE DEF e
    <3> QED
      BY <1>9, <3>1, <3>3 DEF ToSet
  <2>8. GetBlockedAtTime(s, zone, t) = GetBlockedAtTime(s, zone, t - 1)
    <3>1. \A i \in DOMAIN s.weekly : s.weekly[i].time # r
      BY <2>7
    <3>2. LET u == WeekStart(zone, now) + v * Week + r
          IN  GetBlockedAtTime(s, zone, u) = GetBlockedAtTime(s, zone, u - 1)
      BY <3>1, WeeklyBetween
    <3> QED
      BY <2>1, <3>2 DEF W
  <2> QED
    BY <2>8 DEF BlockedTimes
<1>10. AreOfKind(events, FALSE)
  <2>1. \A k \in DOMAIN events : events[k].absolute \in BOOLEAN
    BY <1>4, EventType
  <2> QED
    BY <1>8, <2>1 DEF AreOfKind
<1>11. \A k \in DOMAIN events : events[k].time \in Int
  BY <1>4, EventType
<1> HIDE DEF B, W
<1>12. \A k \in DOMAIN events : W - 1 <= events[k].time
  BY <1>2, <1>8, <1>11
<1>13. \A t \in Int : (\E k \in DOMAIN events : t <= events[k].time) => t < W + weeks
  <2> HIDE DEF weeks
  <2> QED
    BY <1>1, <1>2, <1>8, <1>11
<1> HIDE DEF weeks
<1>14. IsToldBy(B, events, mac, W - 1)
  BY <1>8, <1>9, <1>12, <1>13, Zenon DEF IsToldBy
<1>15. \A t \in Int : now < t => W - 1 < t
  BY <1>2
<1>16. IsToldAfter(B, events, now, W + weeks)
  BY <1>9, <1>15, Zenon DEF IsToldAfter
<1> QED
  BY <1>10, <1>14, <1>16 DEF events, B, W, weeks

(***************************************************************************)
(* The list of a calendar tells of it from its first event on: the events  *)
(* that are too old, or too far ahead, are not between others.             *)
(***************************************************************************)
LEMMA AbsoluteIsTold ==
    ASSUME NEW s, HasEventLists(s), s.weekly = << >>, IsStrict(s.absolute), KnowsItsMacs(s),
           NEW zone, HasOffsets(zone), NEW now \in Int, NEW mac \in DOMAIN s.macs
    PROVE  LET events == TimelineEvents(s, zone, now)
           IN  /\ AreOfKind(events, TRUE)
               /\ \E lo \in Int : IsToldBy(BlockedTimes(s, zone, mac), events, mac, lo)
<1> DEFINE events == TimelineEvents(s, zone, now)
           l == s.absolute
           B == BlockedTimes(s, zone, mac)
           limit == FutureLimit(now)
           lo == IF events = << >> THEN 0 ELSE events[1].time
<1>1. /\ l \in Seq(ScheduleEvent) /\ DOMAIN s.weekly = {}
      /\ \A i \in DOMAIN l : l[i].time \in Int /\ IsAbsoluteOnly(s)
  BY TimeIsInt DEF HasEventLists, IsAbsoluteOnly
<1>2. limit \in Int /\ Tolerance \in Nat
  BY WeekAssumption, TimelineAssumption DEF FutureLimit
<1>3. /\ events \in Seq(TimelineEvent) /\ IsInOrder(events, Order)
      /\ ToSet(events) = {AbsoluteEvents(s)[i] : i \in
                             {j \in DOMAIN l : IsRecent(s, now, l[j].time)}}
  <2>1. \A e, w : ~IsOfAWeek(e, s, zone, now, w)
    BY <1>1 DEF IsOfAWeek
  <2>2. IsInOrder(events, Order)
    BY TimelineEventsAre
  <2>3. {e \in TimelineEvent : \E w \in 0 .. WeeksAhead - 1 : IsOfAWeek(e, s, zone, now, w)} = {}
    BY <2>1
  <2> QED
    BY <2>2, <2>3, TimelineEventsAdds
<1>4. \A i \in DOMAIN l : LET e == AbsoluteEvents(s)[i]
                          IN  /\ e \in TimelineEvent /\ e.absolute /\ e.time = l[i].time
                              /\ e.block = l[i].block
  BY <1>1, AbsoluteEventIs DEF AbsoluteEvents
<1> HIDE DEF events, limit
<1>5. ASSUME NEW i \in DOMAIN l
      PROVE  ListsMac(l[i], mac) <=> l[i].time \in B
  <2>1. GetBlockedAtTime(s, zone, l[i].time) = BlockList(s, l[i])
    BY <1>1, AbsoluteAtEvent
  <2>2. s.macs[mac] \in ToSet(BlockList(s, l[i])) <=> ListsMac(l[i], mac)
    BY BlocksWhatIsListed
  <2> QED
    BY <1>1, <2>1, <2>2 DEF BlockedTimes
<1>6. ASSUME NEW k \in DOMAIN events
      PROVE  /\ events[k].absolute /\ events[k].time \in Int
             /\ IsRecent(s, now, events[k].time)
             /\ ListsMac(events[k], mac) <=> events[k].time \in B
  <2>1. events[k] \in ToSet(events)
    BY DEF ToSet
  <2>2. PICK i \in DOMAIN l : events[k] = AbsoluteEvents(s)[i] /\ IsRecent(s, now, l[i].time)
    BY <1>3, <2>1
  <2>3. /\ events[k].absolute /\ events[k].time = l[i].time /\ events[k].block = l[i].block
    BY <1>4, <2>2
  <2> QED
    BY <1>1, <1>5, <2>2, <2>3 DEF ListsMac
<1>7. \A k \in DOMAIN events : 1 \in DOMAIN events /\ lo = events[1].time /\ lo <= events[k].time
  <2> SUFFICES ASSUME NEW k \in DOMAIN events
               PROVE  1 \in DOMAIN events /\ lo = events[1].time /\ lo <= events[k].time
    OBVIOUS
  <2>1. 1 \in DOMAIN events /\ lo = events[1].time /\ (k = 1 \/ 1 < k)
    BY <1>3
  <2>2. 1 < k => events[1].time <= events[k].time
    BY <1>3, <2>1, InOrder
  <2> QED
    BY <1>6, <2>1, <2>2
<1>8. lo \in Int
  <2>1. events # << >> => 1 \in DOMAIN events
    BY <1>3
  <2> QED
    BY <1>6, <2>1
<1> HIDE DEF lo
<1>9. ASSUME NEW t \in Int, lo < t, NEW k \in DOMAIN events, t <= events[k].time,
             \A j \in DOMAIN events : events[j].time # t
      PROVE  t \in B <=> t - 1 \in B
  <2>1. events[k].time \in Int /\ events[k].time <= limit
    BY <1>6 DEF IsRecent, limit
  <2>2. t <= limit
    BY <1>2, <1>9, <2>1
  <2>3. 1 \in DOMAIN events /\ lo = events[1].time /\ IsRecent(s, now, lo)
    BY <1>6, <1>7
  <2>4. t \in Times(l) => t >= now - Tolerance
    <3>1. CASE lo >= now - Tolerance
      BY <1>2, <1>8, <1>9, <3>1
    <3>2. CASE ~(lo >= now - Tolerance)
      <4>1. \A u \in Times(l) : u <= now => u <= lo
        BY <2>3, <3>2 DEF IsRecent
      <4>2. lo >= now - Tolerance \/ lo <= now
        BY <1>2, <1>8
      <4>3. t \in Times(l) => t > now
        BY <1>8, <1>9, <4>1
      <4> QED
        BY <1>2, <4>3
    <3> QED
      BY <3>1, <3>2
  <2>5. ASSUME NEW i \in DOMAIN l, l[i].time = t
        PROVE  FALSE
    <3> DEFINE e == AbsoluteEvents(s)[i]
    <3>1. IsRecent(s, now, l[i].time)
      <4>1. t \in Times(l)
        BY <2>5 DEF Times
      <4> QED
        BY <2>2, <2>4, <2>5, <4>1 DEF IsRecent, limit
    <3>2. e \in ToSet(events) /\ e.time = t
      BY <1>3, <1>4, <2>5, <3>1
    <3> HIDE DEF e
    <3> QED
      BY <1>9, <3>2 DEF ToSet
  <2>6. IsAbsoluteOnly(s)
    <3>1. DOMAIN l # {}
      <4>1. events[k] \in ToSet(events)
        BY DEF ToSet
      <4> QED
        BY <1>3, <4>1
    <3> QED
      BY <1>1, <3>1
  <2>7. GetBlockedAtTime(s, zone, t) = GetBlockedAtTime(s, zone, t - 1)
    BY <2>5, <2>6, AbsoluteBetween
  <2> QED
    BY <2>7 DEF BlockedTimes
<1>10. AreOfKind(events, TRUE)
  <2>1. \A k \in DOMAIN events : events[k].absolute \in BOOLEAN
    BY <1>3, EventType
  <2> QED
    BY <1>6, <2>1 DEF AreOfKind
<1> HIDE DEF B
<1>11. IsToldBy(B, events, mac, lo)
  BY <1>6, <1>7, <1>9, Zenon DEF IsToldBy
<1> QED
  BY <1>8, <1>10, <1>11 DEF events, B

(***************************************************************************)
(* A timeline tells what the firewall is told, if the schedule is of one   *)
(* kind: a weekly one from the second before the week in which the         *)
(* timeline was built, a calendar from its first event on.                 *)
(***************************************************************************)
TellsOfSchedule(s, zone, now, mac, periods) ==
    \/ /\ s.absolute = << >>
       /\ Tell(BlockedTimes(s, zone, mac), WeekStart(zone, now) - 1, FALSE, now, periods)
    \/ /\ s.weekly = << >>
       /\ \E lo \in Int : Tell(BlockedTimes(s, zone, mac), lo, TRUE, now, periods)

LEMMA TimelineTells ==
    ASSUME NEW s, HasEventLists(s), HasMacs(s), HasNoDuplicates(s), KnowsItsMacs(s),
           s.weekly = << >> \/ s.absolute = << >>,
           NEW zone, HasOneOffset(zone), NEW now \in Int, NEW mac \in DOMAIN s.macs
    PROVE  TellsOfSchedule(s, zone, now, mac, BuildTimelineFromSchedule(s, zone, now)[mac])
<1> DEFINE events == TimelineEvents(s, zone, now)
           B == BlockedTimes(s, zone, mac)
           W == WeekStart(zone, now)
           periods == BuildTimelineFromSchedule(s, zone, now)[mac]
           built == BuildPeriodsForMac(events, mac, now)
<1>1. HasOffsets(zone) /\ IsStrict(s.absolute) /\ IsStrict(s.weekly) /\ IsFinal(s.weekly)
  BY DEF HasOneOffset, HasNoDuplicates
<1>2. events \in Seq(TimelineEvent) /\ IsInOrder(events, Order)
  BY <1>1, TimelineEventsAre, TimelineEventsAdds
<1>3. periods = << >> \/ periods = built
  BY DEF BuildTimelineFromSchedule
<1>4. Tell(B, W - 1, FALSE, now, << >>) /\ Tell(B, 0, TRUE, now, << >>)
  BY DEF Tell
<1> HIDE DEF periods, built, events
<1>5. CASE s.weekly = << >>
  <2>1. AreOfKind(events, TRUE) /\ \E lo \in Int : IsToldBy(B, events, mac, lo)
    BY <1>1, <1>5, AbsoluteIsTold DEF events
  <2>2. PICK lo \in Int : IsToldBy(B, events, mac, lo)
    BY <2>1
  <2> HIDE DEF B
  <2>3. Tell(B, lo, TRUE, now, built)
    BY <1>2, <2>1, <2>2, PeriodsTell DEF built
  <2>4. \E x \in Int : Tell(B, x, TRUE, now, periods)
    <3>1. CASE periods = << >>
      <4>1. Tell(B, 0, TRUE, now, periods)
        BY <1>4, <3>1 DEF B
      <4>2. 0 \in Int
        OBVIOUS
      <4> QED
        BY <4>1, <4>2, Zenon
    <3>2. CASE periods = built
      BY <2>3, <3>2
    <3> QED
      BY <1>3, <3>1, <3>2
  <2> QED
    BY <1>5, <2>4 DEF TellsOfSchedule, B, periods
<1>6. CASE s.weekly # << >>
  <2>1. s.absolute = << >> /\ IsWeeklyOnly(s)
    BY <1>1, <1>6 DEF IsWeeklyOnly, HasEventLists
  <2>2. AreOfKind(events, FALSE) /\ IsToldBy(B, events, mac, W - 1)
    BY <2>1, WeeklyIsTold DEF events
  <2>3. W - 1 \in Int
    BY WeekHas
  <2> HIDE DEF B, W
  <2>4. Tell(B, W - 1, FALSE, now, built)
    BY <1>2, <2>2, <2>3, PeriodsTell DEF built
  <2>5. Tell(B, W - 1, FALSE, now, periods)
    BY <1>3, <1>4, <2>4
  <2> QED
    BY <2>1, <2>5 DEF TellsOfSchedule, B, W, periods
<1> QED
  BY <1>5, <1>6

LEMMA MarkingKeepsTelling ==
    ASSUME NEW a \in Seq(Period), NEW b \in Seq(Period), Len(a) = Len(b),
           \A k \in DOMAIN a : SamePeriod(b[k], a[k]),
           NEW B, NEW lo, NEW kind, NEW now, Tell(B, lo, kind, now, a)
    PROVE  Tell(B, lo, kind, now, b)
<1>1. DOMAIN b = DOMAIN a
  OBVIOUS
<1>2. \A k \in DOMAIN a :
         /\ b[k].start = a[k].start /\ b[k].end = a[k].end
         /\ b[k].start_is_absolute = a[k].start_is_absolute
         /\ b[k].end_is_absolute = a[k].end_is_absolute
  BY DEF SamePeriod
<1>3. \A k \in DOMAIN a : Tells(B, lo, b[k]) /\ IsOfKind(b[k], kind)
  BY <1>2 DEF Tell, Tells, IsOfKind
<1>4. \A t : IsWithin(a, t) <=> IsWithin(b, t)
  BY <1>1, <1>2 DEF IsWithin
<1>5. \A t : (\E i \in DOMAIN a : t < a[i].start) <=> (\E i \in DOMAIN b : t < b[i].start)
  BY <1>1, <1>2
<1> QED
  BY <1>1, <1>3, <1>4, <1>5 DEF Tell

-----------------------------------------------------------------------------
(***************************************************************************)
(* A timeline knows each end of a block of its weeks that is still to      *)
(* come, unless the block is carried over from an earlier week.            *)
(***************************************************************************)
LEMMA AbsoluteEnds ==
    ASSUME NEW s, HasEventLists(s), s.weekly = << >>, IsStrict(s.absolute),
           NEW zone, HasOffsets(zone), NEW now \in Int, NEW mac \in DOMAIN s.macs,
           NEW t \in Int, now < t, t <= FutureLimit(now),
           EndsAt(BlockedTimes(s, zone, mac), t)
    PROVE  LET events == TimelineEvents(s, zone, now)
           IN  /\ \E k \in DOMAIN events : events[k].time < t
               /\ \E k \in DOMAIN events : t <= events[k].time
<1> DEFINE events == TimelineEvents(s, zone, now)
           l == s.absolute
           limit == FutureLimit(now)
           blocked(u) == GetBlockedAtTime(s, zone, u)
           r == Reached(l, t - 1)
<1>1. /\ l \in Seq(ScheduleEvent) /\ DOMAIN l = 1 .. Len(l) /\ Len(l) \in Nat
      /\ t - 1 \in Int /\ limit \in Int /\ Tolerance \in Nat
  BY WeekAssumption, TimelineAssumption DEF HasEventLists, FutureLimit
<1>2. s.macs[mac] \in ToSet(blocked(t - 1)) /\ s.macs[mac] \notin ToSet(blocked(t))
  BY <1>1 DEF EndsAt, BlockedTimes
<1>3. blocked(t - 1) # << >> /\ blocked(t - 1) # blocked(t)
  BY <1>2 DEF ToSet
<1> HIDE DEF blocked
<1>4. IsAbsoluteOnly(s)
  <2>1. l = << >> => blocked(t - 1) = << >>
    BY DEF GetBlockedAtTime, blocked
  <2> QED
    BY <1>1, <1>3, <2>1 DEF IsAbsoluteOnly
<1>5. PICK i \in DOMAIN l : l[i].time = t
  BY <1>3, <1>4, AbsoluteBetween DEF blocked
<1>6. r \in DOMAIN l /\ l[r].time \in Int /\ IsReached(l, t - 1, r)
  <2>1. IsReached(l, t - 1, r)
    BY <1>1, <1>4, ReachedStops DEF IsAbsoluteOnly
  <2> QED
    BY <1>1, <2>1, TimeIsInt DEF IsReached
<1>7. l[r].time <= t - 1
  BY <1>1, <1>3, <1>4, <1>6, AbsoluteOnlyBlocks DEF blocked
<1> HIDE DEF r
<1>8. \A j \in DOMAIN l : l[j].time <= t - 1 => l[j].time <= l[r].time
  <2> SUFFICES ASSUME NEW j \in DOMAIN l, l[j].time <= t - 1, ~(l[j].time <= l[r].time)
               PROVE  FALSE
    OBVIOUS
  <2>1. l[j].time \in Int /\ \A a, b \in DOMAIN l : a < b => l[a].time < l[b].time
    BY <1>1, TimeIsInt DEF IsStrict
  <2>2. r < j
    <3>1. j < r => l[j].time < l[r].time
      BY <1>6, <2>1
    <3> QED
      BY <1>1, <1>6, <2>1, <3>1
  <2>3. r + 1 \in DOMAIN l /\ r < Len(l) /\ (r + 1 = j \/ r + 1 < j)
    BY <1>1, <1>6, <2>2
  <2>4. l[r + 1].time \in Int /\ l[r + 1].time > t - 1 /\ l[r + 1].time <= l[j].time
    BY <1>1, <1>6, <2>1, <2>3, TimeIsInt DEF IsReached
  <2> QED
    BY <1>1, <2>1, <2>4
<1>9. IsRecent(s, now, l[i].time) /\ IsRecent(s, now, l[r].time)
  <2>1. IsRecent(s, now, l[i].time)
    <3>1. l[i].time >= now - Tolerance /\ l[i].time <= limit
      BY <1>1, <1>5
    <3> QED
      BY <3>1, Zenon DEF IsRecent, limit
  <2>2. l[r].time <= limit
    BY <1>1, <1>6, <1>7
  <2>3. CASE l[r].time > now
    <3>1. l[r].time >= now - Tolerance
      BY <1>1, <1>6, <2>3
    <3> QED
      BY <2>1, <2>2, <3>1, Zenon DEF IsRecent, limit
  <2>4. CASE l[r].time <= now
    <3>1. \A u \in Times(l) : u <= now => u <= l[r].time
      <4> SUFFICES ASSUME NEW j \in DOMAIN l, l[j].time <= now
                   PROVE  l[j].time <= l[r].time
        BY DEF Times
      <4>1. l[j].time <= t - 1
        BY <1>1, TimeIsInt
      <4> QED
        BY <1>8, <4>1
    <3>2. l[r].time \in Times(l)
      BY <1>6 DEF Times
    <3> QED
      BY <2>1, <2>2, <2>4, <3>1, <3>2, Zenon DEF IsRecent, limit
  <2> QED
    BY <1>6, <2>1, <2>3, <2>4
<1>10. ASSUME NEW j \in DOMAIN l, IsRecent(s, now, l[j].time)
       PROVE  \E k \in DOMAIN events : events[k].time = l[j].time
  <2> DEFINE e == AbsoluteEvents(s)[j]
  <2>1. e \in ToSet(events)
    BY <1>10, TimelineEventsAdds
  <2>2. e.time = l[j].time
    BY DEF AbsoluteEvents
  <2> HIDE DEF e, events
  <2> QED
    BY <2>1, <2>2 DEF ToSet
<1> HIDE DEF events
<1>11. PICK a \in DOMAIN events : events[a].time = l[r].time
  BY <1>6, <1>9, <1>10
<1>12. PICK b \in DOMAIN events : events[b].time = l[i].time
  BY <1>9, <1>10
<1>13. events[a].time < t /\ t <= events[b].time
  BY <1>5, <1>6, <1>7, <1>11, <1>12
<1> QED
  BY <1>13 DEF events

LEMMA MarkingKeepsEnds ==
    ASSUME NEW a \in Seq(Period), NEW b \in Seq(Period), Len(a) = Len(b),
           \A k \in DOMAIN a : SamePeriod(b[k], a[k]),
           NEW t, HasEnd(a, t)
    PROVE  HasEnd(b, t)
<1>1. DOMAIN b = DOMAIN a
  OBVIOUS
<1> QED
  BY <1>1 DEF HasEnd, SamePeriod

LEMMA AlwaysBlocked ==
    ASSUME NEW s, IsWeeklyOnly(s), KnowsItsMacs(s), NEW zone, HasOffsets(zone),
           NEW mac \in DOMAIN s.macs, IsIndefinitelyBlocked(s, mac), NEW t \in Int
    PROVE  t \in BlockedTimes(s, zone, mac)
<1> DEFINE l == s.weekly
           k == Reached(l, Weekly(zone, t))
<1>1. Weekly(zone, t) \in Int
  BY WeekAssumption DEF HasOffsets, Weekly
<1>2. k \in DOMAIN l
  <2>1. IsReached(l, Weekly(zone, t), k)
    BY <1>1, ReachedStops DEF IsWeeklyOnly
  <2> QED
    BY <2>1 DEF IsReached
<1>3. GetBlockedAtTime(s, zone, t) = BlockList(s, l[k])
  BY WeeklyOnlyBlocks
<1> HIDE DEF k
<1>4. s.macs[mac] \in ToSet(BlockList(s, l[k])) <=> ListsMac(l[k], mac)
  BY <1>2, BlocksWhatIsListed
<1>5. ListsMac(l[k], mac)
  BY <1>2 DEF IsIndefinitelyBlocked
<1> QED
  BY <1>3, <1>4, <1>5 DEF BlockedTimes

KnowsEndsOf(s, zone, now, mac, periods) ==
    \A t \in Int :
        /\ now < t /\ t < WeekStart(zone, now) + WeeksAhead * Week
        /\ EndsAt(BlockedTimes(s, zone, mac), t)
        /\ s.absolute = << >> =>
              ~AreAllIn(BlockedTimes(s, zone, mac), WeekStart(zone, now) - 1, t - 1)
        => HasEnd(periods, t)

LEMMA WeeklyEnds ==
    ASSUME NEW events \in Seq(TimelineEvent), NEW mac, NEW now \in Int, NEW B,
           NEW lo \in Int, lo <= now, NEW limit \in Int,
           IsToldBy(B, events, mac, lo), IsToldAfter(B, events, now, limit),
           NEW t \in Int, now < t, t < limit, EndsAt(B, t), ~AreAllIn(B, lo, t - 1)
    PROVE  /\ \E k \in DOMAIN events : events[k].time < t
           /\ \E k \in DOMAIN events : t <= events[k].time
<1>1. PICK k \in DOMAIN events : events[k].time = t
  <2>1. ~(t \in B <=> t - 1 \in B)
    BY DEF EndsAt
  <2> QED
    BY <2>1, Zenon DEF IsToldAfter
<1>2. t <= events[k].time
  BY <1>1
<1>3. ASSUME \A i \in DOMAIN events : ~(events[i].time < t)
      PROVE  FALSE
  <2>1. \A i \in DOMAIN events : events[i].time \in Int
    BY EventType
  <2>2. StaysBetween(B, lo, t)
    <3> SUFFICES ASSUME NEW x \in Int, lo < x, x < t
                 PROVE  x \in B <=> x - 1 \in B
      BY Zenon DEF StaysBetween
    <3>1. x <= events[k].time /\ \A i \in DOMAIN events : events[i].time # x
      BY <1>1, <1>3, <2>1
    <3> QED
      BY <3>1, Zenon DEF IsToldBy
  <2>3. t - 1 \in lo .. t - 1
    OBVIOUS
  <2>4. \A x \in lo .. t - 1 : x \in B <=> lo \in B
    BY <2>2, StaysTheSame
  <2>5. AreAllIn(B, lo, t - 1)
    BY <2>3, <2>4 DEF AreAllIn, EndsAt
  <2> QED
    BY <2>5
<1> QED
  BY <1>2, <1>3

LEMMA TimelineEnds ==
    ASSUME NEW s, HasEventLists(s), HasMacs(s), HasNoDuplicates(s), KnowsItsMacs(s),
           s.weekly = << >> \/ s.absolute = << >>,
           NEW zone, HasOneOffset(zone), NEW now \in Int, NEW mac \in DOMAIN s.macs
    PROVE  KnowsEndsOf(s, zone, now, mac, BuildTimelineFromSchedule(s, zone, now)[mac])
<1> DEFINE events == TimelineEvents(s, zone, now)
           B == BlockedTimes(s, zone, mac)
           W == WeekStart(zone, now)
           limit == W + WeeksAhead * Week
           periods == BuildTimelineFromSchedule(s, zone, now)[mac]
           built == BuildPeriodsForMac(events, mac, now)
<1>1. HasOffsets(zone) /\ IsStrict(s.absolute) /\ IsStrict(s.weekly) /\ IsFinal(s.weekly)
  BY DEF HasOneOffset, HasNoDuplicates
<1>2. events \in Seq(TimelineEvent) /\ IsInOrder(events, Order)
  BY <1>1, TimelineEventsAre, TimelineEventsAdds
<1>3. periods = IF IsIndefinitelyBlocked(s, mac) THEN << >> ELSE built
  BY DEF BuildTimelineFromSchedule
<1>4. W \in Int /\ W <= now /\ limit \in Int /\ limit <= FutureLimit(now)
  <2>1. W \in Int /\ W <= now
    BY WeekHas
  <2>2. WeeksAhead * Week \in Int
    BY WeekAssumption, TimelineAssumption
  <2> HIDE DEF W
  <2> QED
    BY <2>1, <2>2 DEF FutureLimit
<1> SUFFICES ASSUME NEW t \in Int, now < t, t < limit, EndsAt(B, t),
                    s.absolute = << >> => ~AreAllIn(B, W - 1, t - 1)
             PROVE  HasEnd(periods, t)
  BY Zenon DEF KnowsEndsOf
<1> HIDE DEF periods, built, events, limit
<1>5. CASE s.weekly = << >>
  <2>1. AreOfKind(events, TRUE) /\ \E lo \in Int : IsToldBy(B, events, mac, lo)
    BY <1>1, <1>5, AbsoluteIsTold DEF events
  <2>2. PICK lo \in Int : IsToldBy(B, events, mac, lo)
    BY <2>1
  <2>3. t <= FutureLimit(now)
    <3>1. FutureLimit(now) \in Int
      BY WeekAssumption, TimelineAssumption DEF FutureLimit
    <3> QED
      BY <1>4, <3>1
  <2>4. /\ \E k \in DOMAIN events : events[k].time < t
        /\ \E k \in DOMAIN events : t <= events[k].time
    BY <1>1, <1>5, <2>3, AbsoluteEnds DEF events
  <2> HIDE DEF B
  <2>5. KnowsEnds(B, events, now, built)
    BY <1>2, <2>1, <2>2, PeriodsTell DEF built
  <2>6. HasEnd(built, t)
    BY <2>4, <2>5, Zenon DEF KnowsEnds
  <2> QED
    BY <1>3, <1>5, <2>6 DEF IsIndefinitelyBlocked
<1>6. CASE s.weekly # << >>
  <2>1. s.absolute = << >> /\ IsWeeklyOnly(s)
    BY <1>1, <1>6 DEF IsWeeklyOnly, HasEventLists
  <2>2. /\ AreOfKind(events, FALSE) /\ IsToldBy(B, events, mac, W - 1)
        /\ IsToldAfter(B, events, now, limit)
    BY <2>1, WeeklyIsTold DEF events, limit
  <2>3. ~IsIndefinitelyBlocked(s, mac)
    BY <1>1, <2>1, AlwaysBlocked DEF EndsAt
  <2>4. W - 1 \in Int /\ W - 1 <= now
    BY <1>4
  <2> HIDE DEF B, W
  <2>5. /\ \E k \in DOMAIN events : events[k].time < t
        /\ \E k \in DOMAIN events : t <= events[k].time
    BY <1>2, <1>4, <2>1, <2>2, <2>4, WeeklyEnds
  <2>6. KnowsEnds(B, events, now, built)
    BY <1>2, <2>2, <2>4, PeriodsTell DEF built
  <2>7. HasEnd(built, t)
    BY <2>5, <2>6, Zenon DEF KnowsEnds
  <2> QED
    BY <1>3, <2>3, <2>7
<1> QED
  BY <1>5, <1>6
=============================================================================
