---------------------------- MODULE NotifierProofs ----------------------------
(***************************************************************************)
(* What Notifier promises for every set of schedules and zones: types,     *)
(* periods that are apart, a thread that sleeps over no notification, a    *)
(* timeline that announces nothing twice, only what is true of the         *)
(* firewall and every block of its weeks, and a counter that counts the    *)
(* events of the schedule.                                                 *)
(***************************************************************************)
EXTENDS Notifier, TimelineProofs, FiniteSetTheorems

(***************************************************************************)
(* The schedules are what decode_schedule() makes, each zone has an offset *)
(* at every time, and the clock stays below "no further event".            *)
(***************************************************************************)
AreWellFormed ==
    /\ \A x \in Schedules :
          HasEventLists(x) /\ HasMacs(x) /\ (x.time_zone = NoZone \/ x.time_zone \in Zones)
    /\ \A zone \in Zones : HasOffsets(zone)
    /\ MaxTime <= INT_MAX

(***************************************************************************)
(* A timeline is a record; once it is updated it is that of the schedule.  *)
(***************************************************************************)
Record(n) == [timelines : Timelines(n), created_at : 0 .. MaxTime]

TimelineInv ==
    notification_timeline # NULL =>
        \E n \in Nat :
            /\ notification_timeline \in Record(n)
            /\ ~schedule_structure_changed =>
                  current_schedule # NULL /\ n = Len(current_schedule.macs)

(***************************************************************************)
(* The turn: a timeline is updated before it is used, the time is that at  *)
(* which the turn began, and the thread is not asleep for too long.        *)
(***************************************************************************)
TurnInv ==
    /\ pc \in {"send", "rebuild", "sleep"} => ~schedule_structure_changed
    /\ pc # "asleep" /\ current_schedule # NULL => current_unix_time = now
    /\ pc = "asleep" => now <= tm + MaxDelay

ValueInv ==
    /\ now \in 0 .. MaxTime /\ current_unix_time \in 0 .. MaxTime
    /\ processTZ \in Zones
    /\ current_schedule \in Schedules \cup {NULL}
    /\ schedule_structure_changed \in BOOLEAN
    /\ g_notification_count \in 0 .. CountRange - 1 /\ client_reset \in BOOLEAN
    /\ tm \in Int /\ lateness \in 0 .. MaxDelay
    /\ pc \in {"asleep", "build", "send", "rebuild", "sleep"}

IInv == ValueInv /\ TimelineInv /\ TurnInv

LEMMA InvImpliesType ==
    ASSUME AreWellFormed, IInv
    PROVE  TypeOK
<1>1. ASSUME notification_timeline # NULL
      PROVE  /\ created_at \in 0 .. MaxTime
             /\ \A mac \in DOMAIN timelines : timelines[mac] \in Seq(Period)
             /\ ~schedule_structure_changed =>
                   current_schedule # NULL /\ DOMAIN timelines = DOMAIN current_schedule.macs
  <2>1. PICK n \in Nat : /\ notification_timeline \in Record(n)
                         /\ ~schedule_structure_changed =>
                               current_schedule # NULL /\ n = Len(current_schedule.macs)
    BY <1>1 DEF IInv, TimelineInv
  <2>2. notification_timeline.created_at \in 0 .. MaxTime
        /\ notification_timeline.timelines \in Timelines(n)
    BY <2>1 DEF Record
  <2>3. DOMAIN timelines = 1 .. n /\ \A mac \in 1 .. n : timelines[mac] \in Seq(Period)
    BY <2>2 DEF Timelines, timelines
  <2>4. current_schedule # NULL => DOMAIN current_schedule.macs = 1 .. Len(current_schedule.macs)
    BY DEF IInv, ValueInv, AreWellFormed, HasMacs
  <2> QED
    BY <2>1, <2>2, <2>3, <2>4 DEF created_at
<1> QED
  BY <1>1 DEF TypeOK, IInv, ValueInv

LEMMA BuildsRecord ==
    ASSUME AreWellFormed, IInv, current_schedule # NULL, BuildTimeline
    PROVE  notification_timeline' \in Record(Len(current_schedule.macs))
           /\ Len(current_schedule.macs) \in Nat
<1> DEFINE s == current_schedule
<1>1. HasEventLists(s) /\ HasMacs(s) /\ HasOffsets(processTZ) /\ current_unix_time \in Int
      /\ current_unix_time \in 0 .. MaxTime
  BY NotifierAssumption DEF IInv, ValueInv, AreWellFormed
<1>2. BuildTimelineFromSchedule(s, processTZ, current_unix_time) \in Timelines(Len(s.macs))
  BY <1>1, BuildTimelineIs
<1> QED
  BY <1>1, <1>2 DEF BuildTimeline, Record, HasMacs

LEMMA InitIsTyped ==
    ASSUME AreWellFormed, Init
    PROVE  IInv
<1> USE NotifierAssumption, WeekAssumption DEF Init
<1>1. ValueInv
  <2>1. 0 \in 0 .. MaxTime /\ 0 \in 0 .. MaxDelay /\ 0 \in 0 .. CountRange - 1 /\ INT_MAX \in Int
    OBVIOUS
  <2> QED
    BY <2>1, Zenon DEF ValueInv
<1>2. TimelineInv
  BY DEF TimelineInv
<1>3. TurnInv
  BY DEF TurnInv
<1> QED
  BY <1>1, <1>2, <1>3 DEF IInv

(***************************************************************************)
(* A turn counts finitely many events, so the counter stays a counter.     *)
(***************************************************************************)
LEMMA ListsAreFinite ==
    ASSUME NEW S, NEW list \in Seq(S)
    PROVE  IsFiniteSet(ToSet(list))
<1>1. list \in Seq(ToSet(list)) /\ \A x \in ToSet(list) : \E k \in 1 .. Len(list) : list[k] = x
  BY DEF ToSet
<1> QED
  BY <1>1 DEF IsFiniteSet

LEMMA EventsAreFinite ==
    ASSUME NEW n \in Nat, NEW timeline \in Timelines(n), NEW t
    PROVE  IsFiniteSet(Events(timeline, t)) /\ Cardinality(Events(timeline, t)) \in Nat
<1> DEFINE of(type) == ToSet(BatchesOf(timeline, type, t))
<1>1. ASSUME NEW type
      PROVE  IsFiniteSet(of(type))
  <2>1. BatchesOf(timeline, type, t) \in BatchLists(Announcements(timeline, n, t), type)
    BY BatchesOfIs
  <2> QED
    BY <2>1, ListsAreFinite DEF BatchLists
<1>2. Batches(timeline, t) = ((of("STARTING_SOON") \cup of("STARTED")) \cup
                              (of("ENDING_SOON") \cup of("ENDED")))
                             \cup of("NON_RECURRING_UNPAUSED")
  BY Zenon DEF Batches, Types, Kinds
<1> HIDE DEF of
<1>3. IsFiniteSet(of("STARTING_SOON") \cup of("STARTED"))
      /\ IsFiniteSet(of("ENDING_SOON") \cup of("ENDED"))
  BY <1>1, FS_Union
<1>4. IsFiniteSet((of("STARTING_SOON") \cup of("STARTED"))
                  \cup (of("ENDING_SOON") \cup of("ENDED")))
  BY <1>3, FS_Union
<1>5. IsFiniteSet(Batches(timeline, t))
  BY <1>1, <1>2, <1>4, FS_Union
<1>6. Events(timeline, t) \in SUBSET Batches(timeline, t)
  BY DEF Events
<1> QED
  BY <1>5, <1>6, FS_Subset, FS_CardinalityType

LEMMA CounterIsTyped ==
    ASSUME NEW n \in Nat, g_notification_count \in 0 .. CountRange - 1, client_reset \in BOOLEAN,
           CountEvents(n)
    PROVE  g_notification_count' \in 0 .. CountRange - 1 /\ client_reset' \in BOOLEAN
<1>1. \A k \in Nat : k % CountRange \in 0 .. CountRange - 1
  BY NotifierAssumption
<1>2. g_notification_count + n \in Nat
  OBVIOUS
<1>3. \A k \in 0 .. n - 1 : k \in Nat
  OBVIOUS
<1> QED
  BY <1>1, <1>2, <1>3 DEF CountEvents

(***************************************************************************)
(* Every step keeps the invariant.                                         *)
(***************************************************************************)
LEMMA UpdatedTimeline ==
    ASSUME IInv, notification_timeline # NULL, ~schedule_structure_changed
    PROVE  /\ current_schedule # NULL /\ current_schedule \in Schedules
           /\ Len(current_schedule.macs) \in Nat
           /\ notification_timeline \in Record(Len(current_schedule.macs))
           /\ timelines \in Timelines(Len(current_schedule.macs))
           /\ created_at \in 0 .. MaxTime
BY DEF IInv, ValueInv, TimelineInv, Record, timelines, created_at

LEMMA SleepIsTyped ==
    ASSUME AreWellFormed, IInv, Sleep
    PROVE  tm' \in Int /\ now <= tm'
<1> DEFINE times == {NextEventTime, NextNotificationTime}
<1>1. /\ pc = "sleep" /\ ~schedule_structure_changed /\ now \in Int /\ now <= INT_MAX
      /\ current_unix_time \in Int /\ INT_MAX \in Int
      /\ current_schedule # NULL => current_unix_time = now
  BY NotifierAssumption, WeekAssumption DEF Sleep, IInv, TurnInv, ValueInv, AreWellFormed
<1>2. NextEventTime \in Int /\ now <= NextEventTime
  <2>1. CASE current_schedule = NULL
    BY <1>1, <2>1 DEF NextEventTime
  <2>2. CASE current_schedule # NULL
    <3>1. /\ current_schedule.absolute \in Seq(ScheduleEvent)
          /\ current_schedule.weekly \in Seq(ScheduleEvent)
          /\ UTCOffset(processTZ, now) \in Int
      BY <1>1, <2>2 DEF IInv, ValueInv, AreWellFormed, HasEventLists, HasOffsets
    <3> QED
      BY <1>1, <2>2, <3>1, NextUnixtimeIs DEF NextEventTime
  <2> QED
    BY <2>1, <2>2
<1>3. NextNotificationTime \in Int /\ now <= NextNotificationTime
  <2>1. CASE notification_timeline = NULL
    BY <1>1, <2>1 DEF NextNotificationTime
  <2>2. CASE notification_timeline # NULL
    <3>1. timelines \in Timelines(Len(current_schedule.macs))
          /\ Len(current_schedule.macs) \in Nat /\ current_unix_time = now
      BY <1>1, <2>2, UpdatedTimeline
    <3>2. NextNotificationTime = GetNextNotificationTime(timelines, now)
      BY <2>2, <3>1 DEF NextNotificationTime, timelines
    <3> QED
      BY <1>1, <3>1, <3>2, NextNotificationTimeIs
  <2> QED
    BY <2>1, <2>2
<1>4. tm' = Earliest(times)
  BY DEF Sleep
<1>5. times \in SUBSET Int /\ \A v \in times : now <= v
  BY <1>2, <1>3
<1>6. Earliest(times) \in Int /\ (Earliest(times) = INT_MAX \/ Earliest(times) \in times)
  BY <1>1, <1>5, EarliestIs
<1> QED
  BY <1>1, <1>4, <1>5, <1>6

LEMMA NextIsTyped ==
    ASSUME AreWellFormed, IInv, [Next]_vars
    PROVE  IInv'
<1> USE DEF TurnInv, TimelineInv
<1>0. ValueInv /\ TimelineInv /\ TurnInv
  BY DEF IInv
<1>1. ASSUME NEW x \in Schedules \cup {NULL}, Receive(x)
      PROVE  IInv'
  <2>1. /\ current_schedule' = x /\ processTZ' \in Zones
        /\ schedule_structure_changed' \in BOOLEAN
        /\ ~schedule_structure_changed' => notification_timeline' = NULL
        /\ pc = "asleep"
        /\ UNCHANGED <<now, notification_timeline, current_unix_time, tm, pc, counter, history>>
    BY <1>0, <1>1 DEF Receive, ValueInv, AreWellFormed
  <2>2. ValueInv'
    BY <1>0, <2>1 DEF ValueInv, counter, history
  <2>3. TimelineInv'
    BY <1>0, <2>1
  <2>4. TurnInv'
    BY <1>0, <2>1
  <2> QED
    BY <2>2, <2>3, <2>4 DEF IInv
<1>2. CASE Wake
  <2>1. lateness' \in 0 .. MaxDelay
    BY <1>0, <1>2, NotifierAssumption DEF Wake, ValueInv
  <2>2. ValueInv'
    BY <1>0, <1>2, <2>1 DEF Wake, ValueInv, scheduleVars, counter
  <2>3. TimelineInv'
    BY <1>0, <1>2 DEF Wake, scheduleVars
  <2>4. TurnInv'
    BY <1>0, <1>2 DEF Wake, scheduleVars
  <2> QED
    BY <2>2, <2>3, <2>4 DEF IInv
<1>3. CASE UpdateTimeline
  <2>1. /\ pc = "build" /\ pc' = "send" /\ schedule_structure_changed' = FALSE
        /\ UNCHANGED <<now, scheduleVars, current_unix_time, tm>>
    BY <1>3 DEF UpdateTimeline
  <2>2. ValueInv'
    <3>1. /\ g_notification_count' \in 0 .. CountRange - 1 /\ client_reset' \in BOOLEAN
          /\ lateness' \in 0 .. MaxDelay
      <4>1. 0 \in 0 .. CountRange - 1 /\ 0 \in 0 .. MaxDelay
        BY NotifierAssumption
      <4>2. CASE schedule_structure_changed
        BY <1>3, <4>1, <4>2 DEF UpdateTimeline, ForgetNotifications
      <4>3. CASE ~schedule_structure_changed
        BY <1>0, <1>3, <4>3 DEF UpdateTimeline, ValueInv, counter, history
      <4> QED
        BY <4>2, <4>3
    <3> QED
      BY <1>0, <2>1, <3>1 DEF ValueInv, scheduleVars
  <2>3. TimelineInv'
    <3>1. CASE schedule_structure_changed /\ current_schedule # NULL
      <4>1. BuildTimeline
        BY <1>3, <3>1 DEF UpdateTimeline
      <4>2. notification_timeline' \in Record(Len(current_schedule.macs))
            /\ Len(current_schedule.macs) \in Nat
        BY <3>1, <4>1, BuildsRecord
      <4> QED
        BY <2>1, <3>1, <4>2 DEF scheduleVars, Record
    <3>2. CASE schedule_structure_changed /\ current_schedule = NULL
      BY <1>3, <3>2 DEF UpdateTimeline
    <3>3. CASE ~schedule_structure_changed
      BY <1>0, <1>3, <3>3 DEF UpdateTimeline, scheduleVars, Record
    <3> QED
      BY <3>1, <3>2, <3>3
  <2>4. TurnInv'
    BY <1>0, <2>1 DEF scheduleVars
  <2> QED
    BY <2>2, <2>3, <2>4 DEF IInv
<1>4. CASE SendPending
  <2>1. /\ pc = "send" /\ pc' = "rebuild" /\ ~schedule_structure_changed
        /\ UNCHANGED <<now, scheduleVars, schedule_structure_changed, current_unix_time, tm,
                       lateness>>
    BY <1>0, <1>4 DEF SendPending
  <2>2. CASE ~IsActive
    <3>1. UNCHANGED <<notification_timeline, counter>>
      BY <1>4, <2>2 DEF SendPending
    <3>2. ValueInv'
      BY <1>0, <2>1, <3>1 DEF ValueInv, scheduleVars, counter
    <3>3. TimelineInv'
      BY <1>0, <2>1, <3>1 DEF scheduleVars, Record
    <3>4. TurnInv'
      BY <1>0, <2>1 DEF scheduleVars
    <3> QED
      BY <3>2, <3>3, <3>4 DEF IInv
  <2>3. CASE IsActive
    <3> DEFINE n == Len(current_schedule.macs)
    <3>1. /\ n \in Nat /\ notification_timeline \in Record(n) /\ timelines \in Timelines(n)
          /\ current_schedule # NULL /\ current_unix_time \in Int
      BY <1>0, <2>1, <2>3, UpdatedTimeline, NotifierAssumption DEF IsActive, ValueInv
    <3>2. /\ notification_timeline' =
                [notification_timeline EXCEPT !.timelines = MarkDone(timelines, current_unix_time)]
          /\ CountEvents(Cardinality(Events(timelines, current_unix_time)))
      BY <1>4, <2>3 DEF SendPending, timelines
    <3>3. MarkDone(timelines, current_unix_time) \in Timelines(n)
      BY <3>1, MarkDoneIs
    <3>4. notification_timeline' \in Record(n)
      BY <3>1, <3>2, <3>3 DEF Record
    <3>5. /\ g_notification_count' \in 0 .. CountRange - 1 /\ client_reset' \in BOOLEAN
      BY <1>0, <3>1, <3>2, EventsAreFinite, CounterIsTyped DEF ValueInv
    <3>6. ValueInv'
      BY <1>0, <2>1, <3>5 DEF ValueInv, scheduleVars
    <3>7. TimelineInv'
      BY <2>1, <3>1, <3>4 DEF scheduleVars, Record
    <3>8. TurnInv'
      BY <1>0, <2>1 DEF scheduleVars
    <3> QED
      BY <3>6, <3>7, <3>8 DEF IInv
  <2> QED
    BY <2>2, <2>3
<1>5. CASE Rebuild
  <2>1. /\ pc = "rebuild" /\ pc' = "sleep" /\ ~schedule_structure_changed
        /\ UNCHANGED <<now, scheduleVars, schedule_structure_changed, current_unix_time, tm,
                       counter, lateness>>
    BY <1>0, <1>5 DEF Rebuild
  <2>2. ValueInv'
    BY <1>0, <2>1 DEF ValueInv, scheduleVars, counter
  <2>3. TimelineInv'
    <3>1. CASE NeedsRebuild
      <4>1. BuildTimeline /\ current_schedule # NULL
        BY <1>5, <3>1 DEF Rebuild, NeedsRebuild, IsActive
      <4>2. notification_timeline' \in Record(Len(current_schedule.macs))
            /\ Len(current_schedule.macs) \in Nat
        BY <4>1, BuildsRecord
      <4> QED
        BY <2>1, <4>1, <4>2 DEF scheduleVars, Record
    <3>2. CASE ~NeedsRebuild
      BY <1>0, <1>5, <2>1, <3>2 DEF Rebuild, scheduleVars, Record
    <3> QED
      BY <3>1, <3>2
  <2>4. TurnInv'
    BY <1>0, <2>1 DEF scheduleVars
  <2> QED
    BY <2>2, <2>3, <2>4 DEF IInv
<1>6. CASE Sleep
  <2>1. tm' \in Int /\ now <= tm' /\ pc' = "asleep" /\ pc = "sleep"
        /\ UNCHANGED <<now, scheduleVars, schedule_structure_changed, notification_timeline,
                       current_unix_time, counter, history>>
    BY <1>6, SleepIsTyped DEF Sleep
  <2>2. ValueInv'
    BY <1>0, <2>1 DEF ValueInv, scheduleVars, counter, history
  <2>3. TimelineInv'
    BY <1>0, <2>1 DEF scheduleVars, Record
  <2>4. TurnInv'
    <3>1. \A j \in Int : now <= j => now <= j + MaxDelay
      BY <1>0, NotifierAssumption DEF ValueInv
    <3>2. now <= tm' + MaxDelay
      BY <2>1, <3>1, Zenon
    <3> QED
      BY <2>1, <3>2
  <2> QED
    BY <2>2, <2>3, <2>4 DEF IInv
<1>7. CASE NotificationCountSetHandler
  <2>1. /\ UNCHANGED <<now, scheduleVars, schedule_structure_changed, notification_timeline,
                       current_unix_time, tm, pc, history>>
        /\ g_notification_count' \in 0 .. CountRange - 1 /\ client_reset' \in BOOLEAN
    BY <1>0, <1>7, NotifierAssumption DEF NotificationCountSetHandler, ValueInv
  <2>2. ValueInv'
    BY <1>0, <2>1 DEF ValueInv, scheduleVars, history
  <2>3. TimelineInv'
    BY <1>0, <2>1 DEF scheduleVars, Record
  <2>4. TurnInv'
    BY <1>0, <2>1 DEF scheduleVars
  <2> QED
    BY <2>2, <2>3, <2>4 DEF IInv
<1>8. CASE Tick
  <2>1. /\ UNCHANGED <<scheduleVars, schedule_structure_changed, notification_timeline,
                       current_unix_time, tm, pc, counter, history>>
        /\ pc = "asleep" /\ now' \in 0 .. MaxTime /\ now' <= tm + MaxDelay
    BY <1>0, <1>8, NotifierAssumption DEF Tick, ValueInv
  <2>2. ValueInv'
    BY <1>0, <2>1 DEF ValueInv, scheduleVars, counter, history
  <2>3. TimelineInv'
    BY <1>0, <2>1 DEF scheduleVars, Record
  <2>4. TurnInv'
    BY <1>0, <2>1 DEF scheduleVars
  <2> QED
    BY <2>2, <2>3, <2>4 DEF IInv
<1>9. CASE UNCHANGED vars
  BY <1>0, <1>9 DEF vars, scheduleVars, counter, history, IInv, ValueInv, Record
<1> QED
  BY <1>1, <1>2, <1>3, <1>4, <1>5, <1>6, <1>7, <1>8, <1>9, Zenon DEF Next

LEMMA Invariance ==
    ASSUME AreWellFormed
    PROVE  Spec => []IInv
<1>1. Init => IInv
  BY InitIsTyped
<1>2. IInv /\ [Next]_vars => IInv'
  BY NextIsTyped
<1> QED
  BY <1>1, <1>2, PTL DEF Spec

(***************************************************************************)
(* The type of every variable; once it has been updated, a timeline has    *)
(* one entry for each MAC of the schedule in force.                        *)
(***************************************************************************)
THEOREM TypeCorrect ==
    ASSUME AreWellFormed
    PROVE  Spec => []TypeOK
<1>1. IInv => TypeOK
  BY InvImpliesType
<1> QED
  BY <1>1, Invariance, PTL

-----------------------------------------------------------------------------
(***************************************************************************)
(* The deadline of the thread is not later than that of the timeline.      *)
(***************************************************************************)
DeadlineInv ==
    pc = "asleep" /\ IsActive /\ ~schedule_structure_changed =>
        tm <= GetNextNotificationTime(timelines, current_unix_time)

LEMMA NextKeepsDeadline ==
    ASSUME AreWellFormed, IInv, DeadlineInv, [Next]_vars
    PROVE  DeadlineInv'
<1>0. ValueInv /\ TimelineInv /\ TurnInv
  BY DEF IInv
<1>1. CASE Sleep
  <2>1. SUFFICES ASSUME IsActive', ~schedule_structure_changed'
                 PROVE  tm' <= GetNextNotificationTime(timelines, current_unix_time)'
    BY DEF DeadlineInv
  <2>2. /\ UNCHANGED <<notification_timeline, current_unix_time, current_schedule,
                       schedule_structure_changed>>
        /\ tm' = Earliest({NextEventTime, NextNotificationTime})
    BY <1>1 DEF Sleep, scheduleVars
  <2>3. notification_timeline # NULL /\ ~schedule_structure_changed
    BY <2>1, <2>2 DEF IsActive
  <2> DEFINE r == GetNextNotificationTime(timelines, current_unix_time)
  <2>4. r \in Int /\ NextNotificationTime = r /\ current_unix_time \in Int
    <3>1. current_unix_time \in Int
      BY <1>0, NotifierAssumption DEF ValueInv
    <3>2. /\ timelines \in Timelines(Len(current_schedule.macs))
          /\ Len(current_schedule.macs) \in Nat
      BY <2>3, UpdatedTimeline
    <3> QED
      BY <2>3, <3>1, <3>2, NextNotificationTimeIs DEF NextNotificationTime, timelines
  <2>5. NextEventTime \in Int
    <3>1. INT_MAX \in Int
      BY WeekAssumption
    <3>2. CASE current_schedule # NULL
      <4>1. /\ current_schedule.absolute \in Seq(ScheduleEvent)
            /\ current_schedule.weekly \in Seq(ScheduleEvent)
            /\ UTCOffset(processTZ, current_unix_time) \in Int
        BY <1>0, <2>4, <3>2 DEF ValueInv, AreWellFormed, HasEventLists, HasOffsets
      <4> QED
        BY <2>4, <3>2, <4>1, NextUnixtimeIs DEF NextEventTime
    <3> QED
      BY <3>1, <3>2 DEF NextEventTime
  <2> HIDE DEF r
  <2>6. \A i, j \in Int : Earliest({i, j}) <= j
    <3> SUFFICES ASSUME NEW i \in Int, NEW j \in Int
                 PROVE  Earliest({i, j}) <= j
      OBVIOUS
    <3>1. PICK b \in {i, j} : b <= i /\ b <= j
      OBVIOUS
    <3>2. {i, j} \in SUBSET Int /\ b \in Int /\ \A v \in {i, j} : b <= v
      BY <3>1
    <3> QED
      BY <3>2, EarliestIs
  <2>7. tm' <= r
    BY <2>2, <2>4, <2>5, <2>6
  <2>8. r = GetNextNotificationTime(timelines, current_unix_time)'
    BY <2>2 DEF r, timelines, GetNextNotificationTime
  <2> QED
    BY <2>7, <2>8
<1>2. CASE ~Sleep
  <2>1. pc' = "asleep" /\ IsActive' /\ ~schedule_structure_changed' =>
           /\ pc = "asleep" /\ IsActive /\ ~schedule_structure_changed
           /\ UNCHANGED <<notification_timeline, current_unix_time, tm>>
    BY <1>0, <1>2 DEF Next, Receive, Wake, UpdateTimeline, SendPending, Rebuild, Tick,
                NotificationCountSetHandler, vars, scheduleVars, IsActive
  <2>2. UNCHANGED <<notification_timeline, current_unix_time>> =>
           GetNextNotificationTime(timelines, current_unix_time)'
              = GetNextNotificationTime(timelines, current_unix_time)
    BY DEF timelines, GetNextNotificationTime
  <2> QED
    BY <2>1, <2>2 DEF DeadlineInv
<1> QED
  BY <1>1, <1>2

LEMMA DeadlineMissesNothing ==
    ASSUME AreWellFormed, IInv, DeadlineInv
    PROVE  SleepMissesNothing
<1> DEFINE n == Len(current_schedule.macs)
           u == current_unix_time
<1>1. SUFFICES ASSUME pc = "asleep", IsActive, ~schedule_structure_changed,
                      NEW t \in u .. (IF tm < MaxTime THEN tm ELSE MaxTime) - 1,
                      NEW mac \in DOMAIN timelines, NEW p \in ToSet(timelines[mac]),
                      NEW kind \in Kinds,
                      p.end > u, DueTime(p, kind) = t, kind \in Pending(p, t),
                      IsAnnounced(timelines[mac], p, kind, t)
               PROVE  FALSE
  BY DEF SleepMissesNothing
<1>2. timelines \in Timelines(n) /\ n \in Nat
  BY <1>1, UpdatedTimeline DEF IsActive
<1>3. u \in Int /\ tm \in Int /\ t \in Int /\ u <= t /\ t < tm
  BY <1>1, NotifierAssumption DEF IInv, ValueInv
<1>4. PICK k \in DOMAIN timelines[mac] : p = timelines[mac][k]
  BY <1>1 DEF ToSet
<1>5. Waits(p, kind, u)
  BY <1>1, <1>3 DEF Waits, Pending, IsAnnounced
<1>6. mac \in 1 .. n
  BY <1>2 DEF Timelines
<1> HIDE DEF n, u
<1>7. GetNextNotificationTime(timelines, u) \in Int
      /\ GetNextNotificationTime(timelines, u) <= DueTime(p, kind)
  BY <1>2, <1>3, <1>4, <1>5, <1>6, NextNotificationTimeIs
<1>8. tm <= GetNextNotificationTime(timelines, u)
  BY <1>1 DEF DeadlineInv, u
<1> QED
  BY <1>1, <1>3, <1>7, <1>8

(***************************************************************************)
(* No notification falls due while the thread sleeps, except the end of a  *)
(* period that a full batch did not take in the second in which it fell    *)
(* due.  Wherever it sleeps, the deadline of pthread_cond_timedwait() is   *)
(* that of get_next_notification_time() or an earlier one.                 *)
(***************************************************************************)
THEOREM NothingIsSleptOver ==
    ASSUME AreWellFormed
    PROVE  Spec => []SleepMissesNothing
<1>1. Init => DeadlineInv
  BY DEF Init, DeadlineInv, IsActive
<1>2. IInv /\ DeadlineInv /\ [Next]_vars => DeadlineInv'
  BY NextKeepsDeadline
<1>3. IInv /\ DeadlineInv => SleepMissesNothing
  BY DeadlineMissesNothing
<1> QED
  BY <1>1, <1>2, <1>3, Invariance, PTL DEF Spec

-----------------------------------------------------------------------------
(***************************************************************************)
(* Schedules without two events of a list at one time, in zones without    *)
(* daylight saving time.                                                   *)
(***************************************************************************)
AreApart ==
    /\ \A x \in Schedules : HasNoDuplicates(x)
    /\ \A zone \in Zones : HasOneOffset(zone)

LEMMA MarkingKeepsApart ==
    ASSUME NEW a \in Seq(Period), NEW b \in Seq(Period), Len(a) = Len(b),
           \A k \in DOMAIN a : SamePeriod(b[k], a[k]), ArePeriodsApart(a)
    PROVE  ArePeriodsApart(b)
<1>1. DOMAIN a = 1 .. Len(a) /\ DOMAIN b = 1 .. Len(a) /\ Len(a) \in Nat
  OBVIOUS
<1>2. \A k \in 1 .. Len(a) : b[k].start = a[k].start /\ b[k].end = a[k].end
  BY <1>1 DEF SamePeriod
<1>3. \A k \in 2 .. Len(a) : k \in 1 .. Len(a) /\ k - 1 \in 1 .. Len(a)
  BY <1>1
<1> QED
  BY <1>1, <1>2, <1>3 DEF ArePeriodsApart

LEMMA NextKeepsOrder ==
    ASSUME AreWellFormed, AreApart, IInv, PeriodsAreOrdered, [Next]_vars
    PROVE  PeriodsAreOrdered'
<1> DEFINE apart(timeline) == \A mac \in DOMAIN timeline : ArePeriodsApart(timeline[mac])
           n == Len(current_schedule.macs)
<1>0. ValueInv /\ TimelineInv /\ TurnInv /\ (notification_timeline # NULL => apart(timelines))
  BY DEF IInv, PeriodsAreOrdered, ArePeriodsApart
<1>1. SUFFICES notification_timeline' # NULL => apart(notification_timeline'.timelines)
  BY DEF PeriodsAreOrdered, ArePeriodsApart, timelines
<1>2. ASSUME BuildTimeline, current_schedule # NULL
      PROVE  apart(notification_timeline'.timelines)
  <2> DEFINE r == BuildTimelineFromSchedule(current_schedule, processTZ, current_unix_time)
  <2>1. /\ HasEventLists(current_schedule) /\ HasMacs(current_schedule)
        /\ HasOffsets(processTZ) /\ current_unix_time \in Int
        /\ HasNoDuplicates(current_schedule) /\ HasOneOffset(processTZ)
    BY <1>0, <1>2, NotifierAssumption DEF ValueInv, AreWellFormed, AreApart
  <2>2. r \in Timelines(n) /\ \A mac \in 1 .. n : ArePeriodsApart(r[mac])
    BY <2>1, BuildTimelineIs
  <2>3. notification_timeline'.timelines = r
    BY <1>2 DEF BuildTimeline
  <2> QED
    BY <2>2, <2>3 DEF Timelines
<1>3. CASE SendPending /\ IsActive
  <2>1. /\ timelines \in Timelines(n) /\ n \in Nat /\ notification_timeline \in Record(n)
        /\ current_unix_time \in Int /\ apart(timelines)
    BY <1>0, <1>3, UpdatedTimeline, NotifierAssumption DEF SendPending, IsActive, ValueInv, TurnInv
  <2> DEFINE r == MarkDone(timelines, current_unix_time)
  <2>2. notification_timeline'.timelines = r
    BY <1>3, <2>1 DEF SendPending, Record, timelines
  <2>3. /\ r \in Timelines(n)
        /\ \A mac \in 1 .. n :
              /\ Len(r[mac]) = Len(timelines[mac])
              /\ \A k \in DOMAIN timelines[mac] : SamePeriod(r[mac][k], timelines[mac][k])
    BY <2>1, MarkDoneIs
  <2> HIDE DEF r
  <2>4. \A mac \in 1 .. n : ArePeriodsApart(r[mac])
    BY <2>1, <2>3, MarkingKeepsApart DEF Timelines
  <2> QED
    BY <2>2, <2>3, <2>4 DEF Timelines
<1>4. CASE UpdateTimeline \/ Rebuild
  <2>1. notification_timeline' = NULL \/ notification_timeline' = notification_timeline
        \/ (BuildTimeline /\ current_schedule # NULL)
    BY <1>4 DEF UpdateTimeline, Rebuild, NeedsRebuild, IsActive
  <2> QED
    BY <1>0, <1>2, <2>1 DEF timelines
<1>5. CASE ~(SendPending /\ IsActive) /\ ~UpdateTimeline /\ ~Rebuild
  <2>1. notification_timeline' = notification_timeline
    BY <1>5 DEF Next, Receive, Wake, SendPending, Sleep, Tick, NotificationCountSetHandler, vars
  <2> QED
    BY <1>0, <2>1 DEF timelines
<1> QED
  BY <1>3, <1>4, <1>5

LEMMA OrderInvariance ==
    ASSUME AreWellFormed, AreApart
    PROVE  Spec => [](IInv /\ PeriodsAreOrdered)
<1>1. Init => PeriodsAreOrdered
  BY DEF Init, PeriodsAreOrdered
<1>2. IInv /\ PeriodsAreOrdered /\ [Next]_vars => PeriodsAreOrdered'
  BY NextKeepsOrder
<1> QED
  BY <1>1, <1>2, Invariance, PTL DEF Spec

(***************************************************************************)
(* The periods of a MAC are not empty, in order and apart, whatever the    *)
(* weekly and the absolute list say of it, as long as neither list has two *)
(* events at one time.                                                     *)
(***************************************************************************)
THEOREM PeriodsAreApart ==
    ASSUME AreWellFormed, AreApart
    PROVE  Spec => []PeriodsAreOrdered
BY OrderInvariance, PTL

-----------------------------------------------------------------------------
LEMMA SendingIsRemembered ==
    ASSUME AreWellFormed, IInv, PeriodsAreOrdered, RemembersWhatWasSent, SendPending, IsActive
    PROVE  RemembersWhatWasSent'
<1> DEFINE n == Len(current_schedule.macs)
           u == current_unix_time
           r == MarkDone(timelines, u)
<1>1. /\ timelines \in Timelines(n) /\ n \in Nat /\ notification_timeline \in Record(n)
      /\ u \in Int /\ \A mac \in 1 .. n : ArePeriodsApart(timelines[mac])
  <2>1. ~schedule_structure_changed /\ notification_timeline # NULL /\ u \in Int
    BY NotifierAssumption DEF SendPending, IsActive, IInv, TurnInv, ValueInv
  <2>2. timelines \in Timelines(n) /\ n \in Nat /\ notification_timeline \in Record(n)
    BY <2>1, UpdatedTimeline
  <2>3. \A mac \in 1 .. n : ArePeriodsApart(timelines[mac])
    BY <2>1, <2>2 DEF PeriodsAreOrdered, ArePeriodsApart, Timelines
  <2> QED
    BY <2>1, <2>2, <2>3
<1>2. notification_timeline'.timelines = r /\ notification_timeline # NULL
      /\ sent' = sent \cup Notifications(timelines, u)
  BY <1>1 DEF SendPending, IsActive, Record, timelines
<1>3. /\ r \in Timelines(n)
      /\ \A mac \in 1 .. n :
            /\ Len(r[mac]) = Len(timelines[mac])
            /\ \A k \in DOMAIN timelines[mac] :
                  /\ SamePeriod(r[mac][k], timelines[mac][k])
                  /\ timelines[mac][k].done \subseteq r[mac][k].done
                  /\ \A x \in Pending(timelines[mac][k], u) :
                        (\E b \in Batches(timelines, u) :
                            Notification(mac, timelines[mac][k], x) \in ToSet(b))
                               => x \in r[mac][k].done
  BY <1>1, MarkDoneIs
<1> HIDE DEF n, u, r
<1>4. SUFFICES ASSUME NEW mac \in 1 .. n, NEW k \in DOMAIN r[mac], NEW kind \in Kinds,
                      Notification(mac, r[mac][k], kind) \in sent'
               PROVE  kind \in r[mac][k].done
  <2>1. DOMAIN r = 1 .. n
    BY <1>3 DEF Timelines
  <2> QED
    BY <1>2, <2>1 DEF RemembersWhatWasSent, timelines, ToSet
<1> DEFINE periods == timelines[mac]
           p == periods[k]
<1>5. periods \in Seq(Period) /\ ArePeriodsApart(periods) /\ k \in DOMAIN periods
  <2>1. periods \in Seq(Period) /\ r[mac] \in Seq(Period) /\ Len(r[mac]) = Len(periods)
    BY <1>1, <1>3 DEF Timelines
  <2> QED
    BY <1>1, <1>4, <2>1
<1>6. Notification(mac, r[mac][k], kind) = Notification(mac, p, kind)
  <2>1. SamePeriod(r[mac][k], p)
    BY <1>3, <1>5
  <2> QED
    BY <2>1 DEF SamePeriod, Notification
<1>7. CASE Notification(mac, p, kind) \in sent
  <2>1. mac \in DOMAIN timelines /\ p \in ToSet(timelines[mac])
    BY <1>1, <1>5 DEF Timelines, ToSet
  <2>2. kind \in p.done
    BY <1>2, <1>7, <2>1 DEF RemembersWhatWasSent
  <2> QED
    BY <1>3, <1>5, <2>2
<1>8. CASE Notification(mac, p, kind) \in Notifications(timelines, u)
  <2>1. PICK b \in Batches(timelines, u) : Notification(mac, p, kind) \in ToSet(b)
    BY <1>8 DEF Notifications, Events
  <2>2. PICK mac2 \in 1 .. n : \E k2 \in DOMAIN timelines[mac2] :
           Notification(mac, p, kind) \in NotificationsOf(timelines, mac2, k2, u)
    BY <1>1, <2>1, BatchIs
  <2>3. PICK k2 \in DOMAIN timelines[mac2] :
           Notification(mac, p, kind) \in NotificationsOf(timelines, mac2, k2, u)
    BY <2>2
  <2>4. PICK kind2 \in Pending(timelines[mac2][k2], u) :
           Notification(mac, p, kind) = Notification(mac2, timelines[mac2][k2], kind2)
    BY <2>3, Zenon DEF NotificationsOf
  <2>5. mac2 = mac
    BY <2>4 DEF Notification
  <2>6. kind2 \in Kinds
    BY DEF Pending
  <2>7. k2 = k /\ kind2 = kind
    BY <1>5, <2>4, <2>5, <2>6, NotificationTells
  <2>8. kind \in Pending(p, u)
    BY <2>4, <2>5, <2>7
  <2> QED
    BY <1>3, <1>5, <2>1, <2>8
<1> QED
  BY <1>2, <1>4, <1>6, <1>7, <1>8

LEMMA NextRemembers ==
    ASSUME AreWellFormed, IInv, PeriodsAreOrdered, RemembersWhatWasSent, [Next]_vars
    PROVE  RemembersWhatWasSent'
<1>1. CASE SendPending /\ IsActive
  BY <1>1, SendingIsRemembered
<1>2. CASE ~(SendPending /\ IsActive)
  <2>1. sent' = {} \/ UNCHANGED <<notification_timeline, sent>>
    BY <1>2 DEF Next, Receive, Wake, UpdateTimeline, ForgetNotifications, SendPending, Rebuild,
                Sleep, Tick, NotificationCountSetHandler, vars, history
  <2> QED
    BY <2>1 DEF RemembersWhatWasSent, timelines
<1> QED
  BY <1>1, <1>2

(***************************************************************************)
(* A timeline announces nothing twice, as its periods are apart: whatever  *)
(* was sent since it was built is marked in the one period it was sent     *)
(* for.                                                                    *)
(***************************************************************************)
THEOREM NothingIsSentAgain ==
    ASSUME AreWellFormed, AreApart
    PROVE  Spec => []RemembersWhatWasSent
<1>1. Init => RemembersWhatWasSent
  BY DEF Init, RemembersWhatWasSent
<1>2. IInv /\ PeriodsAreOrdered /\ RemembersWhatWasSent /\ [Next]_vars => RemembersWhatWasSent'
  BY NextRemembers
<1> QED
  BY <1>1, <1>2, OrderInvariance, PTL DEF Spec

-----------------------------------------------------------------------------
(***************************************************************************)
(* A counter that is not 0 counts announcements of this schedule: an event *)
(* is not empty, so nothing counts that announces nothing, and a new       *)
(* schedule forgets what was sent only when it resets the counter.         *)
(***************************************************************************)
CountsWhatWasSent == sent \cup earlier = {} => g_notification_count = 0

LEMMA NextCounts ==
    ASSUME AreWellFormed, IInv, CountsWhatWasSent, [Next]_vars
    PROVE  CountsWhatWasSent'
<1> USE DEF CountsWhatWasSent
<1>0. ValueInv /\ TimelineInv /\ TurnInv
  BY DEF IInv
<1>1. CASE SendPending /\ IsActive
  <2> DEFINE n == Len(current_schedule.macs)
             u == current_unix_time
             events == Events(timelines, u)
  <2>1. SUFFICES ASSUME sent' \cup earlier' = {}
                 PROVE  g_notification_count' = 0
    OBVIOUS
  <2>2. timelines \in Timelines(n) /\ n \in Nat
    BY <1>0, <1>1, UpdatedTimeline DEF SendPending, IsActive, TurnInv
  <2>3. /\ sent' = sent \cup Notifications(timelines, u) /\ earlier' = earlier
        /\ CountEvents(Cardinality(events))
    BY <1>1 DEF SendPending
  <2>4. Notifications(timelines, u) = {} /\ g_notification_count = 0
    BY <2>1, <2>3
  <2>5. events = {}
    <3> SUFFICES ASSUME NEW b \in events
                 PROVE  FALSE
      OBVIOUS
    <3>1. b \in Batches(timelines, u)
      BY DEF Events
    <3>2. ToSet(b) # {}
      BY <2>2, <3>1, BatchIs
    <3> QED
      BY <2>4, <3>2 DEF Notifications
  <2>6. Cardinality(events) = 0
    BY <2>5, FS_EmptySet
  <2>7. g_notification_count' = (0 + 0) % CountRange
    BY <2>3, <2>4, <2>6 DEF CountEvents
  <2> QED
    BY <2>7, NotifierAssumption
<1>2. CASE ~(SendPending /\ IsActive)
  BY <1>2 DEF Next, Receive, Wake, UpdateTimeline, ForgetNotifications, SendPending, Rebuild,
              Sleep, Tick, NotificationCountSetHandler, vars, history, counter
<1> QED
  BY <1>1, <1>2

(***************************************************************************)
(* The first half of CountIsOfSchedule, at any time: the counter is 0      *)
(* until something of the schedule has been announced.                     *)
(***************************************************************************)
THEOREM CounterStartsAtZero ==
    ASSUME AreWellFormed
    PROVE  Spec => []CountsWhatWasSent
<1>1. Init => CountsWhatWasSent
  BY DEF Init, CountsWhatWasSent
<1>2. IInv /\ CountsWhatWasSent /\ [Next]_vars => CountsWhatWasSent'
  BY NextCounts
<1> QED
  BY <1>1, <1>2, Invariance, PTL DEF Spec

(***************************************************************************)
(* The second half: an event is of one type and one time, so each of them  *)
(* tells of one pair at most that has not been announced before.           *)
(***************************************************************************)
Pairs(notifications) == {<<x.type, x.time>> : x \in notifications}

CountsPairs ==
    /\ IsFiniteSet(Pairs(sent \cup earlier))
    /\ ~client_reset => Cardinality(Pairs(sent \cup earlier)) <= g_notification_count

(* In 2^32 events between two schedules the counter would begin anew.      *)
CounterDoesNotWrap ==
    [][SendPending /\ IsActive =>
          g_notification_count + Cardinality(Events(timelines, current_unix_time)) < CountRange]_vars

LEMMA EventsTellOnePairEach ==
    ASSUME NEW n \in Nat, NEW timeline \in Timelines(n), NEW t
    PROVE  LET new == Pairs(Notifications(timeline, t))
           IN  /\ IsFiniteSet(new) /\ Cardinality(new) \in Nat
               /\ Cardinality(new) <= Cardinality(Events(timeline, t))
<1> DEFINE events == Events(timeline, t)
           new == Pairs(Notifications(timeline, t))
           pair == [b \in events |-> <<b[1].type, b[1].time>>]
<1>1. IsFiniteSet(events)
  BY EventsAreFinite
<1>2. \A b \in events : /\ ToSet(b) # {}
                        /\ \A x \in ToSet(b) : x.type = b[1].type /\ x.time = b[1].time
  BY BatchIs DEF Events
<1>3. Notifications(timeline, t) = UNION {ToSet(b) : b \in events}
  BY DEF Notifications
<1> HIDE DEF events
<1>4. \A b \in events : \A x \in ToSet(b) : <<x.type, x.time>> = pair[b]
  BY <1>2
<1>5. \A b \in events : pair[b] \in new
  <2> SUFFICES ASSUME NEW b \in events
               PROVE  pair[b] \in new
    OBVIOUS
  <2>1. PICK x \in ToSet(b) : TRUE
    BY <1>2
  <2>2. x \in Notifications(timeline, t) /\ <<x.type, x.time>> = pair[b]
    BY <1>3, <1>4
  <2> QED
    BY <2>2 DEF Pairs
<1>6. \A y \in new : \E b \in events : pair[b] = y
  BY <1>3, <1>4 DEF Pairs
<1> HIDE DEF new
<1>7. pair \in Surjection(events, new)
  BY <1>5, <1>6 DEF Surjection
<1> QED
  BY <1>1, <1>7, FS_Surjection, FS_CardinalityType DEF events, new

LEMMA NextCountsPairs ==
    ASSUME AreWellFormed, IInv, CountsPairs, [Next]_vars,
           SendPending /\ IsActive =>
              g_notification_count + Cardinality(Events(timelines, current_unix_time)) < CountRange
    PROVE  CountsPairs'
<1> DEFINE told == sent \cup earlier
<1>0. ValueInv /\ TimelineInv /\ TurnInv /\ g_notification_count \in Nat
  BY NotifierAssumption DEF IInv, ValueInv
<1>1. CASE SendPending /\ IsActive
  <2> DEFINE n == Len(current_schedule.macs)
             u == current_unix_time
             c == Cardinality(Events(timelines, u))
             new == Pairs(Notifications(timelines, u))
  <2>1. timelines \in Timelines(n) /\ n \in Nat
    BY <1>0, <1>1, UpdatedTimeline DEF SendPending, IsActive, TurnInv
  <2>2. /\ sent' = sent \cup Notifications(timelines, u) /\ earlier' = earlier
        /\ CountEvents(c)
    BY <1>1 DEF SendPending
  <2>3. c \in Nat /\ IsFiniteSet(new) /\ Cardinality(new) \in Nat /\ Cardinality(new) <= c
    BY <2>1, EventsAreFinite, EventsTellOnePairEach
  <2>4. Pairs(sent' \cup earlier') = Pairs(told) \cup new
    BY <2>2 DEF Pairs
  <2>5. g_notification_count + c < CountRange
    BY <1>1
  <2>6. IsFiniteSet(Pairs(told)) /\ Cardinality(Pairs(told)) \in Nat
    BY FS_CardinalityType DEF CountsPairs
  <2> HIDE DEF c, new, told
  <2>7. /\ IsFiniteSet(Pairs(told) \cup new) /\ Cardinality(Pairs(told) \cup new) \in Nat
        /\ Cardinality(Pairs(told) \cup new) <= Cardinality(Pairs(told)) + Cardinality(new)
    <3> DEFINE both == Pairs(told) \cap new
               all == Pairs(told) \cup new
    <3>1. both \in SUBSET new
      OBVIOUS
    <3>2. IsFiniteSet(all) /\ Cardinality(all) =
             Cardinality(Pairs(told)) + Cardinality(new) - Cardinality(both)
      BY <2>3, <2>6, FS_Union
    <3> HIDE DEF both, all
    <3>3. Cardinality(both) \in Nat /\ Cardinality(all) \in Nat
      BY <2>3, <3>1, <3>2, FS_Subset, FS_CardinalityType
    <3>4. Cardinality(all) <= Cardinality(Pairs(told)) + Cardinality(new)
      BY <2>3, <2>6, <3>2, <3>3
    <3> QED
      BY <3>2, <3>3, <3>4 DEF all
  <2>8. ~client_reset' => /\ ~client_reset
                          /\ g_notification_count' = g_notification_count + c
    <3>1. ~client_reset' => /\ ~client_reset
                            /\ g_notification_count' = (g_notification_count + c) % CountRange
      BY <2>2 DEF CountEvents
    <3>2. (g_notification_count + c) % CountRange = g_notification_count + c
      BY <1>0, <2>3, <2>5, NotifierAssumption
    <3> QED
      BY <3>1, <3>2
  <2>9. ~client_reset => Cardinality(Pairs(told)) <= g_notification_count
    BY DEF CountsPairs, told
  <2>10. ~client_reset' => Cardinality(Pairs(told) \cup new) <= g_notification_count'
    <3>1. ASSUME NEW a \in Nat, NEW b \in Nat, NEW d \in Nat, NEW e \in Nat,
                 a <= b + d, b <= g_notification_count, d <= e
          PROVE  a <= g_notification_count + e
      BY <1>0, <3>1
    <3> QED
      BY <2>3, <2>6, <2>7, <2>8, <2>9, <3>1
  <2> QED
    BY <2>4, <2>7, <2>10 DEF CountsPairs
<1>2. CASE UNCHANGED <<told, counter>>
  <2>1. Pairs(sent' \cup earlier') = Pairs(told) /\ UNCHANGED <<g_notification_count, client_reset>>
    BY <1>2 DEF counter
  <2> QED
    BY <2>1 DEF CountsPairs
<1>3. CASE told' = {} /\ g_notification_count' \in Nat
  <2>1. Pairs(sent' \cup earlier') = {}
    BY <1>3 DEF Pairs
  <2>2. IsFiniteSet({}) /\ Cardinality({}) = 0 /\ g_notification_count' >= 0
    BY <1>3, FS_EmptySet
  <2> QED
    BY <2>1, <2>2 DEF CountsPairs
<1>4. CASE NotificationCountSetHandler
  <2>1. /\ UNCHANGED <<sent, earlier>> /\ g_notification_count' = 0
        /\ client_reset' = (client_reset \/ g_notification_count > 0)
    BY <1>4 DEF NotificationCountSetHandler, history
  <2>2. Pairs(sent' \cup earlier') = Pairs(told) /\ IsFiniteSet(Pairs(told))
        /\ Cardinality(Pairs(told)) \in Nat
    BY <2>1, FS_CardinalityType DEF CountsPairs
  <2>3. ~client_reset' => Cardinality(Pairs(told)) <= g_notification_count'
    <3>1. ~client_reset' => ~client_reset /\ g_notification_count = 0
      <4>1. g_notification_count > 0 \/ g_notification_count = 0
        BY <1>0
      <4> QED
        BY <2>1, <4>1, Zenon
    <3>2. ~client_reset => Cardinality(Pairs(told)) <= g_notification_count
      BY DEF CountsPairs
    <3> QED
      BY <2>1, <3>1, <3>2
  <2> QED
    BY <2>2, <2>3 DEF CountsPairs
<1>5. CASE ~(SendPending /\ IsActive) /\ ~NotificationCountSetHandler
  <2>1. \/ UNCHANGED <<told, counter>>
        \/ told' = {} /\ g_notification_count' = 0
    BY <1>5 DEF Next, Receive, Wake, UpdateTimeline, ForgetNotifications, SendPending, Rebuild,
                Sleep, Tick, vars, history, counter
  <2> QED
    BY <1>2, <1>3, <2>1
<1> QED
  BY <1>1, <1>4, <1>5

(***************************************************************************)
(* The counter tells of this schedule only, and of all that was announced  *)
(* for it: there is an event for each type and time, unless a client has   *)
(* reset the counter or it has begun anew after 2^32 events.               *)
(***************************************************************************)
THEOREM CounterTellsOfTheSchedule ==
    ASSUME AreWellFormed
    PROVE  Spec /\ CounterDoesNotWrap => []CountIsOfSchedule
<1> DEFINE noWrap == SendPending /\ IsActive =>
              g_notification_count + Cardinality(Events(timelines, current_unix_time)) < CountRange
<1>1. Init => CountsPairs
  <2> SUFFICES ASSUME Init
               PROVE  CountsPairs
    OBVIOUS
  <2>1. Pairs(sent \cup earlier) = {}
    BY DEF Init, Pairs
  <2> QED
    BY <2>1, FS_EmptySet DEF Init, CountsPairs
<1>2. IInv /\ CountsPairs /\ [Next]_vars /\ [noWrap]_vars => CountsPairs'
  <2>1. CASE UNCHANGED vars
    BY <2>1 DEF vars, CountsPairs, counter, history
  <2> QED
    BY <2>1, NextCountsPairs
<1>3. CountsPairs /\ CountsWhatWasSent => CountIsOfSchedule
  BY DEF CountsPairs, CountsWhatWasSent, CountIsOfSchedule, Pairs
<1>4. CounterDoesNotWrap => [][noWrap]_vars
  BY PTL DEF CounterDoesNotWrap
<1> HIDE DEF noWrap
<1> QED
  BY <1>1, <1>2, <1>3, <1>4, Invariance, CounterStartsAtZero, PTL DEF Spec

-----------------------------------------------------------------------------
(***************************************************************************)
(* What is announced of periods that tell of B is true of B, unless the    *)
(* MAC has been blocked since the first time that a weekly timeline knows. *)
(***************************************************************************)
IsTrueOf(B, u, n) ==
    CASE n.type = "STARTING_SOON" -> u \notin B /\ n.time \in B
      [] n.type = "STARTED"       -> u \in B /\ n.time - 1 \notin B
      [] n.type = "ENDING_SOON"   -> u \in B /\ n.time \notin B
      [] n.type \in {"ENDED", "NON_RECURRING_UNPAUSED"} -> u \notin B /\ n.time - 1 \in B

LEMMA WithinIsBlocked ==
    ASSUME NEW periods \in Seq(Period), ArePeriodsApart(periods), NEW t \in Int
    PROVE  IsBlockedIn(periods, t) <=> IsWithin(periods, t)
<1>1. ASSUME NEW k \in DOMAIN periods, periods[k].start <= t
      PROVE  \A i \in 1 .. k - 1 : periods[i].start <= t
  <2> SUFFICES ASSUME NEW i \in 1 .. k - 1
               PROVE  periods[i].start <= t
    OBVIOUS
  <2>1. i \in DOMAIN periods /\ i < k
    OBVIOUS
  <2>2. periods[i].end < periods[k].start /\ periods[i].start < periods[i].end
    BY <2>1, PeriodsIncrease DEF ArePeriodsApart
  <2> QED
    BY <1>1, <2>1, <2>2, PeriodIsTyped
<1> QED
  BY <1>1 DEF IsBlockedIn, IsWithin

LEMMA AnnouncedIsTrue ==
    ASSUME NEW periods \in Seq(Period), ArePeriodsApart(periods), NEW k \in DOMAIN periods,
           NEW B, NEW lo \in Int, NEW kind \in BOOLEAN, NEW b \in Int,
           Tell(B, lo, kind, b, periods),
           NEW u \in Int, b <= u, ~kind => lo <= u /\ ~AreAllIn(B, lo, u),
           NEW x \in Pending(periods[k], u), IsAnnounced(periods, periods[k], x, u), NEW mac
    PROVE  IsTrueOf(B, u, Notification(mac, periods[k], x))
<1> DEFINE p == periods[k]
           n == Notification(mac, p, x)
<1>1. /\ p \in Period /\ p.start \in Int /\ p.end \in Int /\ p.start < p.end
      /\ p.end_is_absolute \in BOOLEAN
  <2>1. p \in Period
    OBVIOUS
  <2>2. p.start \in Int /\ p.end \in Int
    BY PeriodIsTyped
  <2>3. p.start < p.end
    BY DEF ArePeriodsApart
  <2>4. p.end_is_absolute \in BOOLEAN
    BY <2>1, Zenon DEF Period
  <2> QED
    BY <2>1, <2>2, <2>3, <2>4
<1>2. /\ Tells(B, lo, p) /\ p.start_is_absolute = kind
      /\ \A i \in DOMAIN periods : Tells(B, lo, periods[i])
  BY DEF Tell, IsOfKind
<1>3. p.end \notin B /\ \A t \in p.start .. p.end - 1 : t \in B
  BY <1>2 DEF Tells, AreAllIn
<1>4. x \in Kinds /\ p.end >= u /\ u >= DueTime(p, x)
  BY DEF Pending
<1>5. \A t \in Int : IsBlockedIn(periods, t) <=> IsWithin(periods, t)
  BY WithinIsBlocked
<1>6. \A t \in Int : IsWithin(periods, t) => t \in B
  <2> SUFFICES ASSUME NEW t \in Int, NEW i \in DOMAIN periods,
                      periods[i].start <= t, t < periods[i].end
               PROVE  t \in B
    BY DEF IsWithin
  <2>1. t \in periods[i].start .. periods[i].end - 1
    BY PeriodIsTyped
  <2> QED
    BY <1>2, <2>1 DEF Tells, AreAllIn
<1>7. /\ x \in {"STARTING_SOON", "STARTED"} => ~kind
      /\ x = "STARTING_SOON" => ~IsBlockedIn(periods, u)
      /\ x \in {"STARTED", "ENDING_SOON"} => IsBlockedIn(periods, u)
  BY <1>2, <1>4 DEF IsAnnounced, Kinds
<1> HIDE DEF p
<1>8. CASE x = "STARTING_SOON"
  <2>1. p.start \in B
    BY <1>1, <1>3
  <2>2. ASSUME u \in B
        PROVE  FALSE
    <3>1. u < p.end
      BY <1>1, <1>3, <1>4, <2>2
    <3>2. ~IsWithin(periods, u)
      BY <1>5, <1>7, <1>8
    <3>3. u < p.start
      BY <1>1, <3>1, <3>2 DEF IsWithin, p
    <3>4. \E i \in DOMAIN periods : u < periods[i].start
      BY <3>3 DEF p
    <3>5. lo <= u /\ ~AreAllIn(B, lo, u)
      BY <1>7, <1>8
    <3> QED
      BY <2>2, <3>2, <3>4, <3>5, Zenon DEF Tell
  <2>3. n.type = "STARTING_SOON" /\ n.time = p.start
    BY <1>8 DEF Notification
  <2> QED
    BY <2>1, <2>2, <2>3 DEF IsTrueOf, p
<1>9. CASE x = "STARTED"
  <2>1. u \in B
    BY <1>5, <1>6, <1>7, <1>9
  <2>2. ASSUME p.start - 1 \in B
        PROVE  FALSE
    <3>1. AreAllIn(B, lo, p.start - 1)
      BY <1>2, <2>2 DEF Tells
    <3>2. p.start <= u /\ u < p.end
      BY <1>1, <1>3, <1>4, <1>9, <2>1 DEF DueTime
    <3>3. \A t \in lo .. u : t \in lo .. p.start - 1 \/ t \in p.start .. p.end - 1
      BY <1>1, <3>2
    <3>4. AreAllIn(B, lo, u)
      BY <1>3, <3>1, <3>3 DEF AreAllIn
    <3> QED
      BY <1>7, <1>9, <3>4
  <2>3. n.type = "STARTED" /\ n.time = p.start
    BY <1>9 DEF Notification
  <2> QED
    BY <2>1, <2>2, <2>3 DEF IsTrueOf, p
<1>10. CASE x = "ENDING_SOON"
  <2>1. u \in B
    BY <1>5, <1>6, <1>7, <1>10
  <2>2. n.type = "ENDING_SOON" /\ n.time = p.end
    BY <1>10 DEF Notification
  <2> QED
    BY <1>3, <2>1, <2>2 DEF IsTrueOf, p
<1>11. CASE x = "ENDED"
  <2>1. u = p.end /\ p.end - 1 \in p.start .. p.end - 1
    BY <1>1, <1>4, <1>11 DEF DueTime
  <2>2. n.type \in {"ENDED", "NON_RECURRING_UNPAUSED"} /\ n.time = p.end
    BY <1>11 DEF Notification
  <2>3. u \notin B /\ n.time - 1 \in B
    BY <1>3, <2>1, <2>2
  <2> QED
    BY <2>2, <2>3 DEF IsTrueOf, p
<1> QED
  BY <1>4, <1>8, <1>9, <1>10, <1>11 DEF Kinds

(***************************************************************************)
(* The timeline in use was built in the past, and tells of the schedule in *)
(* force what it told when it was built, and knows the same ends.          *)
(***************************************************************************)
KnowTheirMacs == \A x \in Schedules : KnowsItsMacs(x)

KnowsSchedule(s, zone, t, mac, periods) ==
    TellsOfSchedule(s, zone, t, mac, periods) /\ KnowsEndsOf(s, zone, t, mac, periods)

TellsInv ==
    /\ current_unix_time <= now
    /\ notification_timeline # NULL => created_at <= current_unix_time
    /\ notification_timeline # NULL /\ ~schedule_structure_changed
       /\ IsOneKind(current_schedule) =>
          \A mac \in DOMAIN current_schedule.macs :
             KnowsSchedule(current_schedule, processTZ, created_at, mac, timelines[mac])

LEMMA BuildTells ==
    ASSUME AreWellFormed, AreApart, KnowTheirMacs, IInv,
           current_schedule # NULL, IsOneKind(current_schedule),
           NEW mac \in DOMAIN current_schedule.macs
    PROVE  KnowsSchedule(current_schedule, processTZ, current_unix_time, mac,
                         BuildTimelineFromSchedule(current_schedule, processTZ,
                                                   current_unix_time)[mac])
<1>1. /\ current_schedule \in Schedules /\ processTZ \in Zones /\ current_unix_time \in Int
  BY NotifierAssumption DEF IInv, ValueInv
<1>2. /\ HasEventLists(current_schedule) /\ HasMacs(current_schedule)
      /\ HasNoDuplicates(current_schedule) /\ KnowsItsMacs(current_schedule)
      /\ HasOneOffset(processTZ)
      /\ current_schedule.weekly = << >> \/ current_schedule.absolute = << >>
  BY <1>1 DEF AreWellFormed, AreApart, KnowTheirMacs, IsOneKind
<1> QED
  BY <1>1, <1>2, TimelineTells, TimelineEnds DEF KnowsSchedule

LEMMA NextKeepsTelling ==
    ASSUME AreWellFormed, AreApart, KnowTheirMacs, IInv, TellsInv, [Next]_vars
    PROVE  TellsInv'
<1> DEFINE s == current_schedule
           u == current_unix_time
           tells(timeline, t) ==
               IsOneKind(s) => \A mac \in DOMAIN s.macs :
                                  KnowsSchedule(s, processTZ, t, mac, timeline[mac])
<1>0. /\ ValueInv /\ TimelineInv /\ TurnInv /\ now \in Int /\ u \in Int
      /\ u <= now
      /\ notification_timeline # NULL => created_at <= u
      /\ notification_timeline # NULL /\ ~schedule_structure_changed =>
            tells(timelines, created_at)
  BY NotifierAssumption DEF IInv, ValueInv, TellsInv
<1>1. ASSUME BuildTimeline, s # NULL, UNCHANGED <<now, scheduleVars, current_unix_time>>
      PROVE  TellsInv'
  <2>1. /\ notification_timeline'.created_at = u
        /\ notification_timeline'.timelines = BuildTimelineFromSchedule(s, processTZ, u)
    BY <1>1 DEF BuildTimeline
  <2>2. tells(notification_timeline'.timelines, u)
    BY <1>1, <2>1, BuildTells
  <2>3. UNCHANGED <<now, processTZ, current_schedule, current_unix_time>>
    BY <1>1 DEF scheduleVars
  <2> HIDE DEF s
  <2>4. u <= u
    BY <1>0
  <2> QED
    BY <1>0, <2>1, <2>2, <2>3, <2>4 DEF TellsInv, created_at, timelines, s
<1>2. CASE SendPending /\ IsActive
  <2> DEFINE n == Len(s.macs)
             r == MarkDone(timelines, u)
  <2>1. /\ timelines \in Timelines(n) /\ n \in Nat /\ notification_timeline \in Record(n)
        /\ ~schedule_structure_changed /\ s \in Schedules /\ notification_timeline # NULL
    BY <1>0, <1>2, UpdatedTimeline DEF SendPending, IsActive, TurnInv
  <2>2. notification_timeline'.timelines = r /\ notification_timeline'.created_at = created_at
        /\ UNCHANGED <<now, processTZ, current_schedule, current_unix_time>>
    BY <1>2, <2>1 DEF SendPending, Record, timelines, created_at, scheduleVars
  <2>3. /\ r \in Timelines(n)
        /\ \A mac \in 1 .. n :
              /\ Len(r[mac]) = Len(timelines[mac])
              /\ \A k \in DOMAIN timelines[mac] : SamePeriod(r[mac][k], timelines[mac][k])
    BY <1>0, <2>1, MarkDoneIs
  <2>4. DOMAIN s.macs = 1 .. n
    BY <2>1 DEF AreWellFormed, HasMacs
  <2> HIDE DEF r
  <2>5. ASSUME IsOneKind(s), NEW mac \in DOMAIN s.macs
        PROVE  KnowsSchedule(s, processTZ, created_at, mac, r[mac])
    <3>1. KnowsSchedule(s, processTZ, created_at, mac, timelines[mac])
      BY <1>0, <2>1, <2>5
    <3>2. /\ timelines[mac] \in Seq(Period) /\ r[mac] \in Seq(Period)
          /\ Len(timelines[mac]) = Len(r[mac])
          /\ \A k \in DOMAIN timelines[mac] : SamePeriod(r[mac][k], timelines[mac][k])
      BY <2>1, <2>3, <2>4 DEF Timelines
    <3>3. \A B, lo, kind : Tell(B, lo, kind, created_at, timelines[mac])
                              => Tell(B, lo, kind, created_at, r[mac])
      BY <3>2, MarkingKeepsTelling
    <3>4. \A t : HasEnd(timelines[mac], t) => HasEnd(r[mac], t)
      BY <3>2, MarkingKeepsEnds
    <3>5. TellsOfSchedule(s, processTZ, created_at, mac, r[mac])
      BY <3>1, <3>3 DEF KnowsSchedule, TellsOfSchedule
    <3>6. KnowsEndsOf(s, processTZ, created_at, mac, r[mac])
      BY <3>1, <3>4, Zenon DEF KnowsSchedule, KnowsEndsOf
    <3> QED
      BY <3>5, <3>6 DEF KnowsSchedule
  <2>6. tells(r, created_at)
    BY <2>5
  <2> HIDE DEF s
  <2> QED
    BY <1>0, <2>1, <2>2, <2>6 DEF TellsInv, created_at, timelines, s
<1>3. CASE UpdateTimeline \/ Rebuild
  <2>1. UNCHANGED <<now, scheduleVars, current_unix_time>>
    BY <1>3 DEF UpdateTimeline, Rebuild
  <2>2. \/ BuildTimeline /\ s # NULL
        \/ notification_timeline' = NULL
        \/ ~schedule_structure_changed /\ notification_timeline' = notification_timeline
    BY <1>0, <1>3 DEF UpdateTimeline, Rebuild, NeedsRebuild, IsActive, TurnInv
  <2>3. CASE BuildTimeline /\ s # NULL
    BY <1>1, <2>1, <2>3
  <2>4. CASE notification_timeline' = NULL
    BY <1>0, <2>1, <2>4 DEF TellsInv
  <2>5. CASE ~schedule_structure_changed /\ notification_timeline' = notification_timeline
    <3>1. UNCHANGED <<now, processTZ, current_schedule, current_unix_time>>
      BY <2>1 DEF scheduleVars
    <3> QED
      BY <1>0, <2>5, <3>1 DEF TellsInv, created_at, timelines
  <2> QED
    BY <2>2, <2>3, <2>4, <2>5
<1>4. CASE \E x \in Schedules \cup {NULL} : Receive(x)
  <2>1. /\ UNCHANGED <<now, notification_timeline, current_unix_time>>
        /\ schedule_structure_changed' \/ notification_timeline = NULL
    BY <1>4 DEF Receive
  <2> QED
    BY <1>0, <2>1 DEF TellsInv, created_at
<1>5. CASE Wake \/ Tick
  <2>1. /\ UNCHANGED <<scheduleVars, schedule_structure_changed, notification_timeline>>
        /\ now' \in Int /\ now <= now'
        /\ current_unix_time' \in {u, now} /\ (current_unix_time' = u \/ now' = now)
    BY <1>0, <1>5 DEF Wake, Tick
  <2>2. u <= current_unix_time' /\ current_unix_time' <= now'
    BY <1>0, <2>1
  <2>3. UNCHANGED <<processTZ, current_schedule, schedule_structure_changed, notification_timeline>>
    BY <2>1 DEF scheduleVars
  <2>4. notification_timeline # NULL => created_at \in Int
    BY <1>0, NotifierAssumption DEF TimelineInv, Record, created_at
  <2>5. notification_timeline # NULL => created_at <= current_unix_time'
    <3>1. current_unix_time' \in Int
      BY <1>0, <2>1
    <3> QED
      BY <1>0, <2>2, <2>4, <3>1
  <2> QED
    BY <1>0, <2>2, <2>3, <2>5 DEF TellsInv, created_at, timelines
<1>6. CASE UNCHANGED <<now, processTZ, current_schedule, schedule_structure_changed,
                       notification_timeline, current_unix_time>>
  BY <1>0, <1>6 DEF TellsInv, created_at, timelines
<1>7. \/ (SendPending /\ IsActive) \/ UpdateTimeline \/ Rebuild
      \/ (\E x \in Schedules \cup {NULL} : Receive(x)) \/ Wake \/ Tick
      \/ UNCHANGED <<now, processTZ, current_schedule, schedule_structure_changed,
                     notification_timeline, current_unix_time>>
  BY DEF Next, SendPending, Sleep, NotificationCountSetHandler, vars, scheduleVars
<1> QED
  BY <1>2, <1>3, <1>4, <1>5, <1>6, <1>7

LEMMA SendingIsTrue ==
    ASSUME AreWellFormed, AreApart, IInv, PeriodsAreOrdered, TellsInv, SendPending, IsActive,
           IsOneKind(current_schedule), NEW n \in sent' \ sent, ~IsCarriedOver(n.mac)
    PROVE  IsTrue(n)
<1> DEFINE s == current_schedule
           u == current_unix_time
           b == created_at
           B(mac) == BlockedTimes(s, processTZ, mac)
           lo == WeekStart(processTZ, b) - 1
<1>1. /\ timelines \in Timelines(Len(s.macs)) /\ Len(s.macs) \in Nat /\ u \in Int /\ b \in Int
      /\ b <= u /\ ~schedule_structure_changed /\ notification_timeline # NULL
      /\ s \in Schedules /\ processTZ \in Zones
  BY UpdatedTimeline, NotifierAssumption
     DEF SendPending, IsActive, IInv, ValueInv, TurnInv, TellsInv
<1>2. n \in Notifications(timelines, u)
  BY DEF SendPending
<1>3. PICK e \in Batches(timelines, u) : n \in ToSet(e)
  BY <1>2 DEF Notifications, Events
<1>4. PICK mac \in 1 .. Len(s.macs) : \E k \in DOMAIN timelines[mac] :
         n \in NotificationsOf(timelines, mac, k, u)
  BY <1>1, <1>3, BatchIs
<1>5. PICK k \in DOMAIN timelines[mac] : n \in NotificationsOf(timelines, mac, k, u)
  BY <1>4
<1> DEFINE periods == timelines[mac]
<1>6. PICK x \in Pending(periods[k], u) : /\ IsAnnounced(periods, periods[k], x, u)
                                          /\ n = Notification(mac, periods[k], x)
  BY <1>5, Zenon DEF NotificationsOf
<1>7. n.mac = mac /\ x \in Kinds /\ mac \in DOMAIN s.macs
  BY <1>1, <1>6 DEF Notification, Pending, AreWellFormed, HasMacs
<1>8. periods \in Seq(Period) /\ ArePeriodsApart(periods)
  BY <1>1 DEF Timelines, PeriodsAreOrdered, ArePeriodsApart
<1>9. \A t \in Int : BlockedAt(mac, t) <=> t \in B(mac)
  BY DEF BlockedAt, BlockedTimes
<1>10. lo \in Int /\ lo <= u
  <2>1. HasOneOffset(processTZ)
    BY <1>1 DEF AreApart
  <2>2. WeekStart(processTZ, b) \in Int /\ WeekStart(processTZ, b) <= b
    BY <1>1, <2>1, WeekHas
  <2> QED
    BY <1>1, <2>2
<1>11. ~AreAllIn(B(mac), lo, u)
  <2>1. \A t \in lo .. u : t \in Int
    BY <1>1, <1>10
  <2> QED
    BY <1>7, <1>9, <2>1 DEF IsCarriedOver, AreAllIn
<1>12. TellsOfSchedule(s, processTZ, b, mac, periods)
  BY <1>1, <1>7 DEF TellsInv, KnowsSchedule
<1> HIDE DEF periods, B, lo, b, u
<1>13. IsTrueOf(B(mac), u, n)
  <2>1. CASE Tell(B(mac), lo, FALSE, b, periods)
    BY <1>1, <1>6, <1>8, <1>10, <1>11, <2>1, AnnouncedIsTrue DEF periods
  <2>2. CASE \E first \in Int : Tell(B(mac), first, TRUE, b, periods)
    <3>1. PICK first \in Int : Tell(B(mac), first, TRUE, b, periods)
      BY <2>2
    <3> QED
      BY <1>1, <1>6, <1>8, <3>1, AnnouncedIsTrue DEF periods
  <2> QED
    BY <1>12, <2>1, <2>2 DEF TellsOfSchedule, B, lo
<1>14. n.time \in Int /\ n.time - 1 \in Int
  <2>1. periods[k].start \in Int /\ periods[k].end \in Int
    BY <1>8, PeriodIsTyped DEF periods
  <2> QED
    BY <1>6, <2>1 DEF Notification
<1>15. n.type \in {"STARTING_SOON", "STARTED", "ENDING_SOON", "ENDED", "NON_RECURRING_UNPAUSED"}
  BY <1>6, <1>7 DEF Notification, Kinds
<1> QED
  BY <1>1, <1>7, <1>9, <1>13, <1>14, <1>15 DEF IsTrue, IsTrueOf, u

(***************************************************************************)
(* What is announced for a schedule of one kind is true of what the        *)
(* firewall is told, at the time it is sent: a STARTED is sent while the   *)
(* MAC is blocked and was not a second before the start, an ENDED when it  *)
(* is free again, and so on.  Excepted are MACs that have been blocked     *)
(* since the week before the timeline was built.  Assumed are schedules    *)
(* whose event lists name known MACs only and have no two events at one    *)
(* time, and zones without daylight saving time.                           *)
(***************************************************************************)
THEOREM TellsTheTruth ==
    ASSUME AreWellFormed, AreApart, KnowTheirMacs
    PROVE  Spec => AnnouncesTheTruth
<1> DEFINE tellsTruth == \A n \in sent' \ sent :
              IsOneKind(current_schedule) /\ ~IsCarriedOver(n.mac) => IsTrue(n)
<1>1. Init => TellsInv
  BY NotifierAssumption DEF Init, TellsInv
<1>2. IInv /\ TellsInv /\ [Next]_vars => TellsInv'
  BY NextKeepsTelling
<1>3. IInv /\ PeriodsAreOrdered /\ TellsInv /\ [Next]_vars => [tellsTruth]_vars
  <2> SUFFICES ASSUME IInv, PeriodsAreOrdered, TellsInv, [Next]_vars
               PROVE  [tellsTruth]_vars
    OBVIOUS
  <2>1. CASE SendPending /\ IsActive
    BY <2>1, SendingIsTrue
  <2>2. CASE ~(SendPending /\ IsActive)
    <3>1. sent' \ sent = {}
      BY <2>2 DEF Next, Receive, Wake, UpdateTimeline, ForgetNotifications, SendPending, Rebuild,
                  Sleep, Tick, NotificationCountSetHandler, vars, history
    <3> QED
      BY <3>1
  <2> QED
    BY <2>1, <2>2
<1>4. [][tellsTruth]_vars => AnnouncesTheTruth
  BY PTL DEF AnnouncesTheTruth
<1> HIDE DEF tellsTruth
<1> QED
  BY <1>1, <1>2, <1>3, <1>4, OrderInvariance, PTL DEF Spec

-----------------------------------------------------------------------------
(***************************************************************************)
(* What a timeline built at that time has to announce of a period, if no   *)
(* wake-up was later than that.                                            *)
(***************************************************************************)
Deserves(periods, p, kind, built, late) ==
    LET due == DueTime(p, kind)
    IN  /\ Applies(p, kind) /\ built < p.end /\ built <= due
        /\ kind # "ENDED" => ~p.start_is_absolute /\ ~p.end_is_absolute
        /\ kind = "STARTING_SOON" => \A t \in due .. due + late : ~IsWithin(periods, t)
        /\ kind = "STARTED" => p.start + late < p.end
        /\ kind = "ENDED" => late = 0

LEMMA EndIsFree ==
    ASSUME NEW periods \in Seq(Period), ArePeriodsApart(periods), NEW k \in DOMAIN periods
    PROVE  ~IsWithin(periods, periods[k].end)
<1> SUFFICES ASSUME NEW i \in DOMAIN periods,
                    periods[i].start <= periods[k].end, periods[k].end < periods[i].end
             PROVE  FALSE
  BY DEF IsWithin
<1>1. /\ periods[i].start \in Int /\ periods[i].end \in Int
      /\ periods[k].start \in Int /\ periods[k].end \in Int
      /\ periods[i].start < periods[i].end /\ periods[k].start < periods[k].end
  BY PeriodIsTyped DEF ArePeriodsApart
<1>2. i < k => periods[i].end < periods[k].start
  BY PeriodsIncrease
<1>3. k < i => periods[k].end < periods[i].start
  BY PeriodsIncrease
<1>4. i < k \/ k < i \/ i = k
  OBVIOUS
<1> HIDE DEF IsWithin
<1> QED
  BY <1>1, <1>2, <1>3, <1>4

LEMMA DueIs ==
    ASSUME NEW periods \in Seq(Period), ArePeriodsApart(periods), NEW k \in DOMAIN periods,
           NEW kind \in Kinds
    PROVE  LET p == periods[k]
           IN  /\ p.start \in Int /\ p.end \in Int /\ p.start < p.end
               /\ DueTime(p, kind) \in Int /\ DueTime(p, kind) <= p.end
               /\ kind \in {"STARTING_SOON", "STARTED"} => DueTime(p, kind) < p.end
<1>1. /\ periods[k].start \in Int /\ periods[k].end \in Int
      /\ periods[k].start < periods[k].end /\ Advance \in Nat
  BY PeriodIsTyped, TimelineAssumption DEF ArePeriodsApart
<1> QED
  BY <1>1 DEF DueTime, Kinds

LEMMA DeservedIsAnnounced ==
    ASSUME NEW periods \in Seq(Period), ArePeriodsApart(periods), NEW k \in DOMAIN periods,
           NEW kind \in Kinds \ periods[k].done, NEW built, NEW late \in Nat, NEW u \in Int,
           Deserves(periods, periods[k], kind, built, late),
           DueTime(periods[k], kind) <= u, u - DueTime(periods[k], kind) <= late,
           late <= Late, Late < Advance
    PROVE  kind \in Pending(periods[k], u) /\ IsAnnounced(periods, periods[k], kind, u)
<1> DEFINE p == periods[k]
           due == DueTime(p, kind)
<1>1. /\ p.start \in Int /\ p.end \in Int /\ p.start < p.end /\ due \in Int
      /\ Advance \in Nat /\ Late \in Nat /\ kind \in Kinds
  BY DueIs, TimelineAssumption
<1>2. /\ Applies(p, kind)
      /\ kind # "ENDED" => ~p.start_is_absolute /\ ~p.end_is_absolute
      /\ kind = "STARTING_SOON" => \A t \in due .. due + late : ~IsWithin(periods, t)
      /\ kind = "STARTED" => p.start + late < p.end
      /\ kind = "ENDED" => late = 0
  BY DEF Deserves
<1>3. due <= u /\ u <= due + late /\ u - due <= Late
  BY <1>1
<1>4. \A t \in Int : IsBlockedIn(periods, t) <=> IsWithin(periods, t)
  BY WithinIsBlocked
<1>5. \A t \in Int : p.start <= t /\ t < p.end => IsWithin(periods, t)
  BY DEF IsWithin
<1>6. ~IsWithin(periods, p.end)
  BY EndIsFree
<1>11. \A start, end, d, v \in Int :
          /\ start < end /\ d <= v /\ v <= d + late
          => /\ d = start - Advance => v < end
             /\ d = start /\ start + late < end => start <= v /\ v < end
             /\ d = end - Advance /\ end - start >= Advance => start <= v /\ v < end
             /\ d = end /\ late = 0 => v = end
  BY TimelineAssumption
<1> HIDE DEF p
<1>7. CASE kind = "STARTING_SOON"
  <2>1. due = p.start - Advance
    BY <1>7 DEF DueTime
  <2> HIDE DEF due
  <2>2. u < p.end /\ IsWithin(periods, p.start)
    <3>1. u < p.end
      BY <1>1, <1>3, <1>11, <2>1, Zenon
    <3> QED
      BY <1>1, <1>5, <3>1
  <2>3. ~IsWithin(periods, u)
    BY <1>1, <1>2, <1>3, <1>7
  <2>4. kind \in Pending(p, u)
    BY <1>1, <1>2, <1>3, <2>2 DEF Pending, p, due
  <2>5. IsAnnounced(periods, p, kind, u)
    BY <1>1, <1>2, <1>3, <1>4, <1>7, <2>2, <2>3 DEF IsAnnounced, due
  <2> QED
    BY <2>4, <2>5 DEF p
<1>8. CASE kind = "STARTED"
  <2>1. due = p.start
    BY <1>8 DEF DueTime
  <2> HIDE DEF due
  <2>2. u < p.end /\ IsWithin(periods, u)
    <3>1. p.start + late < p.end
      BY <1>2, <1>8
    <3>2. p.start <= u /\ u < p.end
      BY <1>1, <1>3, <1>11, <2>1, <3>1, Zenon
    <3> QED
      BY <1>5, <3>2
  <2>3. kind \in Pending(p, u)
    BY <1>1, <1>2, <1>3, <2>2 DEF Pending, p, due
  <2>4. IsAnnounced(periods, p, kind, u)
    BY <1>1, <1>2, <1>3, <1>4, <1>8, <2>2 DEF IsAnnounced, due
  <2> QED
    BY <2>3, <2>4 DEF p
<1>9. CASE kind = "ENDING_SOON"
  <2>1. due = p.end - Advance /\ p.end - p.start >= Advance
    BY <1>2, <1>9 DEF DueTime, Applies
  <2> HIDE DEF due
  <2>2. u < p.end /\ IsWithin(periods, u)
    <3>1. p.start <= u /\ u < p.end
      BY <1>1, <1>3, <1>11, <2>1, Zenon
    <3> QED
      BY <1>5, <3>1
  <2>3. kind \in Pending(p, u)
    BY <1>1, <1>2, <1>3, <2>2 DEF Pending, p, due
  <2>4. IsAnnounced(periods, p, kind, u)
    BY <1>1, <1>2, <1>3, <1>4, <1>6, <1>9, <2>2 DEF IsAnnounced, due
  <2> QED
    BY <2>3, <2>4 DEF p
<1>10. CASE kind = "ENDED"
  <2>1. due = p.end
    BY <1>10 DEF DueTime
  <2> HIDE DEF due
  <2>2. u = p.end /\ IsWithin(periods, p.end - 1) /\ p.end - 1 \in Int
    <3>1. late = 0
      BY <1>2, <1>10
    <3>2. u = p.end
      BY <1>1, <1>3, <1>11, <2>1, <3>1
    <3>3. \A i, j \in Int : i < j => i <= j - 1 /\ j - 1 < j /\ j - 1 \in Int
      OBVIOUS
    <3> QED
      BY <1>1, <1>5, <3>2, <3>3
  <2>3. kind \in Pending(p, u)
    BY <1>1, <1>2, <1>3, <2>2 DEF Pending, p, due
  <2>4. IsAnnounced(periods, p, kind, u)
    BY <1>1, <1>3, <1>4, <1>6, <1>10, <2>2 DEF IsAnnounced, due
  <2> QED
    BY <2>3, <2>4 DEF p
<1> QED
  BY <1>1, <1>7, <1>8, <1>9, <1>10 DEF Kinds

(***************************************************************************)
(* What was deserved and is marked was sent.  In the turns after the one   *)
(* in which the timeline was built, what is due is marked once the thread  *)
(* has sent; before that, nothing that it has still to send is due for     *)
(* longer than the thread has been late.                                   *)
(***************************************************************************)
IsDealtWith(mac, p, kind, built, late, said, at, u) ==
    /\ kind \in p.done => Notification(mac, p, kind) \in said
    /\ at \in {"rebuild", "sleep", "asleep"} /\ built < u /\ DueTime(p, kind) <= u =>
          kind \in p.done
    /\ at \in {"build", "send"} /\ kind \notin p.done /\ DueTime(p, kind) <= u =>
          u - DueTime(p, kind) <= late

IsSaid(timeline, built, late, said, at, u) ==
    \A mac \in DOMAIN timeline : \A k \in DOMAIN timeline[mac] : \A kind \in Kinds :
       Deserves(timeline[mac], timeline[mac][k], kind, built, late) =>
          IsDealtWith(mac, timeline[mac][k], kind, built, late, said, at, u)

LEMMA NewIsSaid ==
    ASSUME NEW n \in Nat, NEW timeline \in Timelines(n),
           \A mac \in 1 .. n : ArePeriodsApart(timeline[mac]) /\ AreNew(timeline[mac]),
           NEW u \in Int, NEW late \in Nat, NEW at
    PROVE  IsSaid(timeline, u, late, {}, at, u)
<1>1. SUFFICES ASSUME NEW mac \in 1 .. n, NEW k \in DOMAIN timeline[mac], NEW kind \in Kinds,
                      Deserves(timeline[mac], timeline[mac][k], kind, u, late)
               PROVE  IsDealtWith(mac, timeline[mac][k], kind, u, late, {}, at, u)
  BY Zenon DEF IsSaid, Timelines
<1> DEFINE p == timeline[mac][k]
           due == DueTime(p, kind)
<1>2. timeline[mac] \in Seq(Period) /\ ArePeriodsApart(timeline[mac]) /\ p.done = {}
  BY DEF Timelines, AreNew
<1>3. due \in Int
  BY <1>2, DueIs
<1>4. u <= due
  BY <1>1, Zenon DEF Deserves
<1> HIDE DEF due
<1>5. due <= u => u - due <= late
  BY <1>3, <1>4
<1>6. ~(u < u)
  OBVIOUS
<1> QED
  BY <1>2, <1>5, <1>6, Zenon DEF IsDealtWith, due

LEMMA LessIsDeserved ==
    ASSUME NEW n \in Nat, NEW timeline \in Timelines(n), NEW mac \in 1 .. n,
           NEW k \in DOMAIN timeline[mac], NEW kind \in Kinds, ArePeriodsApart(timeline[mac]),
           NEW built, NEW late \in Nat, NEW late2 \in Nat, late <= late2,
           Deserves(timeline[mac], timeline[mac][k], kind, built, late2)
    PROVE  Deserves(timeline[mac], timeline[mac][k], kind, built, late)
<1> DEFINE p == timeline[mac][k]
           due == DueTime(p, kind)
<1>1. p.start \in Int /\ p.end \in Int /\ due \in Int
  BY DueIs DEF Timelines
<1>2. /\ Applies(p, kind) /\ built < p.end /\ built <= due
      /\ kind # "ENDED" => ~p.start_is_absolute /\ ~p.end_is_absolute
      /\ kind = "STARTING_SOON" => \A t \in due .. due + late2 : ~IsWithin(timeline[mac], t)
      /\ kind = "STARTED" => p.start + late2 < p.end
      /\ kind = "ENDED" => late2 = 0
  BY Zenon DEF Deserves
<1> HIDE DEF p, due
<1>3. \A t \in due .. due + late : t \in due .. due + late2
  BY <1>1
<1>4. p.start + late2 < p.end => p.start + late < p.end
  BY <1>1
<1>5. late2 = 0 => late = 0
  OBVIOUS
<1> QED
  BY <1>2, <1>3, <1>4, <1>5, Zenon DEF Deserves, p, due

LEMMA WakingIsInTime ==
    ASSUME NEW n \in Nat, NEW timeline \in Timelines(n),
           \A mac \in 1 .. n : ArePeriodsApart(timeline[mac]),
           NEW built \in Int, NEW u \in Int, built <= u, NEW t \in Int, 0 < Advance,
           NEW late \in Nat, NEW late2 \in Nat, late <= late2, NEW said,
           IsSaid(timeline, built, late, said, "asleep", u),
           \A mac \in 1 .. n : \A k \in DOMAIN timeline[mac] : \A kind \in Kinds :
              Waits(timeline[mac][k], kind, u) => t - DueTime(timeline[mac][k], kind) <= late2
    PROVE  IsSaid(timeline, built, late2, said, "build", t)
<1>1. SUFFICES ASSUME NEW mac \in 1 .. n, NEW k \in DOMAIN timeline[mac], NEW kind \in Kinds,
                      Deserves(timeline[mac], timeline[mac][k], kind, built, late2)
               PROVE  IsDealtWith(mac, timeline[mac][k], kind, built, late2, said, "build", t)
  BY Zenon DEF IsSaid, Timelines
<1> DEFINE p == timeline[mac][k]
           due == DueTime(p, kind)
<1>2. /\ timeline[mac] \in Seq(Period) /\ p.end \in Int /\ due \in Int /\ due <= p.end
      /\ kind \in {"STARTING_SOON", "STARTED"} => due < p.end
      /\ kind = "ENDING_SOON" => due < p.end
  <2>1. timeline[mac] \in Seq(Period) /\ mac \in DOMAIN timeline
    BY DEF Timelines
  <2>2. /\ p.end \in Int /\ due \in Int /\ due <= p.end
        /\ kind \in {"STARTING_SOON", "STARTED"} => due < p.end
    BY <2>1, DueIs
  <2>3. kind = "ENDING_SOON" => due = p.end - Advance
    BY DEF DueTime
  <2> HIDE DEF p, due
  <2>4. p.end - Advance < p.end
    BY <2>2, TimelineAssumption
  <2> QED
    BY <2>1, <2>2, <2>3, <2>4
<1>3. IsDealtWith(mac, p, kind, built, late, said, "asleep", u)
  <2>1. Deserves(timeline[mac], p, kind, built, late)
    BY <1>1, LessIsDeserved
  <2>2. DOMAIN timeline = 1 .. n
    BY DEF Timelines
  <2> QED
    BY <2>1, <2>2, Zenon DEF IsSaid
<1>4. /\ kind \in p.done => Notification(mac, p, kind) \in said
      /\ built < u /\ due <= u => kind \in p.done
  BY <1>3, Zenon DEF IsDealtWith
<1>5. /\ Applies(p, kind) /\ built < p.end /\ built <= due
      /\ kind # "ENDED" => ~p.start_is_absolute
  BY <1>1, Zenon DEF Deserves
<1>6. ASSUME kind \notin p.done
      PROVE  Waits(p, kind, u)
  <2>1. due > u \/ built = u
    <3> HIDE DEF p, due
    <3> QED
      BY <1>2, <1>4, <1>6
  <2>2. p.end > u /\ due >= u
    <3> HIDE DEF p, due
    <3> QED
      BY <1>2, <1>5, <2>1
  <2>3. kind \in {"STARTING_SOON", "STARTED"} => ~p.start_is_absolute
    BY <1>5
  <2> QED
    BY <1>5, <1>6, <2>2, <2>3, Zenon DEF Waits
<1>7. kind \notin p.done => t - due <= late2
  BY <1>6
<1>8. "build" \notin {"rebuild", "sleep", "asleep"}
  OBVIOUS
<1> QED
  BY <1>4, <1>7, <1>8, Zenon DEF IsDealtWith

LEMMA MarkingDeserves ==
    ASSUME NEW a \in Seq(Period), NEW b \in Seq(Period), Len(a) = Len(b),
           \A k \in DOMAIN a : SamePeriod(b[k], a[k]),
           NEW k \in DOMAIN a, NEW kind \in Kinds, NEW built, NEW late,
           Deserves(b, b[k], kind, built, late)
    PROVE  Deserves(a, a[k], kind, built, late)
<1>1. DOMAIN b = DOMAIN a
  OBVIOUS
<1>2. \A i \in DOMAIN a : b[i].start = a[i].start /\ b[i].end = a[i].end
  BY DEF SamePeriod
<1>3. \A t : IsWithin(a, t) <=> IsWithin(b, t)
  BY <1>1, <1>2 DEF IsWithin
<1>4. /\ b[k].start = a[k].start /\ b[k].end = a[k].end
      /\ b[k].start_is_absolute = a[k].start_is_absolute
      /\ b[k].end_is_absolute = a[k].end_is_absolute
  BY DEF SamePeriod
<1>5. /\ DueTime(b[k], kind) = DueTime(a[k], kind)
      /\ Applies(b[k], kind) <=> Applies(a[k], kind)
  BY <1>4 DEF DueTime, Applies
<1> QED
  BY <1>3, <1>4, <1>5 DEF Deserves

LEMMA SendingSays ==
    ASSUME NEW n \in Nat, n <= BatchSize, n <= ArrayRoom, Late < Advance,
           NEW timeline \in Timelines(n), \A mac \in 1 .. n : ArePeriodsApart(timeline[mac]),
           NEW built, NEW u \in Int, NEW late \in Nat, late <= Late, NEW said,
           IsSaid(timeline, built, late, said, "send", u)
    PROVE  IsSaid(MarkDone(timeline, u), built, late, said \cup Notifications(timeline, u),
                  "rebuild", u)
<1> DEFINE r == MarkDone(timeline, u)
           now_said == said \cup Notifications(timeline, u)
<1>1. /\ r \in Timelines(n)
      /\ \A mac \in 1 .. n :
            /\ Len(r[mac]) = Len(timeline[mac])
            /\ \A k \in DOMAIN timeline[mac] :
                  /\ SamePeriod(r[mac][k], timeline[mac][k])
                  /\ timeline[mac][k].done \subseteq r[mac][k].done
                  /\ r[mac][k].done \subseteq
                        timeline[mac][k].done \cup Pending(timeline[mac][k], u)
                  /\ \A x \in Pending(timeline[mac][k], u) :
                        (\E b \in Batches(timeline, u) :
                            Notification(mac, timeline[mac][k], x) \in ToSet(b))
                               => x \in r[mac][k].done
  BY MarkDoneIs
<1> HIDE DEF r, now_said
<1>2. SUFFICES ASSUME NEW mac \in 1 .. n, NEW k \in DOMAIN r[mac], NEW kind \in Kinds,
                      Deserves(r[mac], r[mac][k], kind, built, late)
               PROVE  IsDealtWith(mac, r[mac][k], kind, built, late, now_said, "rebuild", u)
  <2>1. DOMAIN r = 1 .. n
    BY <1>1 DEF Timelines
  <2> QED
    BY <2>1, Zenon DEF IsSaid, r, now_said
<1> DEFINE periods == timeline[mac]
           p == periods[k]
           q == r[mac][k]
           due == DueTime(p, kind)
<1>3. /\ periods \in Seq(Period) /\ r[mac] \in Seq(Period) /\ Len(r[mac]) = Len(periods)
      /\ \A i \in DOMAIN periods : SamePeriod(r[mac][i], periods[i])
      /\ ArePeriodsApart(periods)
  BY <1>1 DEF Timelines
<1>4. k \in DOMAIN periods /\ DOMAIN timeline = 1 .. n
  BY <1>3 DEF Timelines
<1>5. Deserves(periods, p, kind, built, late)
  <2> HIDE DEF periods
  <2>1. Len(periods) = Len(r[mac])
    BY <1>3
  <2> QED
    BY <1>2, <1>3, <1>4, <2>1, MarkingDeserves
<1>6. IsDealtWith(mac, p, kind, built, late, said, "send", u)
  BY <1>4, <1>5, Zenon DEF IsSaid
<1>7. /\ kind \in p.done => Notification(mac, p, kind) \in said
      /\ kind \notin p.done /\ due <= u => u - due <= late
  BY <1>6 DEF IsDealtWith
<1>8. Notification(mac, q, kind) = Notification(mac, p, kind) /\ DueTime(q, kind) = due
  <2>1. SamePeriod(q, p)
    BY <1>3, <1>4
  <2> QED
    BY <2>1 DEF SamePeriod, Notification, DueTime
<1>9. ASSUME kind \notin p.done, due <= u
      PROVE  kind \in q.done /\ Notification(mac, p, kind) \in Notifications(timeline, u)
  <2> HIDE DEF periods
  <2>1. kind \in Pending(p, u) /\ IsAnnounced(periods, p, kind, u)
    BY <1>3, <1>4, <1>5, <1>7, <1>9, DeservedIsAnnounced
  <2>2. Notification(mac, p, kind) \in NotificationsOf(timeline, mac, k, u)
    BY <2>1, Zenon DEF NotificationsOf, periods
  <2>3. PICK b \in Batches(timeline, u) : Notification(mac, p, kind) \in ToSet(b) /\ Len(b) <= n
    BY <1>4, <2>2, AllAreBatched DEF periods
  <2>4. Len(b) <= ArrayRoom
    <3>1. Len(b) \in Nat
      <4> DEFINE N == Announcements(timeline, n, u)
      <4>1. PICK type \in Types : b \in ToSet(BatchesOf(timeline, type, u))
        BY DEF Batches
      <4>2. BatchesOf(timeline, type, u) \in BatchLists(N, type)
        BY BatchesOfIs
      <4> HIDE DEF N
      <4> QED
        BY <4>1, <4>2 DEF BatchLists, BatchesIn, ToSet
    <3> QED
      BY <2>3, <3>1, TimelineAssumption
  <2>5. Notification(mac, p, kind) \in Notifications(timeline, u)
    BY <2>3, <2>4, Zenon DEF Notifications, Events
  <2>6. kind \in q.done
    BY <1>1, <1>4, <2>1, <2>3, Zenon DEF periods
  <2> QED
    BY <2>5, <2>6
<1>10. kind \in p.done => kind \in q.done
  BY <1>1, <1>4
<1>11. kind \in q.done => kind \in p.done \/ due <= u
  <2>1. q.done \subseteq p.done \cup Pending(p, u)
    BY <1>1, <1>4
  <2>2. kind \in Pending(p, u) => due <= u
    <3>1. due \in Int
      BY <1>3, <1>4, DueIs
    <3> HIDE DEF due
    <3>2. kind \in Pending(p, u) => u >= due
      BY DEF Pending, due
    <3> QED
      BY <3>1, <3>2
  <2> QED
    BY <2>1, <2>2
<1> HIDE DEF p, q, due
<1>12. Notification(mac, q, kind) \in said \/ Notification(mac, q, kind) \in Notifications(timeline, u)
          => Notification(mac, q, kind) \in now_said
  BY DEF now_said
<1>13. "rebuild" \notin {"build", "send"}
  OBVIOUS
<1>14. kind \in q.done => Notification(mac, q, kind) \in now_said
  BY <1>7, <1>8, <1>9, <1>11, <1>12, Zenon
<1>15. DueTime(q, kind) <= u => kind \in q.done
  BY <1>8, <1>9, <1>10, Zenon
<1> QED
  BY <1>13, <1>14, <1>15, Zenon DEF IsDealtWith, q

CanSay ==
    /\ IsActive /\ ~schedule_structure_changed
    /\ lateness <= Late /\ Len(current_schedule.macs) <= ArrayRoom

SaysInv ==
    CanSay => IsSaid(timelines, created_at, lateness, sent, pc, current_unix_time)

LEMMA BuildSays ==
    ASSUME AreWellFormed, AreApart, IInv, current_schedule # NULL, BuildTimeline,
           NEW late \in Nat, NEW at
    PROVE  IsSaid(notification_timeline'.timelines, notification_timeline'.created_at,
                  late, {}, at, current_unix_time)
<1> DEFINE s == current_schedule
           u == current_unix_time
           r == BuildTimelineFromSchedule(s, processTZ, u)
<1>1. /\ HasEventLists(s) /\ HasMacs(s) /\ HasOffsets(processTZ) /\ u \in Int
      /\ HasNoDuplicates(s) /\ HasOneOffset(processTZ)
  BY NotifierAssumption DEF IInv, ValueInv, AreWellFormed, AreApart
<1>2. r \in Timelines(Len(s.macs)) /\ \A mac \in 1 .. Len(s.macs) : ArePeriodsApart(r[mac])
  BY <1>1, BuildTimelineIs
<1>3. \A mac \in 1 .. Len(s.macs) : AreNew(r[mac])
  BY <1>1, NothingIsDoneYet DEF HasMacs
<1>4. notification_timeline'.timelines = r /\ notification_timeline'.created_at = u
  BY DEF BuildTimeline
<1> HIDE DEF r
<1>5. IsSaid(r, u, late, {}, at, u)
  BY <1>1, <1>2, <1>3, NewIsSaid DEF HasMacs
<1> QED
  BY <1>4, <1>5

LEMMA LaterIsSaid ==
    ASSUME NEW timeline, NEW built, NEW late, NEW said, NEW u,
           NEW at, NEW next, IsSaid(timeline, built, late, said, at, u),
           \/ at = "build" /\ next = "send"
           \/ at = "rebuild" /\ next = "sleep"
           \/ at = "sleep" /\ next = "asleep"
    PROVE  IsSaid(timeline, built, late, said, next, u)
<1>1. /\ next \in {"rebuild", "sleep", "asleep"} => at \in {"rebuild", "sleep", "asleep"}
      /\ next \in {"build", "send"} => at \in {"build", "send"}
  OBVIOUS
<1>2. SUFFICES ASSUME NEW mac \in DOMAIN timeline, NEW k \in DOMAIN timeline[mac],
                      NEW kind \in Kinds,
                      Deserves(timeline[mac], timeline[mac][k], kind, built, late)
               PROVE  IsDealtWith(mac, timeline[mac][k], kind, built, late, said, next, u)
  BY Zenon DEF IsSaid
<1>3. IsDealtWith(mac, timeline[mac][k], kind, built, late, said, at, u)
  BY <1>2, Zenon DEF IsSaid
<1> QED
  BY <1>1, <1>3, Zenon DEF IsDealtWith

LEMMA NextSays ==
    ASSUME AreWellFormed, AreApart, Late < Advance, ArrayRoom <= BatchSize,
           IInv, PeriodsAreOrdered, DeadlineInv, TellsInv, SaysInv, [Next]_vars
    PROVE  SaysInv'
<1> DEFINE s == current_schedule
           u == current_unix_time
           n == Len(s.macs)
           now_timelines == notification_timeline'.timelines
           now_created_at == notification_timeline'.created_at
<1>0. /\ ValueInv /\ TimelineInv /\ TurnInv /\ now \in Int /\ u \in Int /\ u <= now
      /\ lateness \in Nat /\ tm \in Int /\ Advance \in Nat /\ Late \in Nat /\ ArrayRoom \in Nat
      /\ BatchSize \in Nat
  BY NotifierAssumption, TimelineAssumption DEF IInv, ValueInv, TellsInv
<1>1. SUFFICES ASSUME CanSay'
               PROVE  IsSaid(now_timelines, now_created_at, lateness', sent', pc',
                             current_unix_time')
  BY DEF SaysInv, timelines, created_at
<1>2. /\ notification_timeline' # NULL /\ current_schedule' # NULL
      /\ ~schedule_structure_changed' /\ lateness' <= Late
      /\ Len(current_schedule'.macs) <= ArrayRoom
  BY <1>1 DEF CanSay, IsActive
<1>3. ASSUME IsActive, ~schedule_structure_changed
      PROVE  /\ timelines \in Timelines(n) /\ n \in Nat /\ created_at \in Int
             /\ created_at <= u /\ notification_timeline \in Record(n)
             /\ \A mac \in 1 .. n : ArePeriodsApart(timelines[mac])
  <2>1. /\ timelines \in Timelines(n) /\ n \in Nat /\ created_at \in 0 .. MaxTime
        /\ notification_timeline \in Record(n)
    BY <1>3, UpdatedTimeline DEF IsActive
  <2>2. \A mac \in 1 .. n : ArePeriodsApart(timelines[mac])
    BY <1>3, <2>1 DEF PeriodsAreOrdered, ArePeriodsApart, Timelines, IsActive
  <2>3. created_at \in Int
    BY <2>1, NotifierAssumption
  <2>4. created_at <= u
    BY <1>3 DEF TellsInv, IsActive
  <2> QED
    BY <2>1, <2>2, <2>3, <2>4
<1>4. CASE Wake
  <2>1. /\ pc = "asleep" /\ pc' = "build"
        /\ UNCHANGED <<now, scheduleVars, schedule_structure_changed, notification_timeline, sent>>
        /\ current_unix_time' = IF s = NULL THEN u ELSE now
        /\ lateness' = IF now - tm > lateness THEN now - tm ELSE lateness
    BY <1>4 DEF Wake
  <2>2. IsActive /\ ~schedule_structure_changed /\ current_unix_time' = now
        /\ current_schedule' = s
    BY <1>2, <2>1 DEF IsActive, scheduleVars
  <2>3. lateness' \in Nat /\ lateness <= lateness' /\ now - tm <= lateness'
    BY <1>0, <2>1
  <2>4. lateness <= Late /\ n <= ArrayRoom
    <3>1. lateness <= Late
      <4>1. \A i, j, k \in Int : i <= j /\ j <= k => i <= k
        OBVIOUS
      <4>2. lateness \in Int /\ lateness' \in Int /\ Late \in Int
        BY <1>0, <2>3
      <4> QED
        BY <1>2, <2>3, <4>1, <4>2
    <3> QED
      BY <1>2, <2>2, <3>1
  <2>5. IsSaid(timelines, created_at, lateness, sent, "asleep", u)
    BY <2>1, <2>2, <2>4 DEF SaysInv, CanSay
  <2>6. \A mac \in 1 .. n : \A k \in DOMAIN timelines[mac] : \A kind \in Kinds :
           Waits(timelines[mac][k], kind, u) =>
              now - DueTime(timelines[mac][k], kind) <= lateness'
    <3> DEFINE r == GetNextNotificationTime(timelines, u)
    <3>1. tm <= r
      BY <2>1, <2>2 DEF DeadlineInv
    <3>2. r \in Int /\ \A mac \in 1 .. n : \A k \in DOMAIN timelines[mac] : \A kind \in Kinds :
             Waits(timelines[mac][k], kind, u) => r <= DueTime(timelines[mac][k], kind)
      BY <1>0, <1>3, <2>2, NextNotificationTimeIs
    <3> HIDE DEF r
    <3> SUFFICES ASSUME NEW mac \in 1 .. n, NEW k \in DOMAIN timelines[mac], NEW kind \in Kinds,
                        Waits(timelines[mac][k], kind, u)
                 PROVE  now - DueTime(timelines[mac][k], kind) <= lateness'
      OBVIOUS
    <3> DEFINE due == DueTime(timelines[mac][k], kind)
    <3>3. r <= due
      BY <3>2
    <3>4. due \in Int
      BY <1>3, <2>2, DueIs DEF Timelines
    <3> HIDE DEF due
    <3>5. \A i, j, x, y, z \in Int : i <= x /\ x <= y /\ j - i <= z => j - y <= z
      OBVIOUS
    <3>6. lateness' \in Int
      BY <2>3
    <3>7. now - due <= lateness'
      BY <1>0, <2>3, <3>1, <3>2, <3>3, <3>4, <3>5, <3>6
    <3> QED
      BY <3>7 DEF due
  <2>7. 0 < Advance
    BY <1>0
  <2>8. IsSaid(timelines, created_at, lateness', sent, "build", now)
    BY <1>0, <1>3, <2>2, <2>3, <2>5, <2>6, <2>7, WakingIsInTime
  <2> QED
    BY <2>1, <2>2, <2>8 DEF timelines, created_at
<1>5. CASE UpdateTimeline
  <2>1. /\ pc = "build" /\ pc' = "send" /\ UNCHANGED <<scheduleVars, current_unix_time>>
    BY <1>5 DEF UpdateTimeline
  <2>2. current_schedule' = s /\ s # NULL
    BY <1>2, <2>1 DEF scheduleVars
  <2>3. CASE schedule_structure_changed
    <3>1. BuildTimeline /\ sent' = {} /\ lateness' = 0
      BY <1>5, <2>2, <2>3 DEF UpdateTimeline, ForgetNotifications
    <3>2. 0 \in Nat
      OBVIOUS
    <3>3. IsSaid(now_timelines, now_created_at, 0, {}, "send", u)
      BY <2>2, <3>1, <3>2, BuildSays
    <3> QED
      BY <2>1, <3>1, <3>3
  <2>4. CASE ~schedule_structure_changed
    <3>1. UNCHANGED <<notification_timeline, sent, lateness>>
      BY <1>5, <2>4 DEF UpdateTimeline, history
    <3>2. IsSaid(timelines, created_at, lateness, sent, "build", u)
      BY <1>2, <2>1, <2>2, <2>4, <3>1 DEF SaysInv, CanSay, IsActive
    <3>3. IsSaid(timelines, created_at, lateness, sent, "send", u)
      BY <3>2, LaterIsSaid
    <3> QED
      BY <2>1, <3>1, <3>3 DEF timelines, created_at
  <2> QED
    BY <2>3, <2>4
<1>6. CASE SendPending
  <2>1. /\ pc = "send" /\ pc' = "rebuild"
        /\ UNCHANGED <<scheduleVars, schedule_structure_changed, current_unix_time, lateness>>
    BY <1>6 DEF SendPending
  <2>2. IsActive /\ ~schedule_structure_changed /\ current_schedule' = s
    <3>1. current_schedule' = s /\ ~schedule_structure_changed
      BY <1>2, <2>1 DEF scheduleVars
    <3>2. CASE ~IsActive
      BY <1>2, <1>6, <3>1, <3>2 DEF SendPending, IsActive
    <3> QED
      BY <3>1, <3>2
  <2>3. lateness <= Late /\ n <= ArrayRoom /\ n <= BatchSize /\ Late < Advance
    <3>1. lateness <= Late /\ n <= ArrayRoom /\ n \in Nat
      BY <1>2, <1>3, <2>1, <2>2
    <3> HIDE DEF n
    <3> QED
      BY <1>0, <3>1
  <2>4. IsSaid(timelines, created_at, lateness, sent, "send", u)
    BY <2>1, <2>2, <2>3 DEF SaysInv, CanSay
  <2>5. IsSaid(MarkDone(timelines, u), created_at, lateness, sent \cup Notifications(timelines, u),
               "rebuild", u)
    BY <1>0, <1>3, <2>2, <2>3, <2>4, SendingSays
  <2>6. /\ now_timelines = MarkDone(timelines, u) /\ now_created_at = created_at
        /\ sent' = sent \cup Notifications(timelines, u)
    BY <1>3, <1>6, <2>2 DEF SendPending, Record, timelines, created_at
  <2> QED
    BY <2>1, <2>5, <2>6
<1>7. CASE Rebuild
  <2>1. /\ pc = "rebuild" /\ pc' = "sleep"
        /\ UNCHANGED <<scheduleVars, schedule_structure_changed, current_unix_time, lateness>>
    BY <1>7 DEF Rebuild
  <2>2. current_schedule' = s /\ s # NULL /\ ~schedule_structure_changed
    BY <1>2, <2>1 DEF scheduleVars
  <2>3. CASE NeedsRebuild
    <3>1. BuildTimeline /\ sent' = {}
      BY <1>7, <2>3 DEF Rebuild
    <3>2. IsSaid(now_timelines, now_created_at, lateness, {}, "sleep", u)
      BY <1>0, <2>2, <3>1, BuildSays
    <3> QED
      BY <2>1, <3>1, <3>2
  <2>4. CASE ~NeedsRebuild
    <3>1. UNCHANGED <<notification_timeline, sent>>
      BY <1>7, <2>4 DEF Rebuild
    <3>2. IsSaid(timelines, created_at, lateness, sent, "rebuild", u)
      BY <1>2, <2>1, <2>2, <3>1 DEF SaysInv, CanSay, IsActive
    <3>3. IsSaid(timelines, created_at, lateness, sent, "sleep", u)
      BY <3>2, LaterIsSaid
    <3> QED
      BY <2>1, <3>1, <3>3 DEF timelines, created_at
  <2> QED
    BY <2>3, <2>4
<1>8. CASE \E x \in Schedules \cup {NULL} : Receive(x)
  <2>1. /\ notification_timeline' = notification_timeline
        /\ schedule_structure_changed' \/ notification_timeline = NULL
    BY <1>8 DEF Receive
  <2> QED
    BY <1>2, <2>1
<1>9. CASE /\ UNCHANGED <<current_schedule, schedule_structure_changed, notification_timeline,
                          current_unix_time, sent, lateness>>
           /\ pc' = pc \/ (pc = "sleep" /\ pc' = "asleep")
  <2>1. IsSaid(timelines, created_at, lateness, sent, pc, u)
    BY <1>2, <1>9 DEF SaysInv, CanSay, IsActive
  <2>2. IsSaid(timelines, created_at, lateness, sent, pc', u)
    <3>1. CASE pc' = pc
      BY <2>1, <3>1
    <3>2. CASE pc = "sleep" /\ pc' = "asleep"
      BY <2>1, <3>2, LaterIsSaid
    <3> QED
      BY <1>9, <3>1, <3>2
  <2> QED
    BY <1>9, <2>2 DEF timelines, created_at
<1>10. Sleep \/ Tick \/ NotificationCountSetHandler \/ UNCHANGED vars =>
          /\ UNCHANGED <<current_schedule, schedule_structure_changed, notification_timeline,
                         current_unix_time, sent, lateness>>
          /\ pc' = pc \/ (pc = "sleep" /\ pc' = "asleep")
  BY DEF Sleep, Tick, NotificationCountSetHandler, vars, history, scheduleVars
<1> QED
  BY <1>4, <1>5, <1>6, <1>7, <1>8, <1>9, <1>10, Zenon DEF Next

LEMMA SayingInvariance ==
    ASSUME AreWellFormed, AreApart, KnowTheirMacs, Late < Advance, ArrayRoom <= BatchSize
    PROVE  Spec => [](IInv /\ PeriodsAreOrdered /\ TellsInv /\ SaysInv)
<1>1. Init => DeadlineInv /\ TellsInv /\ SaysInv
  BY NotifierAssumption DEF Init, DeadlineInv, TellsInv, SaysInv, CanSay, IsActive
<1>2. IInv /\ TellsInv /\ [Next]_vars => TellsInv'
  BY NextKeepsTelling
<1>3. IInv /\ DeadlineInv /\ [Next]_vars => DeadlineInv'
  BY NextKeepsDeadline
<1>4. IInv /\ PeriodsAreOrdered /\ DeadlineInv /\ TellsInv /\ SaysInv /\ [Next]_vars => SaysInv'
  BY NextSays
<1> QED
  BY <1>1, <1>2, <1>3, <1>4, OrderInvariance, PTL DEF Spec

(***************************************************************************)
(* The period of a block that the timeline knows.                          *)
(***************************************************************************)
LEMMA WithinIsTold ==
    ASSUME NEW periods \in Seq(Period), NEW B, NEW lo, NEW kind, NEW from,
           Tell(B, lo, kind, from, periods), NEW t \in Int, IsWithin(periods, t)
    PROVE  t \in B
<1>1. PICK i \in DOMAIN periods : periods[i].start <= t /\ t < periods[i].end
  BY DEF IsWithin
<1>2. t \in periods[i].start .. periods[i].end - 1
  BY <1>1, PeriodIsTyped
<1> QED
  BY <1>2 DEF Tell, Tells, AreAllIn

(* A block of those that AnnouncesItsWeeks is about.                       *)
IsBlockOf(B, lo, b, e) ==
    /\ lo < b /\ b < e /\ b - 1 \notin B /\ e \notin B
    /\ \A t \in b .. e - 1 : t \in B

LEMMA PeriodOfBlock ==
    ASSUME NEW periods \in Seq(Period), NEW B, NEW lo \in Int, NEW from,
           Tell(B, lo, FALSE, from, periods),
           NEW b \in Int, NEW e \in Int, IsBlockOf(B, lo, b, e),
           NEW i \in DOMAIN periods, periods[i].end = e
    PROVE  periods[i].start = b /\ IsOfKind(periods[i], FALSE)
<1> DEFINE start == periods[i].start
<1>1. Tells(B, lo, periods[i]) /\ IsOfKind(periods[i], FALSE) /\ start \in Int
  BY PeriodIsTyped DEF Tell
<1>2. /\ lo <= start /\ start < e
      /\ \A t \in start .. e - 1 : t \in B
      /\ start - 1 \in B => \A t \in lo .. start - 1 : t \in B
  BY <1>1, Zenon DEF Tells, AreAllIn
<1>3. lo < b /\ b < e /\ b - 1 \notin B /\ \A t \in b .. e - 1 : t \in B
  BY Zenon DEF IsBlockOf
<1> HIDE DEF start
<1>4. ~(start < b)
  <2>1. start < b => b - 1 \in start .. e - 1
    BY <1>1, <1>3
  <2> QED
    BY <1>2, <1>3, <2>1
<1>5. ~(b < start)
  <2>1. b < start => start - 1 \in b .. e - 1 /\ b - 1 \in lo .. start - 1
    BY <1>1, <1>2, <1>3
  <2> QED
    BY <1>2, <1>3, <2>1
<1>6. start = b
  BY <1>1, <1>4, <1>5
<1> QED
  BY <1>1, <1>6 DEF start

LEMMA DeservedIsSaid ==
    ASSUME SaysInv, CanSay, pc = "sleep", created_at < current_unix_time,
           NEW mac \in DOMAIN timelines, NEW i \in DOMAIN timelines[mac], NEW kind \in Kinds,
           Deserves(timelines[mac], timelines[mac][i], kind, created_at, lateness),
           DueTime(timelines[mac][i], kind) <= current_unix_time
    PROVE  Notification(mac, timelines[mac][i], kind) \in sent
<1>1. IsDealtWith(mac, timelines[mac][i], kind, created_at, lateness, sent, pc, current_unix_time)
  BY Zenon DEF SaysInv, IsSaid
<1>2. pc \in {"rebuild", "sleep", "asleep"}
  OBVIOUS
<1> QED
  BY <1>1, <1>2, Zenon DEF IsDealtWith

(* A period tells of the block, and all that is due of it has been sent.   *)
IsBlockSaid(mac, b, e) ==
    \E i \in DOMAIN timelines[mac] :
       LET p == timelines[mac][i]
           said(kind) == Notification(mac, p, kind) \in sent
           free == \A t \in b - Advance .. b - Advance + lateness :
                      t \notin BlockedTimes(current_schedule, processTZ, mac)
           isDue(t) == created_at <= t /\ t <= current_unix_time
           recurring == current_schedule.absolute = << >>
       IN  /\ p.end = e
           /\ recurring => p.start = b
           /\ p.end_is_absolute <=> ~recurring
           /\ recurring /\ e - b >= Advance /\ isDue(b - Advance) /\ free => said("STARTING_SOON")
           /\ recurring /\ e - b > lateness /\ isDue(b) => said("STARTED")
           /\ recurring /\ e - b >= Advance /\ isDue(e - Advance) => said("ENDING_SOON")
           /\ lateness = 0 /\ isDue(e) => said("ENDED")

LEMMA BlockIsSaid ==
    ASSUME AreWellFormed, AreApart, Late < Advance, IInv, PeriodsAreOrdered, TellsInv, SaysInv,
           HasSent, IsOneKind(current_schedule), lateness <= Late,
           Len(current_schedule.macs) <= ArrayRoom,
           NEW mac \in DOMAIN current_schedule.macs, NEW b \in Int, NEW e \in Int,
           IsBlockOf(BlockedTimes(current_schedule, processTZ, mac),
                     WeekStart(processTZ, created_at) - 1, b, e),
           e < WeekStart(processTZ, created_at) + WeeksAhead * Week, created_at < e
    PROVE  IsBlockSaid(mac, b, e)
<1> DEFINE s == current_schedule
           u == current_unix_time
           c == created_at
           B == BlockedTimes(s, processTZ, mac)
           W == WeekStart(processTZ, c)
           limit == W + WeeksAhead * Week
           periods == timelines[mac]
           recurring == s.absolute = << >>
<1>1. /\ IsActive /\ ~schedule_structure_changed /\ pc = "sleep" /\ c < u
      /\ timelines \in Timelines(Len(s.macs)) /\ Len(s.macs) \in Nat
      /\ c \in Int /\ u \in Int /\ lateness \in Nat
      /\ s \in Schedules /\ processTZ \in Zones /\ notification_timeline # NULL
  BY UpdatedTimeline, NotifierAssumption DEF HasSent, IsActive, IInv, ValueInv, TurnInv
<1>2. DOMAIN timelines = 1 .. Len(s.macs) /\ DOMAIN s.macs = 1 .. Len(s.macs)
      /\ periods \in Seq(Period)
  BY <1>1 DEF Timelines, AreWellFormed, HasMacs
<1>3. ArePeriodsApart(periods)
  BY <1>1, <1>2 DEF PeriodsAreOrdered, ArePeriodsApart
<1>4. KnowsSchedule(s, processTZ, c, mac, periods)
  BY <1>1 DEF TellsInv
<1>5. W \in Int /\ W - 1 \in Int
  BY <1>1, WeekHas DEF AreApart
<1>6. /\ W - 1 < b /\ b < e /\ b - 1 \notin B /\ e \notin B
      /\ \A t \in b .. e - 1 : t \in B
  BY Zenon DEF IsBlockOf
<1>7. CanSay
  BY <1>1 DEF CanSay
<1> HIDE DEF B, W, periods, limit, c, u
<1>8. HasEnd(periods, e)
  <2>1. KnowsEndsOf(s, processTZ, c, mac, periods)
    BY <1>4 DEF KnowsSchedule
  <2>2. EndsAt(B, e)
    <3>1. e - 1 \in b .. e - 1
      BY <1>6
    <3> QED
      BY <1>6, <3>1 DEF EndsAt
  <2>3. ~AreAllIn(B, W - 1, e - 1)
    <3>1. b - 1 \in W - 1 .. e - 1
      BY <1>5, <1>6
    <3> QED
      BY <1>6, <3>1 DEF AreAllIn
  <2>4. c < e /\ e < limit
    BY DEF c, limit, W
  <2> QED
    BY <2>1, <2>2, <2>3, <2>4, Zenon DEF KnowsEndsOf, B, W, limit
<1>9. PICK i \in DOMAIN periods : periods[i].end = e
  BY <1>8 DEF HasEnd
<1> DEFINE p == periods[i]
<1>10. recurring => s.weekly # << >>
  <2> SUFFICES ASSUME recurring, s.weekly = << >>
               PROVE  FALSE
    OBVIOUS
  <2>1. b \in B
    BY <1>6
  <2>2. GetBlockedAtTime(s, processTZ, b) = << >>
    BY DEF GetBlockedAtTime
  <2> QED
    BY <2>1, <2>2 DEF B, BlockedTimes, ToSet
<1>11. /\ recurring => /\ Tell(B, W - 1, FALSE, c, periods)
                       /\ p.start = b /\ IsOfKind(p, FALSE)
       /\ ~recurring => IsOfKind(p, TRUE)
  <2>1. \/ recurring /\ Tell(B, W - 1, FALSE, c, periods)
        \/ s.weekly = << >> /\ \E lo \in Int : Tell(B, lo, TRUE, c, periods)
    BY <1>4, Zenon DEF KnowsSchedule, TellsOfSchedule, B, W
  <2>2. ASSUME recurring
        PROVE  Tell(B, W - 1, FALSE, c, periods) /\ p.start = b /\ IsOfKind(p, FALSE)
    <3>1. Tell(B, W - 1, FALSE, c, periods)
      BY <1>10, <2>1, <2>2
    <3>2. p.start = b /\ IsOfKind(p, FALSE)
      BY <1>2, <1>5, <1>9, <3>1, PeriodOfBlock DEF B, W, c
    <3> QED
      BY <3>1, <3>2
  <2>3. ASSUME ~recurring
        PROVE  IsOfKind(p, TRUE)
    BY <2>1, <2>3, Zenon DEF Tell
  <2> QED
    BY <2>2, <2>3
<1>12. /\ p.end = e
       /\ p.end_is_absolute <=> ~recurring
       /\ recurring => p.start = b /\ ~p.start_is_absolute /\ ~p.end_is_absolute
       /\ recurring => \A t \in Int : IsWithin(periods, t) => t \in B
  <2>1. recurring => \A t \in Int : IsWithin(periods, t) => t \in B
    BY <1>2, <1>11, WithinIsTold
  <2>2. (~recurring => p.end_is_absolute = TRUE)
        /\ (recurring => p.start_is_absolute = FALSE /\ p.end_is_absolute = FALSE)
    BY <1>11, Zenon DEF IsOfKind
  <2> QED
    BY <1>9, <1>11, <2>1, <2>2
<1> HIDE DEF p, recurring
<1>13. ASSUME NEW kind \in Kinds, Deserves(periods, p, kind, c, lateness), DueTime(p, kind) <= u
       PROVE  Notification(mac, p, kind) \in sent
  BY <1>1, <1>2, <1>7, <1>13, DeservedIsSaid DEF periods, p, c, u
<1>14. Advance \in Nat /\ Late \in Nat /\ 0 < Advance
  BY TimelineAssumption
<1>15. ASSUME recurring, e - b >= Advance, c <= b - Advance, b - Advance <= u,
              \A t \in b - Advance .. b - Advance + lateness : t \notin B
       PROVE  Notification(mac, p, "STARTING_SOON") \in sent
  <2>1. DueTime(p, "STARTING_SOON") = b - Advance
    BY <1>12, <1>15 DEF DueTime
  <2>2. Applies(p, "STARTING_SOON") /\ c < p.end
    BY <1>12, <1>15 DEF Applies, c
  <2>3. \A t \in b - Advance .. b - Advance + lateness : ~IsWithin(periods, t)
    <3>1. \A t \in b - Advance .. b - Advance + lateness : t \in Int
      BY <1>1, <1>14
    <3> QED
      BY <1>12, <1>15, <3>1
  <2>4. Deserves(periods, p, "STARTING_SOON", c, lateness)
    BY <1>12, <1>15, <2>1, <2>2, <2>3 DEF Deserves
  <2> QED
    BY <1>13, <1>15, <2>1, <2>4 DEF Kinds
<1>16. ASSUME recurring, e - b > lateness, c <= b, b <= u
       PROVE  Notification(mac, p, "STARTED") \in sent
  <2>1. DueTime(p, "STARTED") = b
    BY <1>12, <1>16 DEF DueTime
  <2>2. Applies(p, "STARTED") /\ c < p.end
    BY <1>12 DEF Applies, c
  <2>3. p.start + lateness < p.end
    BY <1>1, <1>12, <1>16
  <2>4. Deserves(periods, p, "STARTED", c, lateness)
    BY <1>12, <1>16, <2>1, <2>2, <2>3 DEF Deserves
  <2> QED
    BY <1>13, <1>16, <2>1, <2>4 DEF Kinds
<1>17. ASSUME recurring, e - b >= Advance, c <= e - Advance, e - Advance <= u
       PROVE  Notification(mac, p, "ENDING_SOON") \in sent
  <2>1. DueTime(p, "ENDING_SOON") = e - Advance
    BY <1>12 DEF DueTime
  <2>2. Applies(p, "ENDING_SOON") /\ c < p.end
    BY <1>12, <1>17 DEF Applies, c
  <2>3. Deserves(periods, p, "ENDING_SOON", c, lateness)
    BY <1>12, <1>17, <2>1, <2>2 DEF Deserves
  <2> QED
    BY <1>13, <1>17, <2>1, <2>3 DEF Kinds
<1>18. ASSUME lateness = 0, c <= e, e <= u
       PROVE  Notification(mac, p, "ENDED") \in sent
  <2>1. DueTime(p, "ENDED") = e
    BY <1>12 DEF DueTime
  <2>2. Applies(p, "ENDED") /\ c < p.end
    BY <1>12 DEF Applies, c
  <2>3. Deserves(periods, p, "ENDED", c, lateness)
    BY <1>18, <2>1, <2>2 DEF Deserves
  <2> QED
    BY <1>13, <1>18, <2>1, <2>3 DEF Kinds
<1> QED
  BY <1>9, <1>12, <1>15, <1>16, <1>17, <1>18, Zenon
     DEF IsBlockSaid, p, periods, recurring, B, c, u

LEMMA SaysItsWeeks ==
    ASSUME AreWellFormed, AreApart, Late < Advance, IInv, PeriodsAreOrdered, TellsInv, SaysInv
    PROVE  AnnouncesItsWeeks
<1> DEFINE s == current_schedule
           u == current_unix_time
           c == created_at
           W == WeekStart(processTZ, c)
           limit == W + WeeksAhead * Week
<1>1. SUFFICES
        ASSUME notification_timeline # NULL, HasSent, IsOneKind(s), lateness <= Late,
               Len(s.macs) <= ArrayRoom, NEW mac \in DOMAIN s.macs, NEW b \in W .. u + Advance,
               ~BlockedAt(mac, b - 1), BlockedAt(mac, b), NEW e \in b + 1 .. limit - 1,
               IsBlock(mac, b, e)
        PROVE  LET recurring == s.absolute = << >>
                   isLong == e - b >= Advance
                   ended == IF recurring THEN "ENDED" ELSE "NON_RECURRING_UNPAUSED"
                   isDue(t) == c <= t /\ t <= u
                   said(type, t) == [type |-> type, mac |-> mac, time |-> t] \in sent \cup earlier
                   isFree == \A t \in b - Advance .. b - Advance + lateness : ~BlockedAt(mac, t)
               IN  /\ recurring /\ isLong /\ isDue(b - Advance) /\ isFree => said("STARTING_SOON", b)
                   /\ recurring /\ e - b > lateness /\ isDue(b) => said("STARTED", b)
                   /\ recurring /\ isLong /\ isDue(e - Advance) => said("ENDING_SOON", e)
                   /\ lateness = 0 /\ isDue(e) /\ e > c => said(ended, e)
  BY Zenon DEF AnnouncesItsWeeks, AnnouncesBlocksUntil
<1> DEFINE B == BlockedTimes(s, processTZ, mac)
<1>2. /\ u \in Int /\ W \in Int /\ limit \in Int /\ c \in Int /\ lateness \in Nat
      /\ Advance \in Nat /\ 0 < Advance
  <2>1. /\ u \in Int /\ c \in Int /\ lateness \in Nat /\ processTZ \in Zones
    BY <1>1, UpdatedTimeline, NotifierAssumption DEF HasSent, IInv, ValueInv, TurnInv
  <2>2. W \in Int
    BY <2>1, WeekHas DEF AreApart
  <2>3. WeeksAhead * Week \in Int /\ Advance \in Nat /\ 0 < Advance
    BY WeekAssumption, TimelineAssumption
  <2> HIDE DEF W
  <2> QED
    BY <2>1, <2>2, <2>3
<1> HIDE DEF W, limit, u, c
<1>3. b \in Int /\ e \in Int /\ W <= b /\ b < e /\ e < limit
  BY <1>1, <1>2
<1>4. \A t \in Int : BlockedAt(mac, t) <=> t \in B
  BY DEF BlockedAt, BlockedTimes
<1>5. IsBlockOf(B, W - 1, b, e)
  <2>1. W - 1 < b /\ b - 1 \in Int /\ \A t \in b .. e - 1 : t \in Int
    BY <1>2, <1>3
  <2> QED
    BY <1>1, <1>3, <1>4, <2>1 DEF IsBlockOf, IsBlock
<1>6. \A t \in b - Advance .. b - Advance + lateness : t \in Int
  BY <1>2, <1>3
<1> HIDE DEF B
<1> DEFINE recurring == s.absolute = << >>
           free == \A t \in b - Advance .. b - Advance + lateness : t \notin B
           isFree == \A t \in b - Advance .. b - Advance + lateness : ~BlockedAt(mac, t)
           ended == IF recurring THEN "ENDED" ELSE "NON_RECURRING_UNPAUSED"
<1>7. isFree => free
  BY <1>4, <1>6
<1>8. CASE c < e
  <2>1. IsBlockSaid(mac, b, e)
    BY <1>1, <1>3, <1>5, <1>8, BlockIsSaid DEF B, W, limit, u, c
  <2>2. PICK i \in DOMAIN timelines[mac] :
          LET p == timelines[mac][i]
              said(kind) == Notification(mac, p, kind) \in sent
              isDue(t) == c <= t /\ t <= u
          IN  /\ p.end = e
              /\ recurring => p.start = b
              /\ p.end_is_absolute <=> ~recurring
              /\ recurring /\ e - b >= Advance /\ isDue(b - Advance) /\ free => said("STARTING_SOON")
              /\ recurring /\ e - b > lateness /\ isDue(b) => said("STARTED")
              /\ recurring /\ e - b >= Advance /\ isDue(e - Advance) => said("ENDING_SOON")
              /\ lateness = 0 /\ isDue(e) => said("ENDED")
    BY <2>1, Zenon DEF IsBlockSaid, B, u, c
  <2> DEFINE p == timelines[mac][i]
  <2>3. p.end = e /\ (recurring => p.start = b) /\ (p.end_is_absolute <=> ~recurring)
    BY <2>2
  <2>4. /\ recurring => /\ Notification(mac, p, "STARTING_SOON")
                              = [type |-> "STARTING_SOON", mac |-> mac, time |-> b]
                        /\ Notification(mac, p, "STARTED")
                              = [type |-> "STARTED", mac |-> mac, time |-> b]
                        /\ Notification(mac, p, "ENDING_SOON")
                              = [type |-> "ENDING_SOON", mac |-> mac, time |-> e]
        /\ Notification(mac, p, "ENDED") = [type |-> ended, mac |-> mac, time |-> e]
    BY <2>3 DEF Notification
  <2>5. \A n \in sent : n \in sent \cup earlier
    OBVIOUS
  <2> HIDE DEF recurring, free, isFree, ended, p
  <2>6. /\ recurring /\ e - b >= Advance /\ (c <= b - Advance /\ b - Advance <= u) /\ isFree =>
              [type |-> "STARTING_SOON", mac |-> mac, time |-> b] \in sent \cup earlier
        /\ recurring /\ e - b > lateness /\ (c <= b /\ b <= u) =>
              [type |-> "STARTED", mac |-> mac, time |-> b] \in sent \cup earlier
        /\ recurring /\ e - b >= Advance /\ (c <= e - Advance /\ e - Advance <= u) =>
              [type |-> "ENDING_SOON", mac |-> mac, time |-> e] \in sent \cup earlier
        /\ lateness = 0 /\ (c <= e /\ e <= u) =>
              [type |-> ended, mac |-> mac, time |-> e] \in sent \cup earlier
    BY <1>7, <2>2, <2>4, <2>5, Zenon DEF p
  <2> QED
    BY <2>6, Zenon DEF recurring, isFree, ended
<1>9. CASE ~(c < e)
  <2>1. ~(c <= b) /\ ~(c <= b - Advance) /\ ~(c <= e - Advance) /\ ~(e > c)
    BY <1>2, <1>3, <1>9
  <2> QED
    BY <2>1, Zenon
<1> QED
  BY <1>8, <1>9

(***************************************************************************)
(* AnnouncesItsWeeks: no block of the weeks of a timeline goes without its *)
(* notifications, as far as the time has come.  The timeline has a period  *)
(* for it, nothing that falls due is slept over, a thread that wakes up in *)
(* time finds it pending, and neither a batch nor a list is too short for  *)
(* it: periods that are apart put one entry for each MAC into a batch.     *)
(* The code has an advance time of 15 minutes, accepts five seconds, and *)
(* has room for 256 MACs in a batch and about a hundred in a list.         *)
(***************************************************************************)
THEOREM AnnouncesEveryBlock ==
    ASSUME AreWellFormed, AreApart, KnowTheirMacs, Late < Advance, ArrayRoom <= BatchSize
    PROVE  Spec => []AnnouncesItsWeeks
<1>1. IInv /\ PeriodsAreOrdered /\ TellsInv /\ SaysInv => AnnouncesItsWeeks
  BY SaysItsWeeks
<1> QED
  BY <1>1, SayingInvariance, PTL
=============================================================================
