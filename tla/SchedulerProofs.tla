--------------------------- MODULE SchedulerProofs --------------------------
(***************************************************************************)
(* Proofs about Scheduler, for every set of schedules, zones and addresses *)
(* and every clock offset.                                                 *)
(***************************************************************************)
EXTENDS Scheduler, ScheduleProofs

(***************************************************************************)
(* What a schedule prescribes is a block list of one of its events.        *)
(***************************************************************************)
LEMMA BlockedInLists ==
    ASSUME NEW x \in Schedules, NEW zone \in Zones, NEW t \in 0 .. MaxTime
    PROVE  GetBlockedAtTime(x, zone, t) \in Lists
<1>1. \A e \in Events(x) : BlockList(x, e) \in Lists
  BY DEF Lists
<1>2. << >> \in Lists
  BY DEF Lists
<1>3. t \in Int /\ Weekly(zone, t) \in Int
  BY WeekAssumption, SchedulesAssumption, SchedulerAssumption DEF Weekly
<1>4. x.absolute # << >> => x.absolute[Reached(x.absolute, t)] \in Events(x)
  <2> SUFFICES ASSUME x.absolute # << >>
               PROVE  x.absolute[Reached(x.absolute, t)] \in Events(x)
    OBVIOUS
  <2>1. Reached(x.absolute, t) \in DOMAIN x.absolute
    BY <1>3, SchedulesAssumption, ReachedStops DEF IsReached
  <2> QED
    BY <2>1 DEF Events
<1>5. x.weekly # << >> => x.weekly[Reached(x.weekly, Weekly(zone, t))] \in Events(x)
  <2> SUFFICES ASSUME x.weekly # << >>
               PROVE  x.weekly[Reached(x.weekly, Weekly(zone, t))] \in Events(x)
    OBVIOUS
  <2>1. Reached(x.weekly, Weekly(zone, t)) \in DOMAIN x.weekly
    BY <1>3, SchedulesAssumption, ReachedStops DEF IsReached
  <2> QED
    BY <2>1 DEF Events
<1> QED
  BY <1>1, <1>2, <1>3, <1>4, <1>5 DEF GetBlockedAtTime

(***************************************************************************)
(* The wake-up time is a number.                                           *)
(***************************************************************************)
LEMMA NextIsInt ==
    ASSUME NEW x \in Schedules, NEW zone \in Zones, NEW t \in 0 .. MaxTime
    PROVE  GetNextUnixtime(x, zone, t) \in Int
<1>1. t \in Int /\ UTCOffset(zone, t) \in Int
  BY SchedulesAssumption, SchedulerAssumption
<1>2. x.absolute \in Seq(ScheduleEvent) /\ x.weekly \in Seq(ScheduleEvent)
  BY SchedulesAssumption
<1> QED
  BY <1>1, <1>2, NextUnixtimeIs

-----------------------------------------------------------------------------
(***************************************************************************)
(* The inductive invariant.  The lock is held in the body of the loop and  *)
(* nowhere else; under it no swap is unseen; and outside of the two steps  *)
(* between a decision and the firewall the two lists agree.  The metric    *)
(* lags behind the list for one step only.                                 *)
(***************************************************************************)
LockInv ==
    /\ locked <=> HoldsLock
    /\ locked => ~unseen

ListInv ==
    /\ threadPC = "start" => current_blocked_macs = << >>
    /\ threadPC \notin {"start", "apply", "firewall"} => firewall = current_blocked_macs
    /\ EnabledMeansBlocked

IInv ==
    /\ TypeOK
    /\ SchedulesAreOwned
    /\ LockInv
    /\ ListInv
    /\ NoLostWakeup

LEMMA InitIInv == Init => IInv
<1> SUFFICES ASSUME Init
             PROVE  IInv
  OBVIOUS
<1> USE DEF Init
<1>1. TypeOK
  <2>1. << >> \in Lists
    BY DEF Lists
  <2>2. heap \in [Addresses -> Schedules \cup {Free}]
    OBVIOUS
  <2>3. {current_blocked_macs, firewall} \subseteq Lists
    BY <2>1
  <2>4. tm \in Int /\ 0 \in 0 .. MaxTime /\ 0 \in 0 .. MaxMessages
    BY WeekAssumption, SchedulerAssumption
  <2>5. {locked, schedule_changed, schedule_structure_changed, unseen} \subseteq BOOLEAN
    OBVIOUS
  <2> QED
    BY <2>2, <2>3, <2>4, <2>5 DEF TypeOK, MainPCs, ThreadPCs
<1>2. SchedulesAreOwned
  BY DEF SchedulesAreOwned, Owned
<1>3. LockInv /\ ListInv /\ NoLostWakeup
  BY DEF LockInv, HoldsLock, ListInv, EnabledMeansBlocked, NoLostWakeup
<1> QED
  BY <1>1, <1>2, <1>3 DEF IInv

(***************************************************************************)
(* The schedule the thread reads is allocated.                             *)
(***************************************************************************)
LEMMA CurrentIsLive ==
    ASSUME IInv, current_schedule # NULL
    PROVE  current_schedule \in Addresses /\ heap[current_schedule] \in Schedules
BY SchedulerAssumption DEF IInv, TypeOK, SchedulesAreOwned, Owned

LEMMA NextTypeOK == IInv /\ [Next]_vars => TypeOK'
<1> SUFFICES ASSUME IInv, [Next]_vars
             PROVE  TypeOK'
  OBVIOUS
<1> USE DEF TypeOK, MainPCs, ThreadPCs, mainVars, threadVars, sharedVars, worldVars
<1>0. TypeOK
  BY DEF IInv
<1>1. ASSUME NEW x \in Schedules, NEW a \in Addresses, ReceiveSchedule(x, a)
      PROVE  TypeOK'
  BY <1>0, <1>1, SchedulerAssumption, SchedulesAssumption
     DEF ReceiveSchedule, Receive, ZoneAfter
<1>2. ASSUME NEW zone \in InvalidZones, ReceiveInvalid(zone)
      PROVE  TypeOK'
  BY <1>0, <1>2, SchedulerAssumption DEF ReceiveInvalid, Receive
<1>3. CASE ReceiveDelete
  BY <1>0, <1>3, SchedulerAssumption DEF ReceiveDelete, Receive
<1>4. CASE Swap
  BY <1>0, <1>4 DEF Swap
<1>5. CASE Signal
  BY <1>0, <1>5 DEF Signal
<1>6. CASE Destroy
  BY <1>0, <1>6 DEF Destroy
<1>7. CASE Start
  BY <1>0, <1>7 DEF Start, Lists
<1>8. CASE Lock
  BY <1>0, <1>8 DEF Lock
<1>9. CASE Evaluate
  <2>1. BlockedNow \in Lists
    BY <1>0, CurrentIsLive, BlockedInLists DEF BlockedNow, Lists
  <2> QED
    BY <1>0, <1>9, <2>1 DEF Evaluate
<1>10. CASE Apply
  BY <1>0, <1>10, CurrentIsLive, SchedulesAssumption DEF Apply, ZoneAfter
<1>11. CASE CallFirewall
  BY <1>0, <1>11 DEF CallFirewall
<1>12. CASE UpdateTimeline
  <2>1. BuildTimeline /\ current_schedule # NULL
          => /\ notification_timeline' \in Timelines
             /\ processTZ' \in Zones
    BY <1>0, CurrentIsLive, SchedulesAssumption DEF BuildTimeline, Timelines, ZoneAfter
  <2> QED
    BY <1>0, <1>12, <2>1 DEF UpdateTimeline, NeedsRebuild
<1>13. CASE Sleep
  <2>1. tm' \in Int
    BY <1>0, <1>13, CurrentIsLive, NextIsInt, WeekAssumption DEF Sleep
  <2> QED
    BY <1>0, <1>13, <2>1 DEF Sleep
<1>14. CASE Timeout \/ EarlyWakeUp
  BY <1>0, <1>14 DEF Timeout, EarlyWakeUp, WakeUp
<1>15. CASE Unlock
  BY <1>0, <1>15 DEF Unlock
<1>16. CASE Tick
  BY <1>0, <1>16, SchedulerAssumption DEF Tick
<1>17. CASE UNCHANGED vars
  BY <1>0, <1>17 DEF vars
<1> QED
  BY <1>1, <1>2, <1>3, <1>4, <1>5, <1>6, <1>7, <1>8, <1>9, <1>10, <1>11, <1>12, <1>13,
     <1>14, <1>15, <1>16, <1>17 DEF Next, Thread, Main

(***************************************************************************)
(* Ownership: only the main thread allocates, moves and frees.             *)
(***************************************************************************)
LEMMA NextOwned == IInv /\ [Next]_vars => SchedulesAreOwned'
<1> SUFFICES ASSUME IInv, [Next]_vars
             PROVE  SchedulesAreOwned'
  OBVIOUS
<1> USE DEF SchedulesAreOwned, Owned
<1>0. SchedulesAreOwned /\ TypeOK
  BY DEF IInv
<1>1. ASSUME NEW x \in Schedules, NEW a \in Addresses, ReceiveSchedule(x, a)
      PROVE  SchedulesAreOwned'
  BY <1>0, <1>1, SchedulerAssumption DEF ReceiveSchedule, Receive, TypeOK
<1>2. ASSUME NEW zone \in InvalidZones, ReceiveInvalid(zone)
      PROVE  SchedulesAreOwned'
  BY <1>0, <1>2 DEF ReceiveInvalid, Receive, sharedVars
<1>3. CASE ReceiveDelete
  BY <1>0, <1>3 DEF ReceiveDelete, Receive, sharedVars
<1>4. CASE Swap
  BY <1>0, <1>4 DEF Swap
<1>5. CASE Signal
  BY <1>0, <1>5 DEF Signal, sharedVars
<1>6. CASE Destroy
  BY <1>0, <1>6, SchedulerAssumption DEF Destroy, TypeOK
<1>7. CASE Thread \/ Tick \/ UNCHANGED vars
  <2>1. UNCHANGED <<heap, current_schedule, mainPC, s, tmp>>
    BY <1>7 DEF Thread, Start, Lock, Evaluate, Apply, CallFirewall, UpdateTimeline, Sleep,
                Timeout, EarlyWakeUp, WakeUp, Unlock, Tick, vars, mainVars, sharedVars
  <2> QED
    BY <1>0, <2>1
<1> QED
  BY <1>1, <1>2, <1>3, <1>4, <1>5, <1>6, <1>7 DEF Next, Main

(***************************************************************************)
(* Locking, the two lists and the signal.                                  *)
(***************************************************************************)
LEMMA NextSynchronized ==
    IInv /\ [Next]_vars => LockInv' /\ ListInv' /\ NoLostWakeup'
<1> SUFFICES ASSUME IInv, [Next]_vars
             PROVE  LockInv' /\ ListInv' /\ NoLostWakeup'
  OBVIOUS
<1> USE DEF LockInv, HoldsLock, ListInv, EnabledMeansBlocked, NoLostWakeup,
            mainVars, threadVars, sharedVars, worldVars
<1>0. LockInv /\ ListInv /\ NoLostWakeup /\ TypeOK
  BY DEF IInv
<1>1. ASSUME NEW x \in Schedules, NEW a \in Addresses, ReceiveSchedule(x, a)
      PROVE  LockInv' /\ ListInv' /\ NoLostWakeup'
  BY <1>0, <1>1 DEF ReceiveSchedule, Receive
<1>2. ASSUME NEW zone \in InvalidZones, ReceiveInvalid(zone)
      PROVE  LockInv' /\ ListInv' /\ NoLostWakeup'
  BY <1>0, <1>2 DEF ReceiveInvalid, Receive
<1>3. CASE ReceiveDelete
  BY <1>0, <1>3 DEF ReceiveDelete, Receive
<1>4. CASE Swap
  BY <1>0, <1>4 DEF Swap
<1>5. CASE Signal
  BY <1>0, <1>5 DEF Signal
<1>6. CASE Destroy
  BY <1>0, <1>6 DEF Destroy
<1>7. CASE Start
  BY <1>0, <1>7 DEF Start
<1>8. CASE Lock
  BY <1>0, <1>8 DEF Lock
<1>9. CASE Evaluate
  BY <1>0, <1>9 DEF Evaluate
<1>10. CASE Apply
  BY <1>0, <1>10 DEF Apply
<1>11. CASE CallFirewall
  BY <1>0, <1>11 DEF CallFirewall
<1>12. CASE UpdateTimeline
  BY <1>0, <1>12 DEF UpdateTimeline
<1>13. CASE Sleep
  BY <1>0, <1>13 DEF Sleep
<1>14. CASE Timeout \/ EarlyWakeUp
  BY <1>0, <1>14 DEF Timeout, EarlyWakeUp, WakeUp
<1>15. CASE Unlock
  BY <1>0, <1>15 DEF Unlock
<1>16. CASE Tick
  BY <1>0, <1>16 DEF Tick
<1>17. CASE UNCHANGED vars
  BY <1>0, <1>17 DEF vars
<1> QED
  BY <1>1, <1>2, <1>3, <1>4, <1>5, <1>6, <1>7, <1>8, <1>9, <1>10, <1>11, <1>12, <1>13,
     <1>14, <1>15, <1>16, <1>17 DEF Next, Thread, Main

THEOREM Invariance == Spec => []IInv
<1>1. IInv /\ [Next]_vars => IInv'
  BY NextTypeOK, NextOwned, NextSynchronized DEF IInv
<1> QED
  BY <1>1, InitIInv, PTL DEF Spec

(***************************************************************************)
(* The variables keep their types, for every set of schedules.             *)
(***************************************************************************)
THEOREM TypeCorrect == Spec => []TypeOK
<1>1. IInv => TypeOK
  BY DEF IInv
<1> QED
  BY <1>1, Invariance, PTL

(***************************************************************************)
(* No schedule is used after it was freed, freed twice or leaked.          *)
(***************************************************************************)
THEOREM OwnershipHolds == Spec => []SchedulesAreOwned
<1>1. IInv => SchedulesAreOwned
  BY DEF IInv
<1> QED
  BY <1>1, Invariance, PTL

(***************************************************************************)
(* Outside of the lock the firewall has the list that is reported.         *)
(***************************************************************************)
THEOREM FirewallIsReported == Spec => []FirewallMatchesBlocked
<1>1. IInv => FirewallMatchesBlocked
  BY DEF IInv, LockInv, HoldsLock, ListInv, FirewallMatchesBlocked
<1> QED
  BY <1>1, Invariance, PTL

(***************************************************************************)
(* The metric never claims blocked devices where there are none.           *)
(***************************************************************************)
THEOREM EnabledIsTrue == Spec => []EnabledMeansBlocked
<1>1. IInv => EnabledMeansBlocked
  BY DEF IInv, ListInv
<1> QED
  BY <1>1, Invariance, PTL

(***************************************************************************)
(* A swap is never slept on, though the signal is sent outside of the lock.*)
(***************************************************************************)
THEOREM WakeupIsNotLost == Spec => []NoLostWakeup
<1>1. IInv => NoLostWakeup
  BY DEF IInv
<1> QED
  BY <1>1, Invariance, PTL

(***************************************************************************)
(* Under the lock the main thread leaves the schedule in force alone.      *)
(***************************************************************************)
THEOREM ScheduleIsStable == Spec => ScheduleIsStableUnderLock
<1> DEFINE Stable ==
        locked => /\ current_schedule' = current_schedule
                  /\ current_schedule # NULL =>
                        heap'[current_schedule] = heap[current_schedule]
<1>1. IInv /\ [Next]_vars => [Stable]_vars
  <2> SUFFICES ASSUME IInv, [Next]_vars, locked
               PROVE  Stable
    OBVIOUS
  <2> USE DEF sharedVars
  <2>0. TypeOK /\ SchedulesAreOwned /\ LockInv
    BY DEF IInv
  <2>1. ASSUME NEW x \in Schedules, NEW a \in Addresses, ReceiveSchedule(x, a)
        PROVE  Stable
    BY <2>0, <2>1, CurrentIsLive, SchedulerAssumption DEF ReceiveSchedule, TypeOK
  <2>2. CASE Destroy
    BY <2>0, <2>2, CurrentIsLive DEF Destroy, SchedulesAreOwned, TypeOK
  <2>3. CASE Swap
    BY <2>3 DEF Swap
  <2>4. ASSUME \/ \E zone \in InvalidZones : ReceiveInvalid(zone)
               \/ ReceiveDelete \/ Signal \/ Thread \/ Tick \/ UNCHANGED vars
        PROVE  Stable
    BY <2>4 DEF ReceiveInvalid, ReceiveDelete, Signal, Thread, Start, Lock, Evaluate,
                Apply, CallFirewall, UpdateTimeline, Sleep, Timeout, EarlyWakeUp, WakeUp,
                Unlock, Tick, vars
  <2> QED
    BY <2>1, <2>2, <2>3, <2>4 DEF Next, Main
<1> QED
  BY <1>1, Invariance, PTL DEF Spec, ScheduleIsStableUnderLock

-----------------------------------------------------------------------------
(* The deadline and the refinement are claimed of a device with one time   *)
(* zone that knows no daylight saving time, of schedules that              *)
(* get_next_unixtime() serves well, and of the years before INT_MAX; the   *)
(* README names the counterexamples without each of the four.              *)

(* All time zones, UTC for schedules without one included, are the same.   *)
OneZone == \A zone \in Zones, t \in Int : UTCOffset(zone, t) = UTCOffset(NoZone, t)

NoDaylightSaving ==
    \A zone \in Zones, t, u \in 0 .. MaxTime : UTCOffset(zone, t) = UTCOffset(zone, u)

(* Only absolute, or only weekly without an event at Sunday 00:00:00.      *)
IsServed(x) ==
    \/ x.weekly = << >>
    \/ x.absolute = << >> /\ IsFinal(x.weekly) /\ 0 \notin Times(x.weekly)

(***************************************************************************)
(* In one zone it does not matter whose TZ is set.                         *)
(***************************************************************************)
LEMMA SameInOneZone ==
    ASSUME OneZone, NEW x \in Schedules, NEW zone \in Zones, NEW other \in Zones \cup {NoZone},
           NEW t \in 0 .. MaxTime
    PROVE  GetBlockedAtTime(x, zone, t) = GetBlockedAtTime(x, other, t)
<1>1. \A v \in Int : Weekly(zone, v) = Weekly(other, v)
  BY DEF OneZone, Weekly
<1>2. Weekly(zone, t) = Weekly(other, t) /\ t \in Int
  BY <1>1, SchedulerAssumption
<1>3. x.absolute # << >> =>
         Weekly(zone, x.absolute[Reached(x.absolute, t)].time)
            = Weekly(other, x.absolute[Reached(x.absolute, t)].time)
  <2> SUFFICES ASSUME x.absolute # << >>
               PROVE  Weekly(zone, x.absolute[Reached(x.absolute, t)].time)
                        = Weekly(other, x.absolute[Reached(x.absolute, t)].time)
    OBVIOUS
  <2>1. x.absolute \in Seq(ScheduleEvent)
    BY SchedulesAssumption
  <2>2. Reached(x.absolute, t) \in DOMAIN x.absolute
    BY <1>2, <2>1, ReachedStops DEF IsReached
  <2>3. x.absolute[Reached(x.absolute, t)].time \in Int
    BY <2>1, <2>2, TimeIsInt
  <2> QED
    BY <1>1, <2>3
<1> QED
  BY <1>2, <1>3 DEF GetBlockedAtTime

(***************************************************************************)
(* The list of the schedule in force.                                      *)
(***************************************************************************)
LEMMA BlockedIsPrescribed ==
    ASSUME IInv, OneZone, NEW t \in 0 .. MaxTime
    PROVE  (IF current_schedule = NULL THEN << >>
            ELSE GetBlockedAtTime(heap[current_schedule], processTZ, t))
              = Prescribed(InForce, t)
<1>1. CASE current_schedule = NULL
  BY <1>1 DEF Prescribed, InForce
<1>2. CASE current_schedule # NULL
  <2> DEFINE x == heap[current_schedule]
  <2>1. x \in Schedules /\ processTZ \in Zones
    BY <1>2, CurrentIsLive DEF IInv, TypeOK
  <2>2. x.time_zone \in Zones \cup {NoZone} /\ x # NULL
    BY <2>1, SchedulesAssumption, SchedulerAssumption
  <2>3. InForce = x
    BY <1>2 DEF InForce
  <2> HIDE DEF x
  <2>4. GetBlockedAtTime(x, processTZ, t) = GetBlockedAtTime(x, x.time_zone, t)
    BY <2>1, <2>2, SameInOneZone
  <2> QED
    BY <1>2, <2>2, <2>3, <2>4 DEF Prescribed, x
<1> QED
  BY <1>1, <1>2

(***************************************************************************)
(* Only Swap changes what is in force.                                     *)
(***************************************************************************)
LEMMA OthersKeepInForce == IInv /\ [Next]_vars => Swap \/ InForce' = InForce
<1> SUFFICES ASSUME IInv, [Next]_vars, ~Swap
             PROVE  InForce' = InForce
  OBVIOUS
<1> USE DEF InForce, sharedVars
<1>0. TypeOK /\ SchedulesAreOwned
  BY DEF IInv
<1>1. ASSUME NEW x \in Schedules, NEW a \in Addresses, ReceiveSchedule(x, a)
      PROVE  InForce' = InForce
  BY <1>0, <1>1, CurrentIsLive, SchedulerAssumption DEF ReceiveSchedule, TypeOK
<1>2. CASE Destroy
  BY <1>0, <1>2, CurrentIsLive DEF Destroy, SchedulesAreOwned, TypeOK
<1>3. CASE \/ \E zone \in InvalidZones : ReceiveInvalid(zone)
           \/ ReceiveDelete \/ Signal \/ Thread \/ Tick \/ UNCHANGED vars
  BY <1>3 DEF ReceiveInvalid, ReceiveDelete, Signal, Thread, Start, Lock, Evaluate,
              Apply, CallFirewall, UpdateTimeline, Sleep, Timeout, EarlyWakeUp, WakeUp,
              Unlock, Tick, vars
<1> QED
  BY <1>1, <1>2, <1>3 DEF Next, Main

-----------------------------------------------------------------------------
(***************************************************************************)
(* A list that was decided on is that of the schedule in force at the time *)
(* the thread looked at the clock, until the thread sleeps; then it is     *)
(* that of every moment up to the deadline.                                *)
(***************************************************************************)
DecidedInv ==
    threadPC \in {"apply", "firewall", "timeline", "sleep"} =>
        current_blocked_macs = Prescribed(InForce, current_unix_time)

LEMMA NextDecided ==
    ASSUME OneZone, IInv, DecidedInv, [Next]_vars
    PROVE  DecidedInv'
<1> USE DEF DecidedInv
<1>0. TypeOK /\ LockInv
  BY DEF IInv
<1>1. CASE Evaluate
  <2>1. current_blocked_macs' = BlockedNow /\ InForce' = InForce
        /\ current_unix_time' = IF current_schedule = NULL THEN current_unix_time ELSE now
    BY <1>1 DEF Evaluate, InForce
  <2>2. BlockedNow = Prescribed(InForce, now)
    BY <1>0, BlockedIsPrescribed DEF BlockedNow, TypeOK
  <2>3. current_schedule = NULL => BlockedNow = Prescribed(InForce, current_unix_time)
    BY DEF BlockedNow, Prescribed, InForce
  <2>4. BlockedNow = Prescribed(InForce, current_unix_time')
    BY <2>1, <2>2, <2>3, Zenon
  <2>5. Prescribed(InForce, current_unix_time)'
           = Prescribed(InForce', current_unix_time')
    BY DEF Prescribed
  <2> QED
    BY <2>1, <2>4, <2>5, Zenon
<1>2. CASE Swap
  BY <1>0, <1>2 DEF Swap, LockInv, HoldsLock, threadVars
<1>3. CASE ~Evaluate /\ ~Swap
  <2>1. InForce' = InForce
    BY <1>3, OthersKeepInForce
  <2>2. threadPC' \in {"apply", "firewall", "timeline", "sleep"} =>
           /\ threadPC \in {"apply", "firewall", "timeline", "sleep"}
           /\ UNCHANGED <<current_blocked_macs, current_unix_time>>
    BY <1>3 DEF Next, Main, Thread, ReceiveSchedule, ReceiveInvalid, ReceiveDelete, Signal,
                Destroy, Start, Lock, Apply, CallFirewall, UpdateTimeline, Sleep, Timeout,
                EarlyWakeUp, WakeUp, Unlock, Tick, vars, mainVars, threadVars, sharedVars
  <2>3. Prescribed(InForce, current_unix_time)' = Prescribed(InForce', current_unix_time')
    BY DEF Prescribed
  <2> QED
    BY <2>1, <2>2, <2>3, Zenon
<1> QED
  BY <1>1, <1>2, <1>3

LEMMA NextSleeps ==
    ASSUME OneZone, NoDaylightSaving, MaxTime < INT_MAX, \A x \in Schedules : IsServed(x),
           IInv, DecidedInv, SleepsNoLongerThanListIsRight, [Next]_vars
    PROVE  SleepsNoLongerThanListIsRight'
<1> USE DEF SleepsNoLongerThanListIsRight
<1>0. TypeOK
  BY DEF IInv
<1>1. CASE Sleep
  <2> SUFFICES ASSUME NEW t \in current_unix_time .. MaxTime, t < tm'
               PROVE  current_blocked_macs = Prescribed(InForce, t)
    <3>1. UNCHANGED <<current_unix_time, current_blocked_macs>> /\ InForce' = InForce
      BY <1>1 DEF Sleep, InForce
    <3>2. \A t \in Int : Prescribed(InForce, t)' = Prescribed(InForce', t)
      BY DEF Prescribed
    <3> QED
      BY <1>0, <3>1, <3>2, SchedulerAssumption DEF TypeOK
  <2>1. threadPC = "sleep" /\ current_blocked_macs = Prescribed(InForce, current_unix_time)
    BY <1>1 DEF Sleep, DecidedInv
  <2>2. CASE current_schedule = NULL
    BY <2>1, <2>2 DEF Prescribed, InForce
  <2>3. CASE current_schedule # NULL
    <3> DEFINE x == heap[current_schedule]
               u == current_unix_time
    <3>1. x \in Schedules /\ processTZ \in Zones
      BY <2>3, <1>0, CurrentIsLive DEF TypeOK
    <3>2. tm' = GetNextUnixtime(x, processTZ, u)
      BY <1>1, <2>3 DEF Sleep
    <3>3. u \in 0 .. MaxTime /\ t \in 0 .. MaxTime
      BY <1>0, SchedulerAssumption DEF TypeOK
    <3> HIDE DEF x, u
    <3>4. /\ u \in Int /\ t \in Int /\ u <= t /\ t < INT_MAX
          /\ UTCOffset(processTZ, u) \in Int
          /\ UTCOffset(processTZ, t) = UTCOffset(processTZ, u)
      BY <3>1, <3>3, SchedulerAssumption, SchedulesAssumption, WeekAssumption
         DEF NoDaylightSaving, u
    <3>5. x.absolute \in Seq(ScheduleEvent) /\ x.weekly \in Seq(ScheduleEvent) /\ IsServed(x)
      BY <3>1, SchedulesAssumption
    <3>6. t < GetNextUnixtime(x, processTZ, u)
      BY <3>2
    <3>7. GetBlockedAtTime(x, processTZ, t) = GetBlockedAtTime(x, processTZ, u)
      <4>1. CASE x.weekly = << >>
        BY <3>4, <3>5, <3>6, <4>1, AbsoluteListLasts
      <4>2. CASE x.absolute = << >> /\ IsFinal(x.weekly) /\ 0 \notin Times(x.weekly)
        BY <3>4, <3>5, <3>6, <4>2, WeeklyListLasts
      <4> QED
        BY <3>5, <4>1, <4>2 DEF IsServed
    <3>8. GetBlockedAtTime(x, processTZ, t) = Prescribed(InForce, t)
      BY <2>3, <3>3, BlockedIsPrescribed DEF x
    <3>9. GetBlockedAtTime(x, processTZ, u) = Prescribed(InForce, u)
      BY <2>3, <3>3, BlockedIsPrescribed DEF x
    <3> QED
      BY <2>1, <3>7, <3>8, <3>9, Zenon DEF u
  <2> QED
    BY <2>2, <2>3
<1>2. CASE Swap
  BY <1>2 DEF Swap
<1>3. CASE ~Sleep /\ ~Swap
  <2>1. InForce' = InForce
    BY <1>3, OthersKeepInForce
  <2>2. threadPC' = "asleep" /\ ~unseen' =>
           /\ threadPC = "asleep" /\ ~unseen
           /\ UNCHANGED <<current_blocked_macs, current_unix_time, tm>>
    BY <1>3 DEF Next, Main, Thread, ReceiveSchedule, ReceiveInvalid, ReceiveDelete, Signal,
                Destroy, Start, Lock, Evaluate, Apply, CallFirewall, UpdateTimeline, Timeout,
                EarlyWakeUp, WakeUp, Unlock, Tick, vars, mainVars, threadVars, sharedVars
  <2>3. \A t \in Int : Prescribed(InForce, t)' = Prescribed(InForce', t)
    BY DEF Prescribed
  <2> QED
    BY <1>0, <2>1, <2>2, <2>3, SchedulerAssumption DEF TypeOK
<1> QED
  BY <1>1, <1>2, <1>3

(***************************************************************************)
(* The thread never sleeps past a moment at which the block list of the    *)
(* schedule in force changes.                                              *)
(***************************************************************************)
THEOREM DeadlineIsRight ==
    ASSUME OneZone, NoDaylightSaving, MaxTime < INT_MAX, \A x \in Schedules : IsServed(x)
    PROVE  Spec => []SleepsNoLongerThanListIsRight
<1>1. Init => DecidedInv /\ SleepsNoLongerThanListIsRight
  BY DEF Init, DecidedInv, SleepsNoLongerThanListIsRight
<1>2. /\ IInv /\ DecidedInv /\ SleepsNoLongerThanListIsRight
      /\ [Next]_vars
      => DecidedInv' /\ SleepsNoLongerThanListIsRight'
  BY NextDecided, NextSleeps
<1> QED
  BY <1>1, <1>2, Invariance, PTL DEF Spec

(***************************************************************************)
(* In one zone the list decided on is the one the rules prescribed when    *)
(* the thread looked at them, whatever the main thread does meanwhile:     *)
(* what the run scheduler_race refutes needs two zones.                    *)
(***************************************************************************)
RulesInv ==
    threadPC = "asleep" /\ ~unseen =>
        current_blocked_macs = Prescribed(InForce, current_unix_time)

THEOREM RulesApplyInOneZone ==
    ASSUME OneZone
    PROVE  Spec => []RulesApplyUntilNewSchedule
<1>1. Init => DecidedInv /\ RulesInv
  BY DEF Init, DecidedInv, RulesInv
<1>2. IInv /\ DecidedInv /\ RulesInv /\ [Next]_vars => DecidedInv' /\ RulesInv'
  <2> SUFFICES ASSUME IInv, DecidedInv, RulesInv, [Next]_vars
               PROVE  RulesInv'
    BY NextDecided
  <2> USE DEF RulesInv
  <2>1. CASE Swap
    BY <2>1 DEF Swap
  <2>2. CASE ~Swap
    <3>1. InForce' = InForce
      BY <2>2, OthersKeepInForce
    <3>2. threadPC' = "asleep" /\ ~unseen' =>
             /\ threadPC = "sleep" \/ (threadPC = "asleep" /\ ~unseen)
             /\ UNCHANGED <<current_blocked_macs, current_unix_time>>
      BY <2>2 DEF Next, Main, Thread, ReceiveSchedule, ReceiveInvalid, ReceiveDelete, Signal,
                  Destroy, Start, Lock, Evaluate, Apply, CallFirewall, UpdateTimeline, Sleep,
                  Timeout, EarlyWakeUp, WakeUp, Unlock, Tick, vars, mainVars, threadVars,
                  sharedVars
    <3>3. Prescribed(InForce, current_unix_time)' = Prescribed(InForce', current_unix_time')
      BY DEF Prescribed
    <3> QED
      BY <3>1, <3>2, <3>3 DEF DecidedInv
  <2> QED
    BY <2>1, <2>2
<1>3. RulesInv => RulesApplyUntilNewSchedule
  BY DEF RulesInv, RulesApplyUntilNewSchedule
<1> QED
  BY <1>1, <1>2, <1>3, Invariance, PTL DEF Spec

-----------------------------------------------------------------------------
(***************************************************************************)
(* Every step is a step of Enforcement or none.                            *)
(***************************************************************************)
LEMMA InitImplementsInit == Init => Abstract!Init
BY DEF Init, Abstract!Init, InForce

LEMMA StepImplementsStep ==
    ASSUME OneZone, IInv, [Next]_vars
    PROVE  [Abstract!Next]_(Abstract!vars)
<1> USE DEF Abstract!vars
<1>0. TypeOK /\ SchedulesAreOwned /\ LockInv /\ ListInv
  BY DEF IInv
<1>1. CASE Swap
  <2>1. InForce' \in Schedules \cup {NULL}
    BY <1>0, <1>1 DEF Swap, InForce, SchedulesAreOwned, Owned, TypeOK
  <2>2. threadPC # "start" => current_blocked_macs = firewall
    BY <1>0, <1>1 DEF Swap, LockInv, HoldsLock, ListInv
  <2>3. UNCHANGED <<now, current_blocked_macs, firewall, threadPC>>
    BY <1>1 DEF Swap, worldVars, threadVars
  <2>4. Abstract!Install(InForce')
    BY <2>2, <2>3 DEF Abstract!Install, Abstract!IsSettled
  <2> QED
    BY <2>1, <2>4 DEF Abstract!Next
<1>2. CASE Evaluate
  <2>1. /\ threadPC # "start" /\ threadPC' # "start" /\ firewall = current_blocked_macs
        /\ current_blocked_macs' = BlockedNow
        /\ UNCHANGED <<now, firewall, current_schedule, heap>>
    BY <1>0, <1>2 DEF Evaluate, ListInv, worldVars
  <2>2. BlockedNow = Prescribed(InForce, now)
    BY <1>0, BlockedIsPrescribed DEF BlockedNow, TypeOK
  <2>3. InForce' = InForce
    BY <2>1 DEF InForce
  <2>4. Abstract!Decide
    BY <2>1, <2>2, <2>3 DEF Abstract!Decide, Abstract!IsSettled
  <2> QED
    BY <2>4 DEF Abstract!Next
<1>3. CASE Start \/ CallFirewall
  <2>1. /\ firewall' = current_blocked_macs /\ threadPC' # "start"
        /\ UNCHANGED <<now, current_blocked_macs, current_schedule, heap>>
    BY <1>0, <1>3 DEF Start, CallFirewall, ListInv, sharedVars
  <2>2. InForce' = InForce
    BY <2>1 DEF InForce
  <2>3. Abstract!Apply
    BY <2>1, <2>2 DEF Abstract!Apply
  <2> QED
    BY <2>3 DEF Abstract!Next
<1>4. CASE Tick
  <2>1. InForce' = InForce
    BY <1>4 DEF Tick, sharedVars, InForce
  <2>2. Abstract!Tick
    BY <1>4, <2>1 DEF Tick, Abstract!Tick, sharedVars, threadVars
  <2> QED
    BY <2>2 DEF Abstract!Next
<1>5. CASE ~Swap /\ ~Evaluate /\ ~Start /\ ~CallFirewall /\ ~Tick
  <2>1. InForce' = InForce
    BY <1>5, OthersKeepInForce
  <2>2. UNCHANGED <<now, current_blocked_macs, firewall>>
        /\ (threadPC' = "start" <=> threadPC = "start")
    BY <1>5 DEF Next, Main, Thread, ReceiveSchedule, ReceiveInvalid, ReceiveDelete, Signal,
                Destroy, Lock, Apply, UpdateTimeline, Sleep, Timeout, EarlyWakeUp, WakeUp,
                Unlock, vars, mainVars, threadVars, sharedVars, worldVars
  <2>3. (threadPC # "start")' = (threadPC # "start")
    BY <2>2
  <2> QED
    BY <2>1, <2>2, <2>3
<1> QED
  BY <1>1, <1>2, <1>3, <1>4, <1>5

(***************************************************************************)
(* The two threads implement the safety part of Enforcement: a policy is   *)
(* never replaced between a decision and its application, and every list   *)
(* the firewall is told is what the policy in force prescribes.            *)
(***************************************************************************)
THEOREM EnforcementIsImplemented ==
    ASSUME OneZone
    PROVE  Spec => Abstract!Safety
<1>1. Init => Abstract!Init
  BY InitImplementsInit
<1>2. IInv /\ [Next]_vars => [Abstract!Next]_(Abstract!vars)
  BY StepImplementsStep
<1> QED
  BY <1>1, <1>2, Invariance, PTL DEF Spec, Abstract!Safety
=============================================================================
