----------------------------- MODULE Scheduler ------------------------------
(***************************************************************************)
(* src/src/scheduler.c: the scheduler thread and, on the main thread, the  *)
(* calls of process_schedule_data() that replace the schedule under it.    *)
(*                                                                         *)
(* The threads share current_schedule and current_blocked_macs, guarded by *)
(* schedule_lock, the condition variable cond_var, and - not guarded by    *)
(* anything - the TZ of the process.  The critical sections of the main    *)
(* thread hold one assignment each and are single steps; the scheduler     *)
(* thread holds the lock from the top of its loop until it sleeps, while   *)
(* the firewall script runs as well.                                       *)
(*                                                                         *)
(* A schedule is an object at an address; a freed address may be given out *)
(* again, and the thread recognises a new schedule by its address.         *)
(* Reports and notifications make the thread wake up early, which the      *)
(* spurious wake-ups include.  Allocations succeed.                        *)
(***************************************************************************)
EXTENDS Schedule

CONSTANTS
    Schedules,      \* what decode_schedule() may accept
    Zones,          \* the time zones of payloads
    InvalidZones,   \* those of payloads that are refused after all
    Addresses,      \* where malloc() puts a schedule_t
    NULL,
    Free,           \* the content of an address that is not allocated
    RebuildAge,     \* age at which a timeline is rebuilt, 10 days
    MaxTime,        \* bound on the clock
    MaxMessages     \* bound on the requests received

ASSUME SchedulerAssumption ==
    /\ NULL \notin Addresses \cup Schedules
    /\ Free \notin Schedules
    /\ InvalidZones \subseteq Zones
    /\ RebuildAge \in Nat /\ MaxTime \in Nat /\ MaxMessages \in Nat

(* What decode_schedule() makes sure of, and that UTC offsets are numbers. *)
ASSUME SchedulesAssumption ==
    /\ \A x \in Schedules :
        /\ x.time_zone \in Zones \cup {NoZone}
        /\ x.absolute \in Seq(ScheduleEvent)
        /\ x.weekly \in Seq(ScheduleEvent)
    /\ \A zone \in Zones, t \in 0 .. MaxTime : UTCOffset(zone, t) \in Int

VARIABLES
    now,                    \* CLOCK_REALTIME
    processTZ,              \* the TZ of the process
    heap,                   \* the schedule at each address
    current_schedule,
    current_blocked_macs,
    locked,                 \* the scheduler thread holds schedule_lock
    firewall,               \* the argument of the last firewall command
    schedule_enabled,       \* the metric
    mainPC, s, tmp,         \* the main thread, in process_schedule_data()
    threadPC,               \* the scheduler thread
    previous_schedule,
    current_unix_time,
    schedule_changed, schedule_structure_changed,
    notification_timeline,  \* the schedule it was built from, and when
    tm,                     \* the deadline of pthread_cond_timedwait()
    messages,               \* requests received
    unseen                  \* history: a swap the thread has not yet seen

mainVars   == <<mainPC, s, tmp, messages>>
threadVars == <<threadPC, previous_schedule, current_unix_time, schedule_changed,
                schedule_structure_changed, notification_timeline, tm>>
sharedVars == <<heap, current_schedule, current_blocked_macs, locked, unseen>>
worldVars  == <<now, processTZ, firewall, schedule_enabled>>
vars       == <<mainVars, threadVars, sharedVars, worldVars>>

Events(x) == {x.absolute[i] : i \in DOMAIN x.absolute} \cup {x.weekly[i] : i \in DOMAIN x.weekly}

(* The block lists there can be.                                           *)
Lists == {<< >>} \cup UNION {{BlockList(x, e) : e \in Events(x)} : x \in Schedules}

(* The firewall still has what an earlier incarnation told it.             *)
Init ==
    /\ now = 0
    /\ processTZ \in Zones
    /\ heap = [a \in Addresses |-> Free]
    /\ current_schedule = NULL
    /\ current_blocked_macs = << >>
    /\ locked = FALSE
    /\ firewall \in Lists
    /\ schedule_enabled = 0
    /\ mainPC = "idle" /\ s = NULL /\ tmp = NULL
    /\ threadPC = "start"
    /\ previous_schedule = NULL
    /\ current_unix_time = 0
    /\ schedule_changed = FALSE /\ schedule_structure_changed = FALSE
    /\ notification_timeline = NULL
    /\ tm = INT_MAX
    /\ messages = 0
    /\ unseen = FALSE

-----------------------------------------------------------------------------
(* The main thread.                                                        *)

ZoneAfter(x, zone) == IF x.time_zone = NoZone THEN zone ELSE x.time_zone

Receive ==
    /\ mainPC = "idle"
    /\ messages < MaxMessages
    /\ messages' = messages + 1

(* A create, an update or the import at start: decode_schedule() succeeds  *)
(* and has set the TZ of the process to the zone of the new schedule.      *)
ReceiveSchedule(x, a) ==
    /\ Receive
    /\ heap[a] = Free
    /\ heap' = [heap EXCEPT ![a] = x]
    /\ s' = a
    /\ processTZ' = ZoneAfter(x, processTZ)
    /\ mainPC' = "swap"
    /\ UNCHANGED <<tmp, threadVars, current_schedule, current_blocked_macs, locked,
                   unseen, now, firewall, schedule_enabled>>

(* decode_schedule() fails after it has read a time zone.                  *)
ReceiveInvalid(zone) ==
    /\ Receive
    /\ processTZ' = zone
    /\ UNCHANGED <<mainPC, s, tmp, threadVars, sharedVars, now, firewall, schedule_enabled>>

(* process_delete(): process_schedule_data() without data.                 *)
ReceiveDelete ==
    /\ Receive
    /\ s' = NULL
    /\ mainPC' = "swap"
    /\ UNCHANGED <<tmp, threadVars, sharedVars, worldVars>>

(* Mutation of Swap: the pointer is replaced without the lock.             *)
SwapUnlocked ==
    /\ mainPC = "swap"
    /\ tmp' = current_schedule
    /\ current_schedule' = s
    /\ unseen' = TRUE
    /\ mainPC' = "signal"
    /\ UNCHANGED <<s, messages, threadVars, heap, current_blocked_macs, locked, worldVars>>

(* Mutation of Swap: nobody is told about a deleted schedule.              *)
SwapSilently ==
    /\ mainPC = "swap"
    /\ ~locked
    /\ tmp' = current_schedule
    /\ current_schedule' = s
    /\ unseen' = TRUE
    /\ mainPC' = IF s = NULL THEN "destroy" ELSE "signal"
    /\ UNCHANGED <<s, messages, threadVars, heap, current_blocked_macs, locked, worldVars>>

Swap ==
    /\ mainPC = "swap"
    /\ ~locked
    /\ tmp' = current_schedule
    /\ current_schedule' = s
    /\ unseen' = TRUE
    /\ mainPC' = "signal"
    /\ UNCHANGED <<s, messages, threadVars, heap, current_blocked_macs, locked, worldVars>>

(* pthread_cond_signal() wakes the thread if it waits and is lost if not.  *)
Signal ==
    /\ mainPC = "signal"
    /\ threadPC' = IF threadPC = "asleep" THEN "woken" ELSE threadPC
    /\ mainPC' = "destroy"
    /\ UNCHANGED <<s, tmp, messages, previous_schedule, current_unix_time,
                   schedule_changed, schedule_structure_changed,
                   notification_timeline, tm, sharedVars, worldVars>>

(* Mutation of Destroy: a deleted schedule is not destroyed.               *)
DestroyReplacedOnly ==
    /\ mainPC = "destroy"
    /\ heap' = IF tmp = NULL \/ s = NULL THEN heap ELSE [heap EXCEPT ![tmp] = Free]
    /\ schedule_enabled' = IF s = NULL THEN 0 ELSE schedule_enabled
    /\ s' = NULL
    /\ tmp' = NULL
    /\ mainPC' = "idle"
    /\ UNCHANGED <<messages, threadVars, current_schedule, current_blocked_macs,
                   locked, unseen, now, processTZ, firewall>>

(* destroy_schedule() of the old schedule; a delete also sets the metrics. *)
Destroy ==
    /\ mainPC = "destroy"
    /\ heap' = IF tmp = NULL THEN heap ELSE [heap EXCEPT ![tmp] = Free]
    /\ schedule_enabled' = IF s = NULL THEN 0 ELSE schedule_enabled
    /\ s' = NULL
    /\ tmp' = NULL
    /\ mainPC' = "idle"
    /\ UNCHANGED <<messages, threadVars, current_schedule, current_blocked_macs,
                   locked, unseen, now, processTZ, firewall>>

-----------------------------------------------------------------------------
(* The scheduler thread.                                                   *)

(* Before its loop: the firewall is told to block nothing.                 *)
Start ==
    /\ threadPC = "start"
    /\ firewall' = << >>
    /\ threadPC' = "top"
    /\ UNCHANGED <<mainVars, previous_schedule, current_unix_time, schedule_changed,
                   schedule_structure_changed, notification_timeline, tm, sharedVars,
                   now, processTZ, schedule_enabled>>

(* The top of the loop: a new schedule is known by its address.            *)
Lock ==
    /\ threadPC = "top"
    /\ ~locked
    /\ locked' = TRUE
    /\ unseen' = FALSE
    /\ schedule_structure_changed' = (current_schedule # previous_schedule)
    /\ previous_schedule' = current_schedule
    /\ threadPC' = "evaluate"
    /\ UNCHANGED <<mainVars, current_unix_time, schedule_changed, notification_timeline,
                   tm, heap, current_schedule, current_blocked_macs, worldVars>>

(* What is to be blocked now; get_blocked_at_time() uses the TZ of the     *)
(* process, not that of the schedule.                                      *)
BlockedNow ==
    IF current_schedule = NULL THEN << >>
    ELSE GetBlockedAtTime(heap[current_schedule], processTZ, now)

(* Mutation of Evaluate: an emptied list does not count as a change.       *)
EvaluateNonEmpty ==
    /\ threadPC = "evaluate"
    /\ current_unix_time' = IF current_schedule = NULL THEN current_unix_time ELSE now
    /\ current_blocked_macs' = BlockedNow
    /\ schedule_changed' = (current_blocked_macs' \notin {current_blocked_macs, << >>})
    /\ threadPC' = IF schedule_changed' THEN "apply" ELSE "timeline"
    /\ UNCHANGED <<mainVars, previous_schedule, schedule_structure_changed,
                   notification_timeline, tm, heap, current_schedule, locked, unseen,
                   worldVars>>

Evaluate ==
    /\ threadPC = "evaluate"
    /\ current_unix_time' = IF current_schedule = NULL THEN current_unix_time ELSE now
    /\ current_blocked_macs' = BlockedNow
    /\ schedule_changed' = (current_blocked_macs' # current_blocked_macs)
    /\ threadPC' = IF schedule_changed' THEN "apply" ELSE "timeline"
    /\ UNCHANGED <<mainVars, previous_schedule, schedule_structure_changed,
                   notification_timeline, tm, heap, current_schedule, locked, unseen,
                   worldVars>>

(* Mutation of Apply: the metric is incremented, not set.                  *)
ApplyIncrement ==
    /\ threadPC = "apply"
    /\ IF current_blocked_macs # << >>
       THEN /\ schedule_enabled' = schedule_enabled + 1
            /\ processTZ' = IF current_schedule = NULL THEN processTZ
                            ELSE ZoneAfter(heap[current_schedule], processTZ)
       ELSE schedule_enabled' = 0 /\ UNCHANGED processTZ
    /\ threadPC' = "firewall"
    /\ UNCHANGED <<mainVars, previous_schedule, current_unix_time, schedule_changed,
                   schedule_structure_changed, notification_timeline, tm, sharedVars,
                   now, firewall>>

(* Mutation of Apply: an empty list leaves the metric as it is.            *)
ApplyNonEmpty ==
    /\ threadPC = "apply"
    /\ IF current_blocked_macs # << >>
       THEN /\ schedule_enabled' = 1
            /\ processTZ' = IF current_schedule = NULL THEN processTZ
                            ELSE ZoneAfter(heap[current_schedule], processTZ)
       ELSE UNCHANGED <<schedule_enabled, processTZ>>
    /\ threadPC' = "firewall"
    /\ UNCHANGED <<mainVars, previous_schedule, current_unix_time, schedule_changed,
                   schedule_structure_changed, notification_timeline, tm, sharedVars,
                   now, firewall>>

(* Metrics, and the TZ of the process becomes that of the schedule.        *)
Apply ==
    /\ threadPC = "apply"
    /\ IF current_blocked_macs # << >>
       THEN /\ schedule_enabled' = 1
            /\ processTZ' = IF current_schedule = NULL THEN processTZ
                            ELSE ZoneAfter(heap[current_schedule], processTZ)
       ELSE schedule_enabled' = 0 /\ UNCHANGED processTZ
    /\ threadPC' = "firewall"
    /\ UNCHANGED <<mainVars, previous_schedule, current_unix_time, schedule_changed,
                   schedule_structure_changed, notification_timeline, tm, sharedVars,
                   now, firewall>>

CallFirewall ==
    /\ threadPC = "firewall"
    /\ firewall' = current_blocked_macs
    /\ threadPC' = "timeline"
    /\ UNCHANGED <<mainVars, previous_schedule, current_unix_time, schedule_changed,
                   schedule_structure_changed, notification_timeline, tm, sharedVars,
                   now, processTZ, schedule_enabled>>

(* build_timeline_from_schedule() sets the TZ too.                         *)
BuildTimeline ==
    /\ notification_timeline' = [of |-> heap[current_schedule], created_at |-> current_unix_time]
    /\ processTZ' = ZoneAfter(heap[current_schedule], processTZ)

NeedsRebuild ==
    /\ notification_timeline # NULL
    /\ current_schedule # NULL
    /\ current_unix_time - notification_timeline.created_at > RebuildAge

(* A timeline is built for a new schedule, dropped with the last one, and  *)
(* rebuilt when it has grown old.                                          *)
UpdateTimeline ==
    /\ threadPC = "timeline"
    /\ \/ schedule_structure_changed /\ current_schedule # NULL /\ BuildTimeline
       \/ /\ schedule_structure_changed /\ current_schedule = NULL
          /\ notification_timeline' = NULL
          /\ UNCHANGED processTZ
       \/ ~schedule_structure_changed /\ NeedsRebuild /\ BuildTimeline
       \/ /\ ~schedule_structure_changed /\ ~NeedsRebuild
          /\ UNCHANGED <<notification_timeline, processTZ>>
    /\ threadPC' = "sleep"
    /\ UNCHANGED <<mainVars, previous_schedule, current_unix_time, schedule_changed,
                   schedule_structure_changed, tm, sharedVars, now, firewall,
                   schedule_enabled>>

(* Mutation of Sleep: the next event is looked up with a fresh clock.      *)
SleepFromNow ==
    /\ threadPC = "sleep"
    /\ tm' = IF current_schedule = NULL THEN INT_MAX
             ELSE GetNextUnixtime(heap[current_schedule], processTZ, now)
    /\ schedule_changed' = FALSE
    /\ schedule_structure_changed' = FALSE
    /\ locked' = FALSE
    /\ threadPC' = "asleep"
    /\ UNCHANGED <<mainVars, previous_schedule, current_unix_time, notification_timeline,
                   heap, current_schedule, current_blocked_macs, unseen, worldVars>>

(* pthread_cond_timedwait() releases the lock and sleeps in one step.      *)
Sleep ==
    /\ threadPC = "sleep"
    /\ tm' = IF current_schedule = NULL THEN INT_MAX
             ELSE GetNextUnixtime(heap[current_schedule], processTZ, current_unix_time)
    /\ schedule_changed' = FALSE
    /\ schedule_structure_changed' = FALSE
    /\ locked' = FALSE
    /\ threadPC' = "asleep"
    /\ UNCHANGED <<mainVars, previous_schedule, current_unix_time, notification_timeline,
                   heap, current_schedule, current_blocked_macs, unseen, worldVars>>

WakeUp ==
    /\ threadPC = "asleep"
    /\ threadPC' = "woken"
    /\ UNCHANGED <<mainVars, previous_schedule, current_unix_time, schedule_changed,
                   schedule_structure_changed, notification_timeline, tm, sharedVars,
                   worldVars>>

Timeout == now >= tm /\ WakeUp

(* A wake-up for no reason, for a report or for a notification.            *)
EarlyWakeUp == now < tm /\ WakeUp

(* pthread_cond_timedwait() returns with the lock, which is released.      *)
Unlock ==
    /\ threadPC = "woken"
    /\ ~locked
    /\ threadPC' = "top"
    /\ UNCHANGED <<mainVars, previous_schedule, current_unix_time, schedule_changed,
                   schedule_structure_changed, notification_timeline, tm, sharedVars,
                   worldVars>>

Tick ==
    /\ now < MaxTime
    /\ now' = now + 1
    /\ UNCHANGED <<mainVars, threadVars, sharedVars, processTZ, firewall, schedule_enabled>>

-----------------------------------------------------------------------------
Thread ==
    \/ Start \/ Lock \/ Evaluate \/ Apply \/ CallFirewall
    \/ UpdateTimeline \/ Sleep \/ Timeout \/ EarlyWakeUp \/ Unlock

Main ==
    \/ \E x \in Schedules, a \in Addresses : ReceiveSchedule(x, a)
    \/ \E zone \in InvalidZones : ReceiveInvalid(zone)
    \/ ReceiveDelete
    \/ Swap \/ Signal \/ Destroy

Next == Thread \/ Main \/ Tick

Spec == Init /\ [][Next]_vars

(* Threads that can run do run; no wake-up comes early by necessity, and   *)
(* nobody need send a message.  The mutex starves no one: the scheduler    *)
(* thread gives it up again and again, and a blocked main thread gets it.  *)
Fairness ==
    /\ WF_vars(Start) /\ WF_vars(Lock) /\ WF_vars(Evaluate) /\ WF_vars(Apply)
    /\ WF_vars(CallFirewall) /\ WF_vars(UpdateTimeline) /\ WF_vars(Sleep)
    /\ WF_vars(Timeout) /\ WF_vars(Unlock)
    /\ SF_vars(Swap) /\ WF_vars(Signal) /\ WF_vars(Destroy)

FairSpec == Spec /\ Fairness

-----------------------------------------------------------------------------
(* Properties.                                                             *)

MainPCs == {"idle", "swap", "signal", "destroy"}

ThreadPCs == {"start", "top", "evaluate", "apply", "firewall", "timeline",
              "sleep", "asleep", "woken"}

Timelines == [of : Schedules, created_at : 0 .. MaxTime]

(* The type of every variable.                                             *)
TypeOK ==
    /\ now \in 0 .. MaxTime
    /\ processTZ \in Zones
    /\ heap \in [Addresses -> Schedules \cup {Free}]
    /\ {current_schedule, previous_schedule, s, tmp} \subseteq Addresses \cup {NULL}
    /\ {current_blocked_macs, firewall} \subseteq Lists
    /\ {locked, schedule_changed, schedule_structure_changed, unseen} \subseteq BOOLEAN
    /\ schedule_enabled \in {0, 1}
    /\ mainPC \in MainPCs
    /\ threadPC \in ThreadPCs
    /\ current_unix_time \in 0 .. MaxTime
    /\ notification_timeline \in Timelines \cup {NULL}
    /\ tm \in Int
    /\ messages \in 0 .. MaxMessages

(* The lock is held exactly in the body of the thread's loop.              *)
HoldsLock == threadPC \in {"evaluate", "apply", "firewall", "timeline", "sleep"}

(* What is allocated is what somebody still points to, each of them its    *)
(* own object: the thread never reads a schedule that was freed, nothing   *)
(* is freed twice, and no schedule is leaked (process_schedule_data()      *)
(* destroys after it has unlocked, with no look at the thread).            *)
Owned ==
    {current_schedule}
        \cup (IF mainPC = "swap" THEN {s} ELSE {})
        \cup (IF mainPC \in {"signal", "destroy"} THEN {tmp} ELSE {})

SchedulesAreOwned ==
    /\ {a \in Addresses : heap[a] # Free} = Owned \ {NULL}
    /\ mainPC = "swap" /\ s # NULL => s # current_schedule
    /\ mainPC \in {"signal", "destroy"} /\ tmp # NULL => tmp # current_schedule

(* The thread reads current_schedule over many steps of one turn of its    *)
(* loop, and no step of the main thread moves it or frees what it reads.   *)
ScheduleIsStableUnderLock ==
    [][locked => /\ current_schedule' = current_schedule
                 /\ current_schedule # NULL =>
                        heap'[current_schedule] = heap[current_schedule]]_vars

(* Whoever gets the lock - get_current_blocked_macs() for a RETRIEVE of    *)
(* "now" - finds in current_blocked_macs what the firewall was told.       *)
FirewallMatchesBlocked ==
    ~locked /\ threadPC # "start" => firewall = current_blocked_macs

(* The metric claims blocked devices only while there are some, though two *)
(* threads set it, a delete outside of the lock and after its signal.  The *)
(* reverse does not hold: a schedule that prescribes the list the thread   *)
(* knows, sent right after the delete, leaves the metric at 0.             *)
EnabledMeansBlocked ==
    threadPC # "apply" /\ schedule_enabled = 1 => current_blocked_macs # << >>

(* The thread never sleeps on a swapped schedule unless the signal is      *)
(* still to come: though the signal is sent after the unlock and outside   *)
(* of the lock, it is not lost.                                            *)
NoLostWakeup == threadPC = "asleep" /\ unseen => mainPC = "signal"

(* While the thread sleeps the block list is that of the schedule in       *)
(* force, in the time zone of that schedule, at every moment from the last *)
(* look at the clock up to the deadline.  UTCOffset(NoZone, t) stands for  *)
(* UTC, the zone scheduler_thread() takes for a schedule without one.      *)
Prescribed(x, t) == IF x = NULL THEN << >> ELSE GetBlockedAtTime(x, x.time_zone, t)

InForce == IF current_schedule = NULL THEN NULL ELSE heap[current_schedule]

SleepsNoLongerThanListIsRight ==
    threadPC = "asleep" /\ ~unseen =>
        \A t \in current_unix_time .. MaxTime :
            t < tm => current_blocked_macs = Prescribed(InForce, t)

(* A swapped schedule is looked at, however the threads interleave.        *)
SwapIsSeen == unseen ~> ~unseen

(* When the messages cease the firewall ends up with what the schedule     *)
(* that was sent last prescribes.                                          *)
FirewallConverges == <>[](firewall = Prescribed(InForce, now))

-----------------------------------------------------------------------------
(* What the comments of the source say and the code does not do; each has  *)
(* a run that ends in a counterexample.                                    *)

(* "Detect if schedule structure changed (new schedule arrived)"           *)
(* (scheduler.c): the timeline notifications are sent from is that of the  *)
(* schedule in force.                                                      *)
TimelineIsOfSchedule ==
    threadPC = "asleep" /\ ~unseen =>
        IF current_schedule = NULL THEN notification_timeline = NULL
        ELSE notification_timeline.of = heap[current_schedule]

(* "The list of re-occuring rules to apply until a new schedule is         *)
(* acquired" (schedule.h): the list decided on is the one that the rules   *)
(* prescribed when they were looked at, once no request is in progress.    *)
RulesApplyUntilNewSchedule ==
    threadPC = "asleep" /\ ~unseen /\ mainPC = "idle" =>
        current_blocked_macs = Prescribed(InForce, current_unix_time)

-----------------------------------------------------------------------------
(* The thread implements Enforcement for schedules of one time zone that   *)
(* get_next_unixtime() serves well.                                        *)
Abstract == INSTANCE Enforcement WITH
    Policies <- Schedules,
    NoPolicy <- NULL,
    Unblocked <- << >>,
    Prescribed <- Prescribed,
    Horizon <- MaxTime,
    policy <- InForce,
    clock <- now,
    decided <- current_blocked_macs,
    enforced <- firewall,
    up <- threadPC # "start"

ImplementsEnforcement == Abstract!Spec
=============================================================================
