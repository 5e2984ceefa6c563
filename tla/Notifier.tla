------------------------------ MODULE Notifier ------------------------------
(***************************************************************************)
(* The notifications of src/src/aker_notification.c as the scheduler       *)
(* thread drives them in its loop (src/src/scheduler.c): a timeline is     *)
(* built for a new schedule, what is due is sent, an old timeline is       *)
(* rebuilt, and the thread sleeps until the next event or notification.    *)
(* Each event counts in src/src/aker_rbus.c, whose counter a client of the *)
(* bus may reset at any time.                                              *)
(*                                                                         *)
(* The thread holds schedule_lock during a turn, so a schedule arrives     *)
(* only while it sleeps, and a turn uses the time at which it began: time  *)
(* that passes during a turn is the same as time that passes after it.     *)
(***************************************************************************)
EXTENDS Timeline

CONSTANTS
    Schedules,      \* what decode_schedule() may accept
    Zones,
    NULL,
    RebuildAge,     \* age at which a timeline is rebuilt, 10 days
    CountRange,     \* 2^32
    MaxTime,        \* bound on the clock
    MaxDelay,       \* bound on how late the thread wakes up
    MaxMessages,    \* bound on the schedules received
    LastMessage,    \* bound on when they are
    EarlyWakeUps,   \* bound on when the thread wakes up for no reason of its own
    ClientResets    \* bound on when a client resets the counter

ASSUME NotifierAssumption ==
    /\ NULL \notin Schedules
    /\ RebuildAge \in Nat /\ MaxTime \in Nat /\ MaxDelay \in Nat
    /\ MaxMessages \in Nat /\ LastMessage \in Nat
    /\ EarlyWakeUps \subseteq Nat /\ ClientResets \subseteq Nat
    /\ CountRange \in Nat \ {0}

VARIABLES
    now,                        \* CLOCK_REALTIME
    processTZ,                  \* the TZ of the process
    current_schedule,
    schedule_structure_changed, \* current_schedule # previous_schedule
    notification_timeline,      \* its periods per MAC, and when it was built
    current_unix_time,          \* the time of this turn
    tm,                         \* the deadline of pthread_cond_timedwait()
    pc,
    messages,                   \* schedules received
    g_notification_count,
    sent,                       \* history: sent since the timeline was built
    earlier,                    \* history: sent for the schedule before that
    lateness,                   \* history: the worst delay of a wake-up for it
    client_reset                \* history: a client has reset the counter since

scheduleVars == <<processTZ, current_schedule, messages>>
history      == <<sent, earlier, lateness>>
counter      == <<g_notification_count, client_reset>>
vars == <<now, scheduleVars, schedule_structure_changed, notification_timeline,
          current_unix_time, tm, pc, counter, history>>

Init ==
    /\ now = 0
    /\ processTZ \in Zones
    /\ current_schedule = NULL
    /\ schedule_structure_changed = FALSE
    /\ notification_timeline = NULL
    /\ current_unix_time = 0
    /\ tm = INT_MAX
    /\ pc = "asleep"
    /\ messages = 0
    /\ g_notification_count = 0
    /\ sent = {} /\ earlier = {} /\ lateness = 0 /\ client_reset = FALSE

(* process_schedule_data(): decoding sets the zone; NULL is a delete.  The  *)
(* thread saw no schedule in its last turn exactly if it has no timeline.  *)
Receive(x) ==
    /\ pc = "asleep"
    /\ messages < MaxMessages /\ now <= LastMessage
    /\ messages' = messages + 1
    /\ current_schedule' = x
    /\ processTZ' = IF x = NULL \/ x.time_zone = NoZone THEN processTZ ELSE x.time_zone
    /\ schedule_structure_changed' = (x # NULL \/ notification_timeline # NULL)
    /\ UNCHANGED <<now, notification_timeline, current_unix_time, tm, pc, counter, history>>

(* The deadline, a signal, a report or nothing at all wakes the thread.    *)
Wake ==
    /\ pc = "asleep"
    /\ now >= tm \/ schedule_structure_changed \/ now \in EarlyWakeUps
    /\ current_unix_time' = IF current_schedule = NULL THEN current_unix_time ELSE now
    /\ lateness' = IF now - tm > lateness THEN now - tm ELSE lateness
    /\ pc' = "build"
    /\ UNCHANGED <<now, scheduleVars, schedule_structure_changed, notification_timeline,
                   tm, counter, sent, earlier>>

BuildTimeline ==
    notification_timeline' =
        [timelines  |-> BuildTimelineFromSchedule(current_schedule, processTZ, current_unix_time),
         created_at |-> current_unix_time]

ForgetNotifications ==
    sent' = {} /\ earlier' = {} /\ lateness' = 0 /\ client_reset' = FALSE

(* Mutation of UpdateTimeline: the timeline of a deleted schedule is kept. *)
UpdateTimelineIfAny ==
    /\ pc = "build"
    /\ IF schedule_structure_changed /\ current_schedule # NULL
       THEN BuildTimeline /\ ForgetNotifications /\ g_notification_count' = 0
       ELSE UNCHANGED <<notification_timeline, counter, history>>
    /\ schedule_structure_changed' = FALSE
    /\ pc' = "send"
    /\ UNCHANGED <<now, scheduleVars, current_unix_time, tm>>

(* Mutation of UpdateTimeline: the counter goes on counting.               *)
UpdateTimelineOnly ==
    /\ pc = "build"
    /\ IF schedule_structure_changed
       THEN /\ IF current_schedule = NULL THEN notification_timeline' = NULL ELSE BuildTimeline
            /\ ForgetNotifications /\ UNCHANGED g_notification_count
       ELSE UNCHANGED <<notification_timeline, counter, history>>
    /\ schedule_structure_changed' = FALSE
    /\ pc' = "send"
    /\ UNCHANGED <<now, scheduleVars, current_unix_time, tm>>

(* A new schedule gets a timeline and a counter, a deleted one loses its.  *)
UpdateTimeline ==
    /\ pc = "build"
    /\ IF schedule_structure_changed
       THEN /\ IF current_schedule = NULL THEN notification_timeline' = NULL ELSE BuildTimeline
            /\ ForgetNotifications /\ g_notification_count' = 0
       ELSE UNCHANGED <<notification_timeline, counter, history>>
    /\ schedule_structure_changed' = FALSE
    /\ pc' = "send"
    /\ UNCHANGED <<now, scheduleVars, current_unix_time, tm>>

IsActive == notification_timeline # NULL /\ current_schedule # NULL

timelines == notification_timeline.timelines

(* Each event increments the counter, under a lock of its own: the reset   *)
(* of a client may come between any two of them.                           *)
CountEvents(n) ==
    \/ g_notification_count' = (g_notification_count + n) % CountRange /\ UNCHANGED client_reset
    \/ /\ n > 0 /\ now \in ClientResets
       /\ g_notification_count' \in {k % CountRange : k \in 0 .. n - 1}
       /\ client_reset' = TRUE

SendPending ==
    /\ pc = "send"
    /\ IF IsActive
       THEN /\ sent' = sent \cup Notifications(timelines, current_unix_time)
            /\ notification_timeline' =
                  [notification_timeline EXCEPT !.timelines = MarkDone(@, current_unix_time)]
            /\ CountEvents(Cardinality(Events(timelines, current_unix_time)))
       ELSE UNCHANGED <<notification_timeline, counter, sent>>
    /\ pc' = "rebuild"
    /\ UNCHANGED <<now, scheduleVars, schedule_structure_changed, current_unix_time, tm,
                   earlier, lateness>>

(* A client sets the counter, which may be set to 0 only.                  *)
NotificationCountSetHandler ==
    /\ now \in ClientResets
    /\ g_notification_count' = 0
    /\ client_reset' = (client_reset \/ g_notification_count > 0)
    /\ UNCHANGED <<now, scheduleVars, schedule_structure_changed, notification_timeline,
                   current_unix_time, tm, pc, history>>

NeedsRebuild ==
    IsActive /\ current_unix_time - notification_timeline.created_at > RebuildAge

(* The flags of a timeline do not survive it.                              *)
Rebuild ==
    /\ pc = "rebuild"
    /\ IF NeedsRebuild
       THEN /\ BuildTimeline
            /\ earlier' = earlier \cup sent
            /\ sent' = {}
       ELSE UNCHANGED <<notification_timeline, earlier, sent>>
    /\ pc' = "sleep"
    /\ UNCHANGED <<now, scheduleVars, schedule_structure_changed, current_unix_time, tm,
                   counter, lateness>>

NextEventTime ==
    IF current_schedule = NULL THEN INT_MAX
    ELSE GetNextUnixtime(current_schedule, processTZ, current_unix_time)

NextNotificationTime ==
    IF notification_timeline = NULL THEN INT_MAX
    ELSE GetNextNotificationTime(notification_timeline.timelines, current_unix_time)

Sleep ==
    /\ pc = "sleep"
    /\ tm' = Earliest({NextEventTime, NextNotificationTime})
    /\ pc' = "asleep"
    /\ UNCHANGED <<now, scheduleVars, schedule_structure_changed, notification_timeline,
                   current_unix_time, counter, history>>

Tick ==
    /\ pc = "asleep"
    /\ now < MaxTime
    /\ now < tm + MaxDelay
    /\ now' = now + 1
    /\ UNCHANGED <<scheduleVars, schedule_structure_changed, notification_timeline,
                   current_unix_time, tm, pc, counter, history>>

Next ==
    \/ \E x \in Schedules \cup {NULL} : Receive(x)
    \/ Wake \/ UpdateTimeline \/ SendPending \/ Rebuild \/ Sleep
    \/ NotificationCountSetHandler
    \/ Tick

Spec == Init /\ [][Next]_vars

-----------------------------------------------------------------------------
(* Properties.                                                             *)

created_at == notification_timeline.created_at

(* What the firewall is told: get_blocked_at_time() of src/src/schedule.c. *)
BlockedAt(mac, t) ==
    current_schedule.macs[mac] \in ToSet(GetBlockedAtTime(current_schedule, processTZ, t))

IsOneKind(s) == s.weekly = << >> \/ s.absolute = << >>

(* The type of every variable; once it has been updated, a timeline has    *)
(* one entry for each MAC of the schedule in force.                        *)
TypeOK ==
    /\ now \in 0 .. MaxTime /\ current_unix_time \in 0 .. MaxTime
    /\ processTZ \in Zones
    /\ current_schedule \in Schedules \cup {NULL}
    /\ schedule_structure_changed \in BOOLEAN
    /\ notification_timeline # NULL =>
        /\ created_at \in 0 .. MaxTime
        /\ \A mac \in DOMAIN timelines : timelines[mac] \in Seq(Period)
        /\ ~schedule_structure_changed =>
              current_schedule # NULL /\ DOMAIN timelines = DOMAIN current_schedule.macs
    /\ g_notification_count \in 0 .. CountRange - 1 /\ client_reset \in BOOLEAN
    /\ tm \in Int /\ lateness \in 0 .. MaxDelay
    /\ pc \in {"asleep", "build", "send", "rebuild", "sleep"}

(* The periods of a MAC are not empty, in order, and apart: what           *)
(* is_mac_blocked_in_timeline() relies on, and what keeps an end from      *)
(* falling into the next start.                                            *)
PeriodsAreOrdered ==
    notification_timeline # NULL =>
        \A mac \in DOMAIN timelines :
            LET periods == timelines[mac]
            IN  /\ \A k \in DOMAIN periods : periods[k].start < periods[k].end
                /\ \A k \in 2 .. Len(periods) : periods[k - 1].end < periods[k].start

(* A timeline announces nothing twice: whatever was sent is marked in      *)
(* every period it could be sent for again.                                *)
RemembersWhatWasSent ==
    notification_timeline # NULL =>
        \A mac \in DOMAIN timelines : \A p \in ToSet(timelines[mac]), kind \in Kinds :
            Notification(mac, p, kind) \in sent => kind \in p.done

(* A notification is true of what the firewall does, at the time it is     *)
(* sent, for schedules of one kind.                                        *)
IsTrue(n) ==
    CASE n.type = "STARTING_SOON" -> ~BlockedAt(n.mac, current_unix_time) /\ BlockedAt(n.mac, n.time)
      [] n.type = "STARTED"       -> BlockedAt(n.mac, current_unix_time) /\ ~BlockedAt(n.mac, n.time - 1)
      [] n.type = "ENDING_SOON"   -> BlockedAt(n.mac, current_unix_time) /\ ~BlockedAt(n.mac, n.time)
      [] n.type \in {"ENDED", "NON_RECURRING_UNPAUSED"} ->
            ~BlockedAt(n.mac, current_unix_time) /\ BlockedAt(n.mac, n.time - 1)

(* A block that the timeline does not know, as it began in an earlier week.*)
IsCarriedOver(mac) ==
    \A t \in WeekStart(processTZ, created_at) - 1 .. current_unix_time : BlockedAt(mac, t)

AnnouncesTheTruth ==
    [][\A n \in sent' \ sent :
          IsOneKind(current_schedule) /\ ~IsCarriedOver(n.mac) => IsTrue(n)]_vars

(* No notification falls due while the thread sleeps, and none is slept    *)
(* over that a full batch did not take in the second in which it was due:  *)
(* the deadline of get_next_notification_time() is not later than what     *)
(* send_pending_notifications_with_state_check() would send.  Periods that *)
(* end in the second of the turn are excepted, as the former has done with *)
(* them: an ENDED that a full batch did not take is never sent.            *)
SleepMissesNothing ==
    pc = "asleep" /\ IsActive /\ ~schedule_structure_changed =>
        \A t \in current_unix_time .. (IF tm < MaxTime THEN tm ELSE MaxTime) - 1 :
            \A mac \in DOMAIN timelines : \A p \in ToSet(timelines[mac]), kind \in Kinds :
                /\ p.end > current_unix_time
                /\ DueTime(p, kind) = t /\ kind \in Pending(p, t)
                => ~IsAnnounced(timelines[mac], p, kind, t)

(* The MAC is blocked from b until e and no longer.                        *)
IsBlock(mac, b, e) ==
    /\ ~BlockedAt(mac, b - 1) /\ ~BlockedAt(mac, e)
    /\ \A t \in b .. e - 1 : BlockedAt(mac, t)

(* Every block that begins after the start of the week in which the        *)
(* timeline was built, and ends before the limit, has been announced as    *)
(* far as the time has come, from the turn after it was built on, by a     *)
(* thread that was never late; a late one may miss an end, a block it did  *)
(* not see at all, and a start of which an earlier block tells it that the *)
(* MAC is blocked already.  The MACs of the schedule have room in one      *)
(* event.                                                                  *)
HasSent == pc = "sleep" /\ IsActive /\ created_at < current_unix_time

AnnouncesBlocksUntil(limit) ==
    /\ HasSent /\ IsOneKind(current_schedule) /\ lateness <= Late
    /\ Len(current_schedule.macs) <= ArrayRoom
    =>
        \A mac \in DOMAIN current_schedule.macs,
           b \in WeekStart(processTZ, created_at) .. current_unix_time + Advance :
            ~BlockedAt(mac, b - 1) /\ BlockedAt(mac, b) =>
            \A e \in b + 1 .. limit - 1 :
                IsBlock(mac, b, e) =>
                    LET recurring == current_schedule.absolute = << >>
                        isLong == e - b >= Advance
                        ended == IF recurring THEN "ENDED" ELSE "NON_RECURRING_UNPAUSED"
                        isDue(t) == created_at <= t /\ t <= current_unix_time
                        said(type, t) == [type |-> type, mac |-> mac, time |-> t] \in sent \cup earlier
                        isFree == \A t \in b - Advance .. b - Advance + lateness : ~BlockedAt(mac, t)
                    IN  /\ recurring /\ isLong /\ isDue(b - Advance) /\ isFree => said("STARTING_SOON", b)
                        /\ recurring /\ e - b > lateness /\ isDue(b) => said("STARTED", b)
                        /\ recurring /\ isLong /\ isDue(e - Advance) => said("ENDING_SOON", e)
                        /\ lateness = 0 /\ isDue(e) /\ e > created_at => said(ended, e)

(* The weeks of a timeline are announced completely.                       *)
AnnouncesItsWeeks ==
    notification_timeline # NULL =>
        AnnouncesBlocksUntil(WeekStart(processTZ, created_at) + WeeksAhead * Week)

(* "Reset RBUS notification counter for new schedule": once the thread has *)
(* seen a schedule, the counter tells of its notifications only, and there *)
(* is an event for each type and time that was announced, unless a client  *)
(* has reset it.  (Wrapping around is beyond the bounds of the runs.)      *)
CountIsOfSchedule ==
    ~schedule_structure_changed =>
        /\ sent \cup earlier = {} => g_notification_count = 0
        /\ ~client_reset =>
              Cardinality({<<n.type, n.time>> : n \in sent \cup earlier}) <= g_notification_count

(* src/src/aker_notification.h:67: "Tracks which notifications have been   *)
(* sent to avoid duplicates".                                              *)
NeverSentTwice == sent \cap earlier = {}
=============================================================================
