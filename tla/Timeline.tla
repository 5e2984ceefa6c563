------------------------------ MODULE Timeline ------------------------------
(***************************************************************************)
(* src/src/aker_notification.c: from a schedule to the blocking periods of *)
(* each MAC, and from the periods to what has to be announced when.  Pure  *)
(* operators, no state.                                                    *)
(*                                                                         *)
(* A timeline is a function from the indexes of the MAC table to sequences *)
(* of periods.  The four flags of mac_notification_state_t are a set of    *)
(* kinds, `done`.  A MAC in a batch is a notification here, and a batch a  *)
(* sequence of them; texts and logging are left out.                       *)
(*                                                                         *)
(* Week starts are computed with one UTC offset per zone and week: a week  *)
(* in which daylight saving time begins or ends is left out here.          *)
(***************************************************************************)
EXTENDS Schedule, SequencesExt

CONSTANTS
    Advance,        \* NOTIFICATION_ADVANCE_TIME_SEC
    Late,           \* NOTIFICATION_LATE_THRESHOLD_SEC
    Tolerance,      \* SCHEDULED_TIME_TOLERANCE_SEC
    WeeksAhead,     \* MAX_WEEKS_AHEAD
    BatchSize,      \* MACs in a mac_batch_t, 256
    ArrayRoom       \* MACs in the 2048 bytes of build_mac_array(), 102

ASSUME TimelineAssumption ==
    /\ Advance \in Nat /\ Late \in Nat /\ Tolerance \in Nat
    /\ WeeksAhead \in Nat \ {0} /\ BatchSize \in Nat \ {0} /\ ArrayRoom \in Nat

ListsMac(e, mac) == \E i \in DOMAIN e.block : e.block[i] = mac

(* "Until I unpause": such a MAC has no periods.                           *)
IsIndefinitelyBlocked(s, mac) ==
    s.weekly # << >> /\ \A i \in DOMAIN s.weekly : ListsMac(s.weekly[i], mac)

-----------------------------------------------------------------------------
(* The list of events, weekly ones expanded into concrete times.           *)

WeekStart(zone, t) == t - Weekly(zone, t)

(* Mutation of WeeklyToUnixTime: the week begins in UTC.                   *)
WeeklyToUnixTimeUTC(zone, weekly_sec, base) == base - (base % Week) + weekly_sec

WeeklyToUnixTime(zone, weekly_sec, base) == WeekStart(zone, base) + weekly_sec

FutureLimit(now) == now + WeeksAhead * Week

(* The current week counts from its start, later ones from now.            *)
IsIncluded(zone, now, week, t) ==
    /\ t <= FutureLimit(now)
    /\ IF week = 0 THEN t >= WeekStart(zone, now) ELSE t > now

(* timeline_event_t                                                        *)
TimelineEvent == [time : Int, block : Seq(Nat), absolute : BOOLEAN]

WeeklyEvents(s, zone, now, week) ==
    [i \in DOMAIN s.weekly |->
        [time     |-> WeeklyToUnixTime(zone, s.weekly[i].time, now + week * Week),
         block    |-> s.weekly[i].block,
         absolute |-> FALSE]]

AbsoluteEvents(s) ==
    [i \in DOMAIN s.absolute |->
        [time |-> s.absolute[i].time, block |-> s.absolute[i].block, absolute |-> TRUE]]

(* Events not older than the tolerance, and the one in force now.          *)
IsRecent(s, now, t) ==
    LET past == {u \in Times(s.absolute) : u <= now}
        isInForce == t \in past /\ \A u \in past : u <= t
    IN  (t >= now - Tolerance \/ isInForce) /\ t <= FutureLimit(now)

(* At one time, absolute events come before weekly ones.                   *)
Precedes(x, e) == x.time < e.time \/ (x.time = e.time /\ x.absolute /\ ~e.absolute)

(* Mutation of InsertEventSorted: events are kept in the order they come.  *)
AppendEvent(list, e) == Append(list, e)

(* An equal event goes behind the head but before any other equal one.     *)
InsertEventSorted(list, e) ==
    LET isFirst == \/ list = << >>
                   \/ e.time < list[1].time
                   \/ e.time = list[1].time /\ e.absolute /\ ~list[1].absolute
        place   == CHOOSE k \in 2 .. Len(list) + 1 :
                      /\ \A i \in 2 .. k - 1 : Precedes(list[i], e)
                      /\ k \in DOMAIN list => ~Precedes(list[k], e)
    IN  InsertAt(list, IF isFirst THEN 1 ELSE place, e)

(* The events that are included, one after the other.                      *)
AddEvents(list, events, included) ==
    LET added[i \in 0 .. Len(events)] ==
            IF i = 0 THEN list
            ELSE IF i \in included THEN InsertEventSorted(added[i - 1], events[i])
            ELSE added[i - 1]
    IN  added[Len(events)]

AddWeek(list, s, zone, now, week) ==
    LET events == WeeklyEvents(s, zone, now, week)
    IN  AddEvents(list, events,
                  {i \in DOMAIN events : IsIncluded(zone, now, week, events[i].time)})

AddWeeks(s, zone, now) ==
    LET added[w \in 0 .. WeeksAhead] ==
            IF w = 0 THEN << >> ELSE AddWeek(added[w - 1], s, zone, now, w - 1)
    IN  added[WeeksAhead]

AddAbsolute(list, s, now) ==
    LET events == AbsoluteEvents(s)
    IN  AddEvents(list, events, {i \in DOMAIN events : IsRecent(s, now, events[i].time)})

TimelineEvents(s, zone, now) == AddAbsolute(AddWeeks(s, zone, now), s, now)

-----------------------------------------------------------------------------
(* build_periods_for_mac(): one walk over the events.                      *)

Kinds == {"STARTING_SOON", "STARTED", "ENDING_SOON", "ENDED"}

(* mac_block_period_t                                                      *)
Period == [start : Int, end : Int, start_is_absolute : BOOLEAN,
           end_is_absolute : BOOLEAN, done : SUBSET Kinds]

Unblocked == [block_start |-> 0, currently_blocked |-> FALSE, start_is_absolute |-> FALSE,
              absolute_controls_period |-> FALSE, weekly_blocked |-> FALSE,
              absolute_blocked |-> FALSE, periods |-> << >>]

(* The weekly events at the time of event k, all of them further down.     *)
TiedWeekly(events, k) ==
    {i \in k + 1 .. Len(events) : events[i].time = events[k].time /\ ~events[i].absolute}

FollowsTiedAbsolute(events, k) ==
    \E i \in 1 .. k - 1 : events[i].time = events[k].time /\ events[i].absolute

(* A start that ties a weekly one counts as weekly.                        *)
StartPeriod(events, mac, st, k) ==
    LET absolute == /\ events[k].absolute
                    /\ \A i \in TiedWeekly(events, k) : ~ListsMac(events[i], mac)
    IN  [st EXCEPT !.block_start = events[k].time, !.currently_blocked = TRUE,
                   !.start_is_absolute = absolute, !.absolute_controls_period = absolute]

(* An absolute event within a period: a hand-over to the weekly schedule,  *)
(* or a new pause, or the pause there is carried on.                       *)
ReaffirmPeriod(events, mac, st, k, wasAbsolute) ==
    [st EXCEPT !.absolute_controls_period =
        IF \E i \in TiedWeekly(events, k) : ListsMac(events[i], mac) THEN FALSE
        ELSE @ \/ ~wasAbsolute]

(* An absolute pause expires while the weekly schedule still blocks.       *)
WeeklyHolds(events, mac, st, k) ==
    LET tied == TiedWeekly(events, k)
    IN  IF tied = {} THEN st.weekly_blocked ELSE ListsMac(events[Min(tied)], mac)

EndPeriod(events, mac, now, st, k) ==
    LET t == events[k].time
        endIsAbsolute == /\ events[k].absolute
                         /\ \/ st.absolute_controls_period
                            \/ \A i \in TiedWeekly(events, k) : ListsMac(events[i], mac)
        period == [start |-> st.block_start, end |-> t,
                   start_is_absolute |-> st.start_is_absolute,
                   end_is_absolute |-> endIsAbsolute, done |-> {}]
    IN  [st EXCEPT !.periods = IF t > now THEN Append(@, period) ELSE @,
                   !.currently_blocked = FALSE, !.absolute_controls_period = FALSE]

(* One event.  Weekly events do not count at the time of an absolute one   *)
(* nor within a period that an absolute event controls.                    *)
NextEvent(events, mac, now, before, k) ==
    LET e == events[k]
        listed == ListsMac(e, mac)
        st == IF e.absolute THEN [before EXCEPT !.absolute_blocked = listed]
                            ELSE [before EXCEPT !.weekly_blocked = listed]
        ignored == /\ ~e.absolute
                   /\ \/ FollowsTiedAbsolute(events, k)
                      \/ st.currently_blocked /\ st.absolute_controls_period
    IN  CASE ignored -> st
          [] ~ignored /\ listed /\ ~st.currently_blocked -> StartPeriod(events, mac, st, k)
          [] ~ignored /\ listed /\ st.currently_blocked ->
                IF e.absolute THEN ReaffirmPeriod(events, mac, st, k, before.absolute_blocked)
                ELSE st
          [] ~ignored /\ ~listed /\ st.currently_blocked ->
                IF e.absolute /\ WeeklyHolds(events, mac, st, k)
                THEN [st EXCEPT !.absolute_controls_period = FALSE]
                ELSE EndPeriod(events, mac, now, st, k)
          [] OTHER -> st

(* A block that has not ended at the last event makes no period.           *)
BuildPeriodsForMac(events, mac, now) ==
    LET walk[k \in 0 .. Len(events)] ==
            IF k = 0 THEN Unblocked ELSE NextEvent(events, mac, now, walk[k - 1], k)
    IN  walk[Len(events)].periods

BuildTimelineFromSchedule(s, zone, now) ==
    LET events == TimelineEvents(s, zone, now)
    IN  [mac \in DOMAIN s.macs |->
            IF IsIndefinitelyBlocked(s, mac) THEN << >> ELSE BuildPeriodsForMac(events, mac, now)]

-----------------------------------------------------------------------------
(* Reading a timeline.                                                     *)

(* Mutation of IsBlockedIn: the end belongs to the period.                 *)
IsBlockedInInclusive(periods, t) ==
    \E k \in DOMAIN periods : periods[k].start <= t /\ t <= periods[k].end

(* is_mac_blocked_in_timeline(): gives up at the first period after t.     *)
IsBlockedIn(periods, t) ==
    \E k \in DOMAIN periods :
        /\ periods[k].start <= t /\ t < periods[k].end
        /\ \A i \in 1 .. k - 1 : periods[i].start <= t

DueTime(p, kind) ==
    CASE kind = "STARTING_SOON" -> p.start - Advance
      [] kind = "STARTED"       -> p.start
      [] kind = "ENDING_SOON"   -> p.end - Advance
      [] kind = "ENDED"         -> p.end

(* A short period is not announced in advance.                             *)
Applies(p, kind) == kind \in {"STARTING_SOON", "ENDING_SOON"} => p.end - p.start >= Advance

(* What send_pending_notifications_with_state_check() is to deal with.     *)
Pending(p, now) ==
    {kind \in Kinds \ p.done :
        p.end >= now /\ Applies(p, kind) /\ now >= DueTime(p, kind)}

(* It says nothing too late, to a user who knows, or without a change.     *)
IsAnnounced(periods, p, kind, now) ==
    /\ now - DueTime(p, kind) <= Late
    /\ kind \in {"STARTING_SOON", "STARTED"} => ~p.start_is_absolute
    /\ kind = "ENDING_SOON" => ~p.end_is_absolute
    /\ CASE kind = "STARTING_SOON" -> IsBlockedIn(periods, p.start) /\ ~IsBlockedIn(periods, now)
         [] kind = "STARTED"       -> IsBlockedIn(periods, now)
         [] kind = "ENDING_SOON"   -> IsBlockedIn(periods, now) /\ ~IsBlockedIn(periods, p.end)
         [] kind = "ENDED"         -> IsBlockedIn(periods, p.end - 1) /\ ~IsBlockedIn(periods, now)

(* The scheduled time in a notification is that of the start or the end.   *)
Notification(mac, p, kind) ==
    [type |-> IF kind = "ENDED" /\ p.end_is_absolute THEN "NON_RECURRING_UNPAUSED" ELSE kind,
     mac  |-> mac,
     time |-> IF kind \in {"STARTING_SOON", "STARTED"} THEN p.start ELSE p.end]

Periods(timeline) == UNION {{mac} \X DOMAIN timeline[mac] : mac \in DOMAIN timeline}

(* What is to be announced of a period.                                    *)
NotificationsOf(timeline, mac, k, now) ==
    LET p == timeline[mac][k]
    IN  {Notification(mac, p, kind) : kind \in
            {x \in Pending(p, now) : IsAnnounced(timeline[mac], p, x, now)}}

Types == Kinds \cup {"NON_RECURRING_UNPAUSED"}

(* Another time sends the batch there is and begins a new one.  A batch    *)
(* that is full takes no more.                                             *)
AddToBatch(batches, n) ==
    LET last == batches[Len(batches)]
    IN  CASE batches = << >> -> << <<n>> >>
          [] batches # << >> /\ last[1].time # n.time -> Append(batches, <<n>>)
          [] batches # << >> /\ last[1].time = n.time /\ Len(last) < BatchSize ->
                [batches EXCEPT ![Len(batches)] = Append(last, n)]
          [] OTHER -> batches

(* A period has at most one notification of a type.                        *)
AddOfType(batches, notifications, type) ==
    LET ofType == {n \in notifications : n.type = type}
    IN  IF ofType = {} THEN batches ELSE AddToBatch(batches, CHOOSE n \in ofType : TRUE)

(* The walk: MAC by MAC, period by period.                                 *)
AddMac(batches, timeline, mac, type, now) ==
    LET added[k \in 0 .. Len(timeline[mac])] ==
            IF k = 0 THEN batches
            ELSE AddOfType(added[k - 1], NotificationsOf(timeline, mac, k, now), type)
    IN  added[Len(timeline[mac])]

BatchesOf(timeline, type, now) ==
    LET added[mac \in 0 .. Len(timeline)] ==
            IF mac = 0 THEN << >> ELSE AddMac(added[mac - 1], timeline, mac, type, now)
    IN  added[Len(timeline)]

Batches(timeline, now) == UNION {ToSet(BatchesOf(timeline, type, now)) : type \in Types}

(* send_notification_event() gives up on a batch that has no room.         *)
Events(timeline, now) == {b \in Batches(timeline, now) : Len(b) <= ArrayRoom}

Notifications(timeline, now) == UNION {ToSet(b) : b \in Events(timeline, now)}

(* Mutation of MarkDone: only what was skipped is marked.                  *)
MarkSkipped(timeline, now) ==
    [mac \in DOMAIN timeline |->
        [k \in DOMAIN timeline[mac] |->
            [timeline[mac][k] EXCEPT !.done =
                @ \cup {x \in Pending(timeline[mac][k], now) :
                            ~IsAnnounced(timeline[mac], timeline[mac][k], x, now)}]]]

(* Sent, given up or skipped, it is not looked at again, unless a full     *)
(* batch did not take it.                                                  *)
MarkDone(timeline, now) ==
    LET batched == UNION {ToSet(b) : b \in Batches(timeline, now)}
        leftOver(mac, k) == NotificationsOf(timeline, mac, k, now) \ batched
    IN  [mac \in DOMAIN timeline |->
            [k \in DOMAIN timeline[mac] |->
                LET p == timeline[mac][k]
                IN  [p EXCEPT !.done = @ \cup
                        {x \in Pending(p, now) : Notification(mac, p, x) \notin leftOver(mac, k)}]]]

(* Mutation of Waits: an absolute start makes the end be forgotten too.    *)
WaitsForWeekly(p, kind, now) ==
    /\ p.end > now /\ DueTime(p, kind) >= now
    /\ kind \notin p.done /\ Applies(p, kind)
    /\ ~p.start_is_absolute

Waits(p, kind, now) ==
    /\ p.end > now /\ DueTime(p, kind) >= now
    /\ kind \notin p.done /\ Applies(p, kind)
    /\ kind \in {"STARTING_SOON", "STARTED"} => ~p.start_is_absolute

GetNextNotificationTime(timeline, now) ==
    Earliest({DueTime(timeline[x[1][1]][x[1][2]], x[2]) : x \in
                {y \in Periods(timeline) \X Kinds : Waits(timeline[y[1][1]][y[1][2]], y[2], now)}})
=============================================================================
