------------------------------ MODULE Schedule ------------------------------
(***************************************************************************)
(* The schedule and what is computed from it: src/src/schedule.c and the   *)
(* weekly clock of src/src/time.c.  Pure operators, no state.              *)
(*                                                                         *)
(* A singly linked list of schedule_event_t is the sequence of its events. *)
(* An event is [time, block]; block is the C array of indexes into the     *)
(* schedule's table of MAC addresses, counted from 1.  A block list string *)
(* ("mac mac ...") is the sequence of its MAC addresses, and NULL, which   *)
(* the code returns instead of the empty string, is the empty sequence.    *)
(* Allocations succeed.                                                    *)
(***************************************************************************)
EXTENDS Integers, Sequences

CONSTANTS
    Week,               \* SECONDS_IN_A_WEEK
    INT_MAX,            \* "no further event"
    NoZone,             \* a schedule without a time zone (time_zone == NULL)
    UTCOffset(_, _)     \* UTCOffset(zone, t): local time minus UTC at t, the
                        \* distance from the epoch to a Sunday included

ASSUME WeekAssumption == Week \in Nat \ {0} /\ INT_MAX \in Nat

(* schedule_event_t                                                        *)
ScheduleEvent == [time : Int, block : Seq(Nat)]

(* localtime() of convert_unix_time_to_weekly(): the zone is the TZ of the *)
(* process, and the offset may change with t (daylight saving time).       *)
Weekly(zone, t) == (t + UTCOffset(zone, t)) % Week

-----------------------------------------------------------------------------
(* Building the lists: insert_event() and finalize_schedule().             *)

(* Where the walk of insert_event() stops: the first event not before t.   *)
InsertPosition(list, t) ==
    CHOOSE k \in 1 .. Len(list) + 1 :
        /\ \A i \in 1 .. k - 1 : list[i].time < t
        /\ k \in DOMAIN list => list[k].time >= t

(* The duplicate check compares with `prev`, which is an event BEFORE the  *)
(* stopping point unless the walk stopped at once: only an event at the    *)
(* time of the head is refused.                                            *)
IsRefused(list, e) ==
    list # << >> /\ InsertPosition(list, e.time) = 1 /\ e.time = list[1].time

InsertEvent(list, e) ==
    LET k == InsertPosition(list, e.time)
    IN  IF IsRefused(list, e) THEN list
        ELSE SubSeq(list, 1, k - 1) \o <<e>> \o SubSeq(list, k, Len(list))

(* Mutation of FinalizeWeekly: the first event is copied, not the last.    *)
FinalizeWeeklyFromFirst(weekly) ==
    IF weekly # << >> /\ weekly[1].time > 0
    THEN InsertEvent(weekly, [weekly[1] EXCEPT !.time = @ - Week])
    ELSE weekly

(* The week starts inside the last event of the week before.               *)
FinalizeWeekly(weekly) ==
    IF weekly # << >> /\ weekly[1].time > 0
    THEN InsertEvent(weekly, [weekly[Len(weekly)] EXCEPT !.time = @ - Week])
    ELSE weekly

FinalizeSchedule(s) == [s EXCEPT !.weekly = FinalizeWeekly(@)]

-----------------------------------------------------------------------------
(* Reading it: get_blocked_at_time() and get_next_unixtime().              *)

(* Mutation of Reached: an event begins to count after its time.           *)
ReachedLate(list, t) ==
    CHOOSE k \in DOMAIN list :
        /\ \A i \in 2 .. k : list[i].time < t
        /\ k < Len(list) => list[k + 1].time >= t

(* The list is walked from its first event, whatever the time of that one, *)
(* for as long as the next event is not after t.                           *)
Reached(list, t) ==
    CHOOSE k \in DOMAIN list :
        /\ \A i \in 2 .. k : list[i].time <= t
        /\ k < Len(list) => list[k + 1].time > t

(* __convert_event_to_string(): an index outside the table voids the list. *)
BlockList(s, e) ==
    IF \A i \in DOMAIN e.block : e.block[i] \in DOMAIN s.macs
    THEN [i \in DOMAIN e.block |-> s.macs[e.block[i]]]
    ELSE << >>

GetBlockedAtTime(s, zone, now) ==
    LET weekly  == Weekly(zone, now)
        abs     == s.absolute
        absPrev == Reached(abs, now)
        wPrev   == s.weekly[Reached(s.weekly, weekly)]
        lastAbs == IF abs = << >> THEN weekly + 1
                   ELSE Weekly(zone, abs[absPrev].time)
        inWindow == abs # << >> /\ absPrev < Len(abs) /\ abs[absPrev].time <= now
    IN  CASE inWindow -> BlockList(s, abs[absPrev])
          [] ~inWindow /\ s.weekly # << >> ->
                IF wPrev.time < lastAbs /\ lastAbs <= weekly
                THEN BlockList(s, abs[absPrev])
                ELSE BlockList(s, wPrev)
          [] ~inWindow /\ s.weekly = << >> ->
                IF abs # << >> /\ abs[absPrev].time <= now
                THEN BlockList(s, abs[absPrev])
                ELSE << >>

(* The smaller of INT_MAX and the members of a set of times.               *)
Earliest(times) ==
    IF \E t \in times : t < INT_MAX
    THEN CHOOSE t \in times : \A u \in times : t <= u
    ELSE INT_MAX

Times(list) == {list[i].time : i \in DOMAIN list}

Positive(weekly) == {t \in Times(weekly) : t > 0}

(* Mutation of FirstWeekly: every event is taken for the first.            *)
LastWeekly(weekly) ==
    CHOOSE t \in Positive(weekly) : \A u \in Positive(weekly) : u <= t

(* The first event of the week that is not the one finalize_schedule() put *)
(* there.                                                                  *)
FirstWeekly(weekly) ==
    CHOOSE t \in Positive(weekly) : \A u \in Positive(weekly) : t <= u

(* A pending absolute event hides every weekly one; an event at time 0 or  *)
(* before is no target when the search wraps to the next week.             *)
GetNextUnixtime(s, zone, now) ==
    LET weekly     == Weekly(zone, now)
        absolute   == {t \in Times(s.absolute) : t > now /\ t < INT_MAX}
        thisWeek   == Earliest({(now - weekly) + t : t \in {u \in Times(s.weekly) : u > weekly}})
    IN  IF absolute # {} THEN Earliest(absolute)
        ELSE IF Positive(s.weekly) = {} THEN INT_MAX
        ELSE IF thisWeek = INT_MAX THEN (now - weekly) + FirstWeekly(s.weekly) + Week
        ELSE thisWeek
=============================================================================
