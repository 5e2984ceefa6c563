------------------------------- MODULE Decode -------------------------------
(***************************************************************************)
(* decode_schedule() of src/src/decode.c: a msgpack buffer becomes a       *)
(* schedule_t, one key of one map at a time.  The buffer is a sequence of  *)
(* maps; which keys they hold, in which order and with which values is the *)
(* input, chosen step by step.  The keys are recognised as wholes: that    *)
(* strncmp() accepts a prefix of one is not modelled.                      *)
(***************************************************************************)
EXTENDS Schedule

CONSTANTS
    WeeklyEvents, AbsoluteEvents, \* the events the tables of a payload hold
    Malformed,                  \* a table entry process_map() fails on, or
                                \* one that names no block list at all
    MacTables,                  \* the MAC tables a payload may hold
    None,                       \* NULL
    Zones,                      \* its time zones
    Rates,                      \* its reporting rates
    MinimumReportingRate,       \* MINIMUM_REPORTING_RATE
    IsMac(_),                   \* __validate_mac()
    MaxMacs,                    \* get_max_mac_limit()
    MaxTable, MaxKeys, MaxObjects, \* bounds of the check: entries in a table,
                                \* keys and maps in a buffer
    Probes                      \* the moments at which properties look at an
                                \* accepted schedule

(* schedule_t                                                              *)
ScheduleRecord ==
    [time_zone : Zones \cup {NoZone}, absolute : Seq(ScheduleEvent),
     weekly : Seq(ScheduleEvent), macs : MacTables, report_rate_s : Nat]

ASSUME DecodeAssumption ==
    /\ WeeklyEvents \cup AbsoluteEvents \subseteq ScheduleEvent
    /\ << >> \in MacTables
    /\ Rates \subseteq Nat /\ MinimumReportingRate \in Nat
    /\ None \notin ScheduleRecord
    /\ MaxTable \in Nat /\ MaxKeys \in Nat /\ MaxObjects \in Nat \ {0}
    /\ Probes \subseteq Int
    /\ \A zone \in Zones, t \in Probes : UTCOffset(zone, t) \in Int

VARIABLES
    pc,         \* at an "object", in the "keys" of a map, at the "end" of
                \* the buffer, "done"
    s,          \* the schedule under construction, or None once destroyed
    ret_val,
    processTZ,  \* the TZ environment variable of the process
    keys,       \* keys read
    objects     \* maps finished

vars == <<pc, s, ret_val, processTZ, keys, objects>>

Empty == [time_zone |-> NoZone, absolute |-> << >>, weekly |-> << >>,
          macs |-> << >>, report_rate_s |-> 0]

Init ==
    /\ pc = "object"
    /\ s = Empty
    /\ ret_val = 0
    /\ processTZ \in Zones
    /\ keys = 0
    /\ objects = 0

-----------------------------------------------------------------------------
(* create_schedule_event() returns NULL for more MACs than the limit;      *)
(* process_map() then fails, and the entry is skipped like a malformed one.*)
FitsLimit(block) == Len(block) <= MaxMacs

IsUsable(entry) == entry # Malformed /\ FitsLimit(entry.block)

(* decode_schedule_table(): entries are inserted one by one up to the      *)
(* first one insert_event() refuses; f[i] is the table after entry i.      *)
AfterEntry(before, entry) ==
    IF before.rv # 0 \/ ~IsUsable(entry) THEN before
    ELSE [list |-> InsertEvent(before.list, entry),
          rv   |-> IF IsRefused(before.list, entry) THEN -1 ELSE 0]

TableAfter(list, entries) ==
    LET f[i \in 0 .. Len(entries)] ==
            IF i = 0 THEN [list |-> list, rv |-> 0] ELSE AfterEntry(f[i - 1], entries[i])
    IN  f[Len(entries)]

Tables(events) == UNION {[1 .. n -> events \cup {Malformed}] : n \in 0 .. MaxTable}

AtKey == pc = "keys" /\ keys < MaxKeys

NextKey == keys' = keys + 1 /\ UNCHANGED <<pc, objects>>

WeeklyKey(entries) ==
    /\ AtKey
    /\ LET result == TableAfter(s.weekly, entries)
       IN  /\ s' = [s EXCEPT !.weekly = result.list]
           /\ ret_val' = IF result.rv # 0 THEN -9 ELSE ret_val
    /\ NextKey
    /\ UNCHANGED processTZ

AbsoluteKey(entries) ==
    /\ AtKey
    /\ LET result == TableAfter(s.absolute, entries)
       IN  /\ s' = [s EXCEPT !.absolute = result.list]
           /\ ret_val' = IF result.rv # 0 THEN -10 ELSE ret_val
    /\ NextKey
    /\ UNCHANGED processTZ

(* set_mac_index() of every entry of a table that is not empty.            *)
IsValidTable(macs) == macs # << >> /\ \A i \in DOMAIN macs : IsMac(macs[i])

(* decode_macs_table(): an empty table or one invalid address is an error, *)
(* and the table is then freed.                                            *)
MacsKey(macs) ==
    /\ AtKey
    /\ IF IsValidTable(macs)
       THEN s' = [s EXCEPT !.macs = macs] /\ UNCHANGED ret_val
       ELSE s' = [s EXCEPT !.macs = << >>] /\ ret_val' = -7
    /\ NextKey
    /\ UNCHANGED processTZ

(* decode_string_type(): the zone of the process is set at once.           *)
ZoneKey(zone) ==
    /\ AtKey
    /\ s' = [s EXCEPT !.time_zone = zone]
    /\ processTZ' = zone
    /\ NextKey
    /\ UNCHANGED ret_val

ReportRateKey(rate) ==
    /\ AtKey
    /\ s' = [s EXCEPT !.report_rate_s =
                IF 0 < rate /\ rate < MinimumReportingRate
                THEN MinimumReportingRate ELSE rate]
    /\ NextKey
    /\ UNCHANGED <<ret_val, processTZ>>

(* The next object is a map, or it is not.                                 *)
Map ==
    /\ pc = "object"
    /\ pc' = "keys"
    /\ UNCHANGED <<s, ret_val, processTZ, keys, objects>>

NotAMap ==
    /\ pc = "object"
    /\ ret_val' = -5
    /\ pc' = "end"
    /\ UNCHANGED <<s, processTZ, keys, objects>>

(* The end of a map.  `0 < finalize_schedule(s)` is never true.            *)
(* msgpack_unpack_next() then finds another object, the end or garbage.    *)
EndOfMap ==
    /\ pc = "keys"
    /\ s' = FinalizeSchedule(s)
    /\ objects' = objects + 1
    /\ \/ objects' < MaxObjects /\ pc' = "object" /\ UNCHANGED ret_val
       \/ pc' = "end" /\ ret_val' \in {ret_val, -6}
    /\ UNCHANGED <<processTZ, keys>>

IsValid == ret_val = 0 /\ s.macs # << >> /\ (s.weekly # << >> \/ s.absolute # << >>)

(* msgpack_unpack_next() finds no first object: nothing was consumed, or   *)
(* something was but nothing is done with it.                              *)
Unreadable ==
    /\ pc = "object"
    /\ objects = 0
    /\ ret_val' \in {-3, 0}
    /\ pc' = "end"
    /\ UNCHANGED <<s, processTZ, keys, objects>>

(* Mutation of Return: a schedule without MACs or events is no error.      *)
ReturnSilently ==
    /\ pc = "end"
    /\ pc' = "done"
    /\ s' = IF IsValid THEN s ELSE None
    /\ UNCHANGED <<ret_val, processTZ, keys, objects>>

Return ==
    /\ pc = "end"
    /\ pc' = "done"
    /\ s' = IF IsValid THEN s ELSE None
    /\ ret_val' = IF IsValid \/ ret_val # 0 THEN ret_val ELSE -9
    /\ UNCHANGED <<processTZ, keys, objects>>

Next ==
    \/ \E entries \in Tables(WeeklyEvents) : WeeklyKey(entries)
    \/ \E entries \in Tables(AbsoluteEvents) : AbsoluteKey(entries)
    \/ \E macs \in MacTables : MacsKey(macs)
    \/ \E zone \in Zones : ZoneKey(zone)
    \/ \E rate \in Rates : ReportRateKey(rate)
    \/ Map
    \/ NotAMap
    \/ EndOfMap
    \/ Unreadable
    \/ Return

Spec == Init /\ [][Next]_vars

-----------------------------------------------------------------------------
(* Properties.  They speak of an accepted schedule, in the zone and at the *)
(* moments the scheduler may ask about it.                                 *)

IsAccepted == pc = "done" /\ s # None

(* The type of every variable: a return code of decode_schedule() is one   *)
(* of the documented ones, and NULL is handed out exactly with an error.   *)
TypeOK ==
    /\ pc \in {"object", "keys", "end", "done"}
    /\ s # None => s \in ScheduleRecord
    /\ ret_val \in {0, -3, -5, -6, -7, -9, -10}
    /\ pc = "done" => (ret_val = 0 <=> s # None)
    /\ processTZ \in Zones
    /\ keys \in 0 .. MaxKeys
    /\ objects \in 0 .. MaxObjects

HasUniqueTimes(list) ==
    \A i, j \in DOMAIN list : list[i].time = list[j].time => i = j

(* The weekly event at or before t, found without the lists being sorted   *)
(* or finalized: how long ago each event of the payload last took place.   *)
Age(e, zone, t) == (Weekly(zone, t) - e.time) % Week

PayloadEvents == {e \in {s.weekly[i] : i \in DOMAIN s.weekly} : e.time >= 0}

WeeklyRule(zone, t) ==
    BlockList(s, CHOOSE e \in PayloadEvents :
                    \A f \in PayloadEvents : Age(e, zone, t) <= Age(f, zone, t))

(* A purely weekly schedule, whatever the order of its events in the       *)
(* payload, blocks at every moment what the event that took place last     *)
(* prescribes, across the end of the week too: insert_event(),             *)
(* finalize_schedule() and get_blocked_at_time() together.  The payload is *)
(* one map: a second one leaves the event that the first finalize_schedule() *)
(* put before the week in its place, though it is the last event no more.  *)
WeeklyEventRules ==
    IsAccepted /\ objects = 1 /\ s.absolute = << >> /\ HasUniqueTimes(s.weekly) =>
        \A zone \in Zones, t \in Probes :
            GetBlockedAtTime(s, zone, t) = WeeklyRule(zone, t)

(* Between two absolute events the earlier one rules, whatever the weekly  *)
(* table says: "The absolute schedule to apply if a matching time window   *)
(* is found" (schedule.h).                                                 *)
AbsoluteWindowRules ==
    IsAccepted /\ HasUniqueTimes(s.absolute) =>
        \A zone \in Zones, t \in Probes :
            \A e, f \in {s.absolute[i] : i \in DOMAIN s.absolute} :
                /\ e.time <= t
                /\ t < f.time
                /\ ~\E u \in Times(s.absolute) : e.time < u /\ u <= t
                => GetBlockedAtTime(s, zone, t) = BlockList(s, e)

(* The scheduler sleeps from t until the next wake-up: the block list must *)
(* not change before it.                                                   *)
WakesForEveryChangeAfter(zone, t) ==
    \A u \in Probes :
        u > t /\ GetBlockedAtTime(s, zone, u) # GetBlockedAtTime(s, zone, t) =>
            GetNextUnixtime(s, zone, t) <= u

(* Nothing is slept through by a schedule that is only weekly, without an  *)
(* event at Sunday 00:00:00, or only absolute, and came in one map.        *)
WakesForEveryChange ==
    /\ IsAccepted /\ objects = 1
    /\ \/ s.absolute = << >> /\ 0 \notin Times(s.weekly)
       \/ s.weekly = << >>
    => \A zone \in Zones, t \in Probes : WakesForEveryChangeAfter(zone, t)

-----------------------------------------------------------------------------
(* What the comments of the source say and the code does not do; each has  *)
(* a run that ends in a counterexample.                                    *)

(* "If the abs time event is the most recent, use it as long as it's in    *)
(* the past.  Otherwise use the weekly schedule" (schedule.c): before its  *)
(* first event the absolute schedule is without effect, and after its last *)
(* it gives way to the next weekly event that takes place, and only then.  *)
MostRecentEventRules ==
    IsAccepted /\ s.absolute # << >> /\ PayloadEvents # {}
    /\ HasUniqueTimes(s.absolute) /\ HasUniqueTimes(s.weekly) =>
        LET last == s.absolute[Len(s.absolute)]
            isMostRecent(zone, t) == /\ last.time <= t
                                     /\ \A e \in PayloadEvents : Age(e, zone, t) > t - last.time
        IN  \A zone \in Zones, t \in Probes :
                last.time <= t \/ (\A u \in Times(s.absolute) : t < u) =>
                    GetBlockedAtTime(s, zone, t) =
                        IF isMostRecent(zone, t) THEN BlockList(s, last) ELSE WeeklyRule(zone, t)

(* "Find the next imminent event and return its time since Epoch"          *)
(* (schedule.h): no weekly or absolute event takes place before it.        *)
NextEventIsFound ==
    IsAccepted =>
        \A zone \in Zones, t, u \in Probes :
            /\ u > t
            /\ \/ u \in Times(s.absolute)
               \/ Weekly(zone, u) \in {e.time : e \in PayloadEvents}
            => GetNextUnixtime(s, zone, t) <= u
=============================================================================
