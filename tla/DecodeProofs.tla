----------------------------- MODULE DecodeProofs -----------------------------
(***************************************************************************)
(* Proofs about Decode, for payloads of any size, any time zones and any   *)
(* MAC tables.                                                             *)
(***************************************************************************)
EXTENDS Decode, ScheduleProofs

(***************************************************************************)
(* decode_schedule_table(): what every entry preserves the table preserves.*)
(***************************************************************************)
LEMMA TableStaysIn ==
    ASSUME NEW list, NEW n \in Nat, NEW entries, Len(entries) = n,
           NEW S, [list |-> list, rv |-> 0] \in S,
           \A r \in S, i \in 1 .. n : AfterEntry(r, entries[i]) \in S
    PROVE  TableAfter(list, entries) \in S
<1> DEFINE init == [list |-> list, rv |-> 0]
           Walk(f) == [i \in 0 .. n |-> IF i = 0 THEN init ELSE AfterEntry(f[i - 1], entries[i])]
           step == [p \in (1 .. n) \X S |-> AfterEntry(p[2], entries[p[1]])]
           f == CHOOSE g : g = Walk(g)
<1>1. \E g : g = Walk(g)
  <2>1. step \in [(1 .. n) \X S -> S] /\ init \in S
    OBVIOUS
  <2> HIDE DEF init, step
  <2>2. PICK g : IsRun(g, n, S, init, step)
    BY <2>1, RecursionExists
  <2>3. \A i \in 1 .. n : g[i] = AfterEntry(g[i - 1], entries[i])
    <3>1. \A i \in 1 .. n : g[i - 1] \in S
      BY <2>2 DEF IsRun
    <3> QED
      BY <2>2, <3>1 DEF IsRun, step
  <2>4. g = Walk(g)
    BY <2>2, <2>3 DEF IsRun
  <2> QED
    BY <2>4
<1>2. f = Walk(f)
  BY <1>1
<1>3. TableAfter(list, entries) = f[n]
  BY DEF TableAfter
<1> HIDE DEF f
<1> DEFINE T == {i \in 0 .. n : f[i] \in S}
<1>4. 0 \in T
  BY <1>2
<1>5. \A i \in 0 .. n - 1 : i \in T => i + 1 \in T
  <2> SUFFICES ASSUME NEW i \in 0 .. n - 1, f[i] \in S
               PROVE  i + 1 \in T
    OBVIOUS
  <2>1. i + 1 \in 1 .. n /\ i + 1 \in 0 .. n /\ i + 1 # 0 /\ (i + 1) - 1 = i
    OBVIOUS
  <2>2. f[i + 1] = AfterEntry(f[i], entries[i + 1])
    BY <1>2, <2>1
  <2> QED
    BY <2>1, <2>2
<1>6. 0 .. n \subseteq T
  <2> HIDE DEF T
  <2> QED
    BY <1>4, <1>5, RangeInduction
<1>7. n \in T
  BY <1>6
<1> QED
  BY <1>3, <1>7

(***************************************************************************)
(* What a table makes of a list: a list again, sorted if it was sorted,    *)
(* and of times of the week if its entries are.                            *)
(***************************************************************************)
TableResult == [list : Seq(ScheduleEvent), rv : {0, -1}]

AreOfWeek(events) == \A e \in events : e.time \in 0 .. Week - 1

LEMMA InsertIsList ==
    ASSUME NEW list \in Seq(ScheduleEvent), NEW e \in ScheduleEvent
    PROVE  InsertEvent(list, e) \in Seq(ScheduleEvent)
<1>1. CASE IsRefused(list, e)
  BY <1>1 DEF InsertEvent
<1>2. CASE ~IsRefused(list, e)
  BY <1>2, InsertEventShape
<1> QED
  BY <1>1, <1>2

LEMMA EntriesOfTable ==
    ASSUME NEW events \in SUBSET ScheduleEvent, NEW entries \in Tables(events)
    PROVE  /\ Len(entries) \in Nat
           /\ \A i \in 1 .. Len(entries) : IsUsable(entries[i]) => entries[i] \in events
<1>1. PICK n \in 0 .. MaxTable : entries \in [1 .. n -> events \cup {Malformed}]
  BY DEF Tables
<1>2. Len(entries) = n /\ n \in Nat
  BY <1>1, DecodeAssumption
<1> QED
  BY <1>1, <1>2 DEF IsUsable

LEMMA EntryKeepsType ==
    ASSUME NEW r \in TableResult, NEW e, IsUsable(e) => e \in ScheduleEvent
    PROVE  AfterEntry(r, e) \in TableResult
<1>1. CASE r.rv # 0 \/ ~IsUsable(e)
  BY <1>1 DEF AfterEntry
<1>2. CASE ~(r.rv # 0 \/ ~IsUsable(e))
  <2>1. InsertEvent(r.list, e) \in Seq(ScheduleEvent)
    BY <1>2, InsertIsList DEF TableResult
  <2> QED
    BY <1>2, <2>1 DEF AfterEntry, TableResult
<1> QED
  BY <1>1, <1>2

LEMMA EntryKeepsSorted ==
    ASSUME NEW r \in TableResult, IsByTime(r.list), NEW e, IsUsable(e) => e \in ScheduleEvent
    PROVE  IsByTime(AfterEntry(r, e).list)
<1>1. CASE r.rv # 0 \/ ~IsUsable(e)
  BY <1>1 DEF AfterEntry
<1>2. CASE ~(r.rv # 0 \/ ~IsUsable(e))
  <2>1. IsByTime(InsertEvent(r.list, e))
    BY <1>2, InsertKeepsSorted DEF TableResult
  <2>2. AfterEntry(r, e).list = InsertEvent(r.list, e)
    BY <1>2 DEF AfterEntry
  <2> QED
    BY <2>1, <2>2
<1> QED
  BY <1>1, <1>2

LEMMA EntryKeepsWeek ==
    ASSUME NEW r \in TableResult, IsByTime(r.list), IsOfWeek(r.list),
           NEW e, IsUsable(e) => e \in ScheduleEvent /\ e.time \in 0 .. Week - 1
    PROVE  IsOfWeek(AfterEntry(r, e).list)
<1>1. CASE r.rv # 0 \/ ~IsUsable(e)
  BY <1>1 DEF AfterEntry
<1>2. CASE ~(r.rv # 0 \/ ~IsUsable(e))
  <2> DEFINE new == InsertEvent(r.list, e)
  <2>1. \A i \in DOMAIN new : new[i] = e \/ \E j \in DOMAIN r.list : new[i] = r.list[j]
    BY <1>2, InsertKeepsSorted DEF TableResult
  <2>2. AfterEntry(r, e).list = new
    BY <1>2 DEF AfterEntry
  <2> HIDE DEF new
  <2>3. IsOfWeek(new)
    BY <1>2, <2>1 DEF IsOfWeek
  <2> QED
    BY <2>2, <2>3
<1> QED
  BY <1>1, <1>2

LEMMA TableOf ==
    ASSUME NEW list \in Seq(ScheduleEvent), NEW events \in SUBSET ScheduleEvent,
           NEW entries \in Tables(events)
    PROVE  /\ TableAfter(list, entries) \in TableResult
           /\ IsByTime(list) => IsByTime(TableAfter(list, entries).list)
           /\ IsByTime(list) /\ IsOfWeek(list) /\ AreOfWeek(events)
                => IsOfWeek(TableAfter(list, entries).list)
<1> DEFINE n == Len(entries)
           init == [list |-> list, rv |-> 0]
           Sorted == {r \in TableResult : IsByTime(r.list)}
           Timed == {r \in Sorted : IsOfWeek(r.list)}
<1>1. n \in Nat /\ \A i \in 1 .. n : IsUsable(entries[i]) => entries[i] \in events
  BY EntriesOfTable
<1>2. init \in TableResult /\ init.list = list
  BY DEF TableResult
<1>3. TableAfter(list, entries) \in TableResult
  <2>1. \A r \in TableResult, i \in 1 .. n : AfterEntry(r, entries[i]) \in TableResult
    BY <1>1, EntryKeepsType
  <2> QED
    BY <1>1, <1>2, <2>1, TableStaysIn
<1>4. ASSUME IsByTime(list)
      PROVE  TableAfter(list, entries) \in Sorted
  <2>1. init \in Sorted
    BY <1>2, <1>4
  <2>2. \A r \in Sorted, i \in 1 .. n : AfterEntry(r, entries[i]) \in Sorted
    BY <1>1, EntryKeepsType, EntryKeepsSorted
  <2> HIDE DEF Sorted
  <2> QED
    BY <1>1, <2>1, <2>2, TableStaysIn
<1>5. ASSUME IsByTime(list), IsOfWeek(list), AreOfWeek(events)
      PROVE  TableAfter(list, entries) \in Timed
  <2>1. init \in Timed
    BY <1>2, <1>5
  <2>2. ASSUME NEW r \in Timed, NEW i \in 1 .. n
        PROVE  AfterEntry(r, entries[i]) \in Timed
    <3>1. IsUsable(entries[i]) => entries[i] \in ScheduleEvent /\ entries[i].time \in 0 .. Week - 1
      BY <1>1, <1>5 DEF AreOfWeek
    <3> QED
      BY <3>1, EntryKeepsType, EntryKeepsSorted, EntryKeepsWeek
  <2> HIDE DEF Timed
  <2> QED
    BY <1>1, <2>1, <2>2, TableStaysIn
<1> QED
  BY <1>3, <1>4, <1>5

-----------------------------------------------------------------------------
(***************************************************************************)
(* The inductive invariant.  Between the maps of a buffer and inside of    *)
(* them there is a schedule; its calendar list is sorted all the time.     *)
(***************************************************************************)
ProgressInv ==
    /\ pc # "done" => s \in ScheduleRecord
    /\ pc \in {"object", "keys"} => objects < MaxObjects
    /\ IsAccepted => s.macs # << >> /\ (s.weekly # << >> \/ s.absolute # << >>)

AbsoluteInv == s # None => IsByTime(s.absolute)

IInv ==
    /\ TypeOK
    /\ ProgressInv
    /\ AbsoluteInv

(* What holds of the weekly list until its first map is finished, and what *)
(* holds after it, if the times of the payload are times of the week.      *)
WeeklyInv ==
    s # None =>
        /\ objects = 0 => IsByTime(s.weekly) /\ IsOfWeek(s.weekly)
        /\ objects = 1 /\ pc # "keys" => IsFinal(s.weekly)

LEMMA FinalizeIsList ==
    ASSUME NEW w \in Seq(ScheduleEvent)
    PROVE  FinalizeWeekly(w) \in Seq(ScheduleEvent)
<1>1. CASE w # << >> /\ w[1].time > 0
  <2> DEFINE last == w[Len(w)]
             e == [last EXCEPT !.time = @ - Week]
  <2>1. last \in ScheduleEvent
    BY <1>1, TimeIsInt
  <2> HIDE DEF last
  <2>2. e \in ScheduleEvent
    <3>1. last.time - Week \in Int
      BY <2>1, WeekAssumption DEF ScheduleEvent
    <3> QED
      BY <2>1, <3>1 DEF ScheduleEvent
  <2>3. FinalizeWeekly(w) = InsertEvent(w, e)
    BY <1>1 DEF FinalizeWeekly, last
  <2> HIDE DEF e
  <2> QED
    BY <2>2, <2>3, InsertIsList
<1>2. CASE ~(w # << >> /\ w[1].time > 0)
  BY <1>2 DEF FinalizeWeekly
<1> QED
  BY <1>1, <1>2

LEMMA InitIInv == Init => IInv /\ WeeklyInv
<1> SUFFICES ASSUME Init
             PROVE  IInv /\ WeeklyInv
  OBVIOUS
<1>1. s \in ScheduleRecord
  BY DecodeAssumption DEF Init, Empty, ScheduleRecord
<1>2. IsByTime(s.absolute) /\ IsByTime(s.weekly) /\ IsOfWeek(s.weekly)
  BY DEF Init, Empty, IsByTime, IsOfWeek
<1>3. TypeOK
  BY <1>1, DecodeAssumption DEF Init, TypeOK
<1>4. ProgressInv /\ AbsoluteInv /\ WeeklyInv
  BY <1>1, <1>2, DecodeAssumption DEF Init, ProgressInv, AbsoluteInv, WeeklyInv, IsAccepted
<1> QED
  BY <1>3, <1>4 DEF IInv

(***************************************************************************)
(* A key of a map changes one field of the schedule.                       *)
(***************************************************************************)
LEMMA KeyKeepsIInv ==
    ASSUME IInv, AtKey, NextKey, s' \in ScheduleRecord, IsByTime(s'.absolute),
           ret_val' \in {ret_val, -7, -9, -10}, processTZ' \in Zones
    PROVE  IInv'
<1>1. pc = "keys" /\ keys < MaxKeys /\ keys' = keys + 1 /\ pc' = pc /\ objects' = objects
  BY DEF AtKey, NextKey
<1>2. TypeOK /\ ProgressInv
  BY DEF IInv
<1>3. keys' \in 0 .. MaxKeys
  BY <1>1, <1>2, DecodeAssumption DEF TypeOK
<1>4. ret_val' \in {0, -3, -5, -6, -7, -9, -10}
  BY <1>2 DEF TypeOK
<1>5. TypeOK'
  BY <1>1, <1>2, <1>3, <1>4 DEF TypeOK
<1>6. ProgressInv' /\ AbsoluteInv'
  BY <1>1, <1>2 DEF ProgressInv, AbsoluteInv, IsAccepted
<1> QED
  BY <1>5, <1>6 DEF IInv

LEMMA NextIInv == IInv /\ [Next]_vars => IInv'
<1> SUFFICES ASSUME IInv, [Next]_vars
             PROVE  IInv'
  OBVIOUS
<1>0. TypeOK /\ ProgressInv /\ AbsoluteInv
  BY DEF IInv
<1>1. pc # "done" => /\ s \in ScheduleRecord /\ s # None
                     /\ s.weekly \in Seq(ScheduleEvent) /\ s.absolute \in Seq(ScheduleEvent)
                     /\ IsByTime(s.absolute)
  BY <1>0, DecodeAssumption DEF ProgressInv, ScheduleRecord, AbsoluteInv
<1>2. ASSUME NEW entries \in Tables(WeeklyEvents), WeeklyKey(entries)
      PROVE  IInv'
  <2> DEFINE r == TableAfter(s.weekly, entries)
  <2>1. AtKey /\ NextKey /\ pc # "done" /\ s' = [s EXCEPT !.weekly = r.list]
        /\ ret_val' \in {ret_val, -9} /\ processTZ' = processTZ
    BY <1>2 DEF WeeklyKey, AtKey
  <2>2. r \in TableResult
    BY <1>1, <2>1, TableOf, DecodeAssumption
  <2> HIDE DEF r
  <2>3. s' \in ScheduleRecord /\ s'.absolute = s.absolute
    BY <1>1, <2>1, <2>2 DEF ScheduleRecord, TableResult
  <2> QED
    BY <1>0, <1>1, <2>1, <2>3, KeyKeepsIInv DEF TypeOK
<1>3. ASSUME NEW entries \in Tables(AbsoluteEvents), AbsoluteKey(entries)
      PROVE  IInv'
  <2> DEFINE r == TableAfter(s.absolute, entries)
  <2>1. AtKey /\ NextKey /\ pc # "done" /\ s' = [s EXCEPT !.absolute = r.list]
        /\ ret_val' \in {ret_val, -10} /\ processTZ' = processTZ
    BY <1>3 DEF AbsoluteKey, AtKey
  <2>2. r \in TableResult /\ IsByTime(r.list)
    BY <1>1, <2>1, TableOf, DecodeAssumption
  <2> HIDE DEF r
  <2>3. s' \in ScheduleRecord /\ s'.absolute = r.list
    BY <1>1, <2>1, <2>2 DEF ScheduleRecord, TableResult
  <2> QED
    BY <1>0, <2>1, <2>2, <2>3, KeyKeepsIInv DEF TypeOK
<1>4. ASSUME NEW macs \in MacTables, MacsKey(macs)
      PROVE  IInv'
  <2>1. AtKey /\ NextKey /\ pc # "done" /\ processTZ' = processTZ
        /\ ret_val' \in {ret_val, -7}
        /\ (s' = [s EXCEPT !.macs = macs] \/ s' = [s EXCEPT !.macs = << >>])
    BY <1>4 DEF MacsKey, AtKey
  <2>2. s' \in ScheduleRecord /\ s'.absolute = s.absolute
    BY <1>1, <2>1, DecodeAssumption DEF ScheduleRecord
  <2> QED
    BY <1>0, <1>1, <2>1, <2>2, KeyKeepsIInv DEF TypeOK
<1>5. ASSUME NEW zone \in Zones, ZoneKey(zone)
      PROVE  IInv'
  <2>1. AtKey /\ NextKey /\ pc # "done" /\ processTZ' = zone /\ ret_val' = ret_val
        /\ s' = [s EXCEPT !.time_zone = zone]
    BY <1>5 DEF ZoneKey, AtKey
  <2>2. s' \in ScheduleRecord /\ s'.absolute = s.absolute
    BY <1>1, <2>1 DEF ScheduleRecord
  <2> QED
    BY <1>1, <2>1, <2>2, KeyKeepsIInv
<1>6. ASSUME NEW rate \in Rates, ReportRateKey(rate)
      PROVE  IInv'
  <2>1. AtKey /\ NextKey /\ pc # "done" /\ processTZ' = processTZ /\ ret_val' = ret_val
        /\ s' = [s EXCEPT !.report_rate_s =
                    IF 0 < rate /\ rate < MinimumReportingRate
                    THEN MinimumReportingRate ELSE rate]
    BY <1>6 DEF ReportRateKey, AtKey
  <2>2. s' \in ScheduleRecord /\ s'.absolute = s.absolute
    BY <1>1, <2>1, DecodeAssumption DEF ScheduleRecord
  <2> QED
    BY <1>0, <1>1, <2>1, <2>2, KeyKeepsIInv DEF TypeOK
<1>7. CASE Map \/ NotAMap \/ Unreadable
  BY <1>0, <1>1, <1>7 DEF Map, NotAMap, Unreadable, IInv, TypeOK, ProgressInv, AbsoluteInv,
                         IsAccepted
<1>8. CASE EndOfMap
  <2>1. pc = "keys" /\ s' = FinalizeSchedule(s)
    BY <1>8 DEF EndOfMap
  <2>2. FinalizeWeekly(s.weekly) \in Seq(ScheduleEvent)
    BY <1>1, <2>1, FinalizeIsList
  <2>3. s' \in ScheduleRecord /\ s'.absolute = s.absolute
    BY <1>1, <2>1, <2>2 DEF FinalizeSchedule, ScheduleRecord
  <2>4. objects' \in 0 .. MaxObjects /\ ret_val' \in {0, -3, -5, -6, -7, -9, -10}
    BY <1>0, <1>8, <2>1, DecodeAssumption DEF EndOfMap, TypeOK, ProgressInv
  <2>5. TypeOK'
    BY <1>0, <1>8, <2>3, <2>4 DEF EndOfMap, TypeOK
  <2>6. ProgressInv' /\ AbsoluteInv'
    BY <1>1, <1>8, <2>1, <2>3 DEF EndOfMap, ProgressInv, AbsoluteInv, IsAccepted
  <2> QED
    BY <2>5, <2>6 DEF IInv
<1>9. CASE Return
  <2>1. pc = "end" /\ pc' = "done" /\ s' = (IF IsValid THEN s ELSE None)
        /\ ret_val' = (IF IsValid \/ ret_val # 0 THEN ret_val ELSE -9)
        /\ UNCHANGED <<processTZ, keys, objects>>
    BY <1>9 DEF Return
  <2>2. ret_val' = 0 <=> s' # None
    BY <1>1, <2>1 DEF IsValid
  <2>3. TypeOK' /\ ProgressInv' /\ AbsoluteInv'
    BY <1>0, <1>1, <2>1, <2>2 DEF TypeOK, ProgressInv, AbsoluteInv, IsAccepted, IsValid
  <2> QED
    BY <2>3 DEF IInv
<1>10. CASE UNCHANGED vars
  BY <1>0, <1>10 DEF vars, IInv, TypeOK, ProgressInv, AbsoluteInv, IsAccepted
<1> QED
  BY <1>2, <1>3, <1>4, <1>5, <1>6, <1>7, <1>8, <1>9, <1>10 DEF Next

THEOREM Invariance == Spec => []IInv
<1> QED
  BY InitIInv, NextIInv, PTL DEF Spec

(***************************************************************************)
(* decode_schedule() returns a documented code, and a schedule exactly     *)
(* with 0, for every payload.                                              *)
(***************************************************************************)
THEOREM TypeCorrect == Spec => []TypeOK
<1>1. IInv => TypeOK
  BY DEF IInv
<1> QED
  BY <1>1, Invariance, PTL

-----------------------------------------------------------------------------
(***************************************************************************)
(* Absolute windows: the list is sorted, so the earlier event of a window  *)
(* is where the walk of get_blocked_at_time() ends, whatever the weekly    *)
(* list says, and for every payload, in any number of maps.                *)
(***************************************************************************)
THEOREM AbsoluteWindowsHold == Spec => []AbsoluteWindowRules
<1>1. IInv => AbsoluteWindowRules
  <2> SUFFICES ASSUME IInv, IsAccepted, HasUniqueTimes(s.absolute),
                      NEW zone \in Zones, NEW t \in Probes,
                      NEW i \in DOMAIN s.absolute, NEW j \in DOMAIN s.absolute,
                      s.absolute[i].time <= t, t < s.absolute[j].time,
                      ~\E u \in Times(s.absolute) : s.absolute[i].time < u /\ u <= t
               PROVE  GetBlockedAtTime(s, zone, t) = BlockList(s, s.absolute[i])
    BY DEF AbsoluteWindowRules
  <2> DEFINE abs == s.absolute
  <2>1. abs \in Seq(ScheduleEvent) /\ IsByTime(abs) /\ t \in Int
    BY DecodeAssumption DEF IInv, TypeOK, AbsoluteInv, IsAccepted, ScheduleRecord
  <2>2. \A m \in DOMAIN abs : abs[m].time \in Int /\ abs[m].time \in Times(abs)
    BY <2>1, TimeIsInt DEF Times
  <2>3. DOMAIN abs = 1 .. Len(abs) /\ Len(abs) \in Nat
    BY <2>1
  <2>4. i < j
    BY <2>1, <2>2, <2>3 DEF IsByTime
  <2>5. \A m \in 2 .. i : abs[m].time <= t
    BY <2>1, <2>2, <2>3 DEF IsByTime
  <2>6. abs[i + 1].time > t
    <3>1. i + 1 \in DOMAIN abs /\ i \in Int
      BY <2>3, <2>4
    <3>2. abs[i].time <= abs[i + 1].time
      BY <2>1, <3>1 DEF IsByTime
    <3>3. abs[i].time # abs[i + 1].time
      BY <3>1 DEF HasUniqueTimes
    <3> QED
      BY <2>1, <2>2, <3>1, <3>2, <3>3
  <2>7. IsReached(abs, t, i)
    BY <2>5, <2>6 DEF IsReached
  <2>8. Reached(abs, t) = i
    BY <2>1, <2>7, ReachedIs
  <2>9. abs # << >> /\ Reached(abs, t) < Len(abs) /\ abs[Reached(abs, t)].time <= t
    BY <2>3, <2>4, <2>8
  <2> QED
    BY <2>8, <2>9 DEF GetBlockedAtTime
<1> QED
  BY <1>1, Invariance, PTL

-----------------------------------------------------------------------------
(***************************************************************************)
(* decode_schedule_table() takes any number for the time of a weekly       *)
(* event.  What follows is claimed of payloads that keep to the week.      *)
(***************************************************************************)
LEMMA NextWeekly ==
    ASSUME AreOfWeek(WeeklyEvents), IInv, WeeklyInv, [Next]_vars
    PROVE  WeeklyInv'
<1>0. TypeOK /\ ProgressInv
  BY DEF IInv
<1>1. pc # "done" => s \in ScheduleRecord /\ s # None /\ s.weekly \in Seq(ScheduleEvent)
  BY <1>0, DecodeAssumption DEF ProgressInv, ScheduleRecord
<1>2. objects \in Nat
  BY <1>0, DecodeAssumption DEF TypeOK
<1>3. ASSUME NEW entries \in Tables(WeeklyEvents), WeeklyKey(entries)
      PROVE  WeeklyInv'
  <2> DEFINE r == TableAfter(s.weekly, entries)
  <2>1. pc = "keys" /\ pc' = pc /\ objects' = objects /\ s' = [s EXCEPT !.weekly = r.list]
    BY <1>3 DEF WeeklyKey, AtKey, NextKey
  <2>2. IsByTime(s.weekly) /\ IsOfWeek(s.weekly) => IsByTime(r.list) /\ IsOfWeek(r.list)
    BY <1>1, <2>1, TableOf, DecodeAssumption
  <2> HIDE DEF r
  <2>3. s'.weekly = r.list
    BY <1>1, <2>1 DEF ScheduleRecord
  <2> QED
    BY <1>1, <2>1, <2>2, <2>3 DEF WeeklyInv
<1>4. ASSUME pc = "keys", pc' = pc, objects' = objects, s'.weekly = s.weekly
      PROVE  WeeklyInv'
  BY <1>1, <1>4 DEF WeeklyInv
<1>5. ASSUME NEW entries \in Tables(AbsoluteEvents), AbsoluteKey(entries)
      PROVE  WeeklyInv'
  <2>1. pc = "keys" /\ pc' = pc /\ objects' = objects /\ s'.weekly = s.weekly
    BY <1>1, <1>5 DEF AbsoluteKey, AtKey, NextKey, ScheduleRecord
  <2> QED
    BY <1>4, <2>1
<1>6. ASSUME NEW macs \in MacTables, MacsKey(macs)
      PROVE  WeeklyInv'
  <2>1. pc = "keys" /\ pc' = pc /\ objects' = objects /\ s'.weekly = s.weekly
    BY <1>1, <1>6 DEF MacsKey, AtKey, NextKey, ScheduleRecord
  <2> QED
    BY <1>4, <2>1
<1>7. ASSUME NEW zone \in Zones, ZoneKey(zone)
      PROVE  WeeklyInv'
  <2>1. pc = "keys" /\ pc' = pc /\ objects' = objects /\ s'.weekly = s.weekly
    BY <1>1, <1>7 DEF ZoneKey, AtKey, NextKey, ScheduleRecord
  <2> QED
    BY <1>4, <2>1
<1>8. ASSUME NEW rate \in Rates, ReportRateKey(rate)
      PROVE  WeeklyInv'
  <2>1. pc = "keys" /\ pc' = pc /\ objects' = objects /\ s'.weekly = s.weekly
    BY <1>1, <1>8 DEF ReportRateKey, AtKey, NextKey, ScheduleRecord
  <2> QED
    BY <1>4, <2>1
<1>9. CASE Map \/ NotAMap \/ Unreadable
  BY <1>1, <1>9 DEF Map, NotAMap, Unreadable, WeeklyInv
<1>10. CASE EndOfMap
  <2>1. pc = "keys" /\ objects' = objects + 1 /\ s'.weekly = FinalizeWeekly(s.weekly)
    BY <1>1, <1>10 DEF EndOfMap, FinalizeSchedule, ScheduleRecord
  <2>2. objects' # 0 /\ (objects' = 1 => objects = 0)
    BY <1>2, <2>1
  <2>3. objects = 0 => IsFinal(s'.weekly)
    BY <1>1, <2>1, FinalizeWeeklyIsFinal DEF WeeklyInv
  <2> QED
    BY <2>2, <2>3 DEF WeeklyInv
<1>11. CASE Return
  <2>1. pc = "end" /\ s' \in {s, None} /\ objects' = objects
    BY <1>11 DEF Return
  <2> QED
    BY <2>1 DEF WeeklyInv
<1>12. CASE UNCHANGED vars
  BY <1>12 DEF vars, WeeklyInv
<1> QED
  BY <1>3, <1>5, <1>6, <1>7, <1>8, <1>9, <1>10, <1>11, <1>12 DEF Next

LEMMA WeeklyInvariance ==
    ASSUME AreOfWeek(WeeklyEvents)
    PROVE  Spec => []WeeklyInv
<1>1. Init => WeeklyInv
  BY InitIInv
<1>2. IInv /\ WeeklyInv /\ [Next]_vars => WeeklyInv'
  BY NextWeekly
<1> QED
  BY <1>1, <1>2, Invariance, PTL DEF Spec

(***************************************************************************)
(* How long ago an event of the week last took place.                      *)
(***************************************************************************)
LEMMA AgeIs ==
    ASSUME NEW e, e.time \in 0 .. Week - 1, NEW zone, NEW t, Weekly(zone, t) \in 0 .. Week - 1
    PROVE  Age(e, zone, t) = IF e.time <= Weekly(zone, t) THEN Weekly(zone, t) - e.time
                             ELSE Weekly(zone, t) - e.time + Week
<1> DEFINE now == Weekly(zone, t)
           d   == now - e.time
<1>1. Week \in Nat /\ Week > 0 /\ now \in 0 .. Week - 1
  BY WeekAssumption
<1>2. Age(e, zone, t) = d % Week
  BY DEF Age
<1> HIDE DEF now
<1>3. CASE e.time <= now
  <2>1. d \in 0 .. Week - 1
    BY <1>1, <1>3
  <2> HIDE DEF d
  <2>2. (Week * 0 + d) % Week = d
    BY <1>1, <2>1, ModIs
  <2>3. d % Week = d
    BY <1>1, <2>1, <2>2
  <2> QED
    BY <1>2, <1>3, <2>3 DEF now, d
<1>4. CASE ~(e.time <= now)
  <2>1. d + Week \in 0 .. Week - 1 /\ d = Week * (-1) + (d + Week)
    BY <1>1, <1>4
  <2> DEFINE r == d + Week
  <2> HIDE DEF r
  <2>2. r \in 0 .. Week - 1
    BY <2>1 DEF r
  <2>3. (Week * (-1) + r) % Week = r
    BY <1>1, <2>2, ModIs
  <2>4. d % Week = r
    BY <2>1, <2>3 DEF r
  <2> QED
    BY <1>2, <1>4, <2>4 DEF now, d, r
<1> QED
  BY <1>3, <1>4

(***************************************************************************)
(* In a list that is finalized, the event the walk ends at -- or the last  *)
(* event of the week, when that is the one before the week -- is the one   *)
(* that took place last.                                                   *)
(***************************************************************************)
IsYoungest(e, events, zone, t) ==
    /\ e \in events
    /\ \A f \in events : Age(e, zone, t) <= Age(f, zone, t)

OfThisWeek(w) == {e \in {w[i] : i \in DOMAIN w} : e.time >= 0}

LEMMA YoungestIsReached ==
    ASSUME NEW w \in Seq(ScheduleEvent), w # << >>, IsFinal(w),
           NEW zone, NEW t, Weekly(zone, t) \in 0 .. Week - 1
    PROVE  \E e \in ScheduleEvent :
              /\ IsYoungest(e, OfThisWeek(w), zone, t)
              /\ e.block = w[Reached(w, Weekly(zone, t))].block
<1> DEFINE n   == Len(w)
           now == Weekly(zone, t)
           k   == Reached(w, now)
<1>1. n \in Nat /\ n > 0 /\ DOMAIN w = 1 .. n /\ Week \in Nat /\ Week > 0 /\ now \in Int
  BY WeekAssumption
<1>2. \A i \in 1 .. n : w[i] \in ScheduleEvent /\ w[i].time \in Int /\ w[i].time < Week
  BY <1>1, TimeIsInt DEF IsFinal
<1>3. IsReached(w, now, k)
  BY <1>1, ReachedStops
<1> HIDE DEF k
<1>4. k \in 1 .. n
  BY <1>1, <1>3 DEF IsReached
<1>5. \A f \in OfThisWeek(w) :
         /\ f.time \in 0 .. Week - 1
         /\ \E j \in 1 .. n : f = w[j]
         /\ Age(f, zone, t) = IF f.time <= now THEN now - f.time ELSE now - f.time + Week
  <2> SUFFICES ASSUME NEW f \in OfThisWeek(w)
               PROVE  /\ f.time \in 0 .. Week - 1
                      /\ \E j \in 1 .. n : f = w[j]
                      /\ Age(f, zone, t) = IF f.time <= now THEN now - f.time ELSE now - f.time + Week
    OBVIOUS
  <2>1. PICK j \in 1 .. n : f = w[j] /\ f.time >= 0
    BY <1>1 DEF OfThisWeek
  <2>2. f.time \in 0 .. Week - 1
    BY <1>1, <1>2, <2>1
  <2> QED
    BY <2>1, <2>2, AgeIs
<1>6. CASE w[k].time >= 0
  <2>1. w[k] \in OfThisWeek(w)
    BY <1>1, <1>4, <1>6 DEF OfThisWeek
  <2>2. w[k].time <= now
    <3>1. CASE k = 1
      <4>1. RepeatsLast(w) => w[1].time < 0
        BY <1>1, <1>2 DEF RepeatsLast, ScheduleEvent
      <4>2. w[1].time = 0
        BY <1>1, <1>2, <1>6, <3>1, <4>1 DEF IsFinal
      <4> QED
        BY <3>1, <4>2
    <3>2. CASE k # 1
      <4>1. k \in 2 .. k
        BY <1>4, <3>2
      <4> QED
        BY <1>3, <4>1 DEF IsReached
    <3> QED
      BY <3>1, <3>2
  <2>3. ASSUME NEW f \in OfThisWeek(w)
        PROVE  Age(w[k], zone, t) <= Age(f, zone, t)
    <3>1. PICK j \in 1 .. n : f = w[j]
      BY <1>5
    <3>2. j <= k => f.time <= w[k].time
      BY <1>1, <1>4, <3>1 DEF IsFinal, IsByTime
    <3>3. j > k => f.time > now
      <4> SUFFICES ASSUME j > k
                   PROVE  f.time > now
        OBVIOUS
      <4>1. k + 1 \in DOMAIN w /\ k < n /\ k + 1 <= j
        BY <1>1, <1>4
      <4>2. w[k + 1].time > now /\ w[k + 1].time <= w[j].time
        BY <1>1, <1>3, <4>1 DEF IsReached, IsFinal, IsByTime
      <4> QED
        BY <1>1, <1>2, <3>1, <4>1, <4>2
    <3>4. w[k].time \in 0 .. Week - 1 /\ Age(w[k], zone, t) = now - w[k].time
      BY <1>5, <2>1, <2>2
    <3>5. f.time \in 0 .. Week - 1
          /\ Age(f, zone, t) = IF f.time <= now THEN now - f.time ELSE now - f.time + Week
      BY <1>5
    <3> HIDE DEF now
    <3> QED
      BY <1>1, <1>4, <3>2, <3>3, <3>4, <3>5
  <2> QED
    BY <1>2, <1>4, <2>1, <2>3 DEF IsYoungest, k
<1>7. CASE ~(w[k].time >= 0)
  <2>1. k = 1
    BY <1>4, <1>7 DEF IsFinal
  <2>2. RepeatsLast(w)
    BY <1>1, <1>7, <2>1 DEF IsFinal
  <2>3. w[1].block = w[n].block /\ w[1].time = w[n].time - Week
    <3>1. w[1] \in ScheduleEvent /\ w[n] \in ScheduleEvent
      BY <1>1, <1>2
    <3> QED
      BY <2>2, <3>1 DEF RepeatsLast, ScheduleEvent
  <2>4. n \in 2 .. n
    BY <1>1, <1>2, <2>3
  <2>5. w[n].time > 0 /\ w[n] \in OfThisWeek(w)
    <3>1. w[n].time > 0 /\ w[n].time \in Int /\ n \in DOMAIN w
      BY <1>1, <1>2, <2>2, <2>4 DEF RepeatsLast
    <3> QED
      BY <3>1 DEF OfThisWeek
  <2>6. ASSUME NEW f \in OfThisWeek(w)
        PROVE  f.time > now /\ f.time <= w[n].time
    <3>1. PICK j \in 1 .. n : f = w[j]
      BY <1>5
    <3>2. f.time \in 0 .. Week - 1
      BY <1>5
    <3>3. j \in 2 .. n
      BY <1>1, <1>7, <2>1, <3>1, <3>2
    <3>4. w[2].time > now /\ w[2].time <= w[j].time /\ w[j].time <= w[n].time
      <4>1. 2 \in DOMAIN w /\ j \in DOMAIN w /\ n \in DOMAIN w /\ 2 <= j /\ j <= n /\ 1 < n
        BY <1>1, <3>3
      <4>2. w[k + 1].time > now
        BY <1>3, <2>1, <4>1 DEF IsReached
      <4> QED
        BY <2>1, <4>1, <4>2 DEF IsFinal, IsByTime
    <3>5. w[2].time \in Int
      BY <1>2, <2>4
    <3> QED
      BY <1>1, <1>2, <3>1, <3>4, <3>5
  <2>7. \A f \in OfThisWeek(w) : Age(w[n], zone, t) <= Age(f, zone, t)
    <3>1. \A f \in OfThisWeek(w) : f.time \in 0 .. Week - 1 /\ Age(f, zone, t) = now - f.time + Week
      BY <1>1, <1>5, <2>6
    <3> HIDE DEF now
    <3> QED
      BY <1>1, <2>5, <2>6, <3>1
  <2> QED
    BY <1>1, <1>2, <2>1, <2>3, <2>4, <2>5, <2>7 DEF IsYoungest, k
<1> QED
  BY <1>6, <1>7

(***************************************************************************)
(* A purely weekly schedule of one map blocks at every moment what the     *)
(* event that took place last prescribes, whatever the order, the number   *)
(* and the times of the events of its payload, and in every zone.          *)
(***************************************************************************)
THEOREM WeeklyEventsRule ==
    ASSUME AreOfWeek(WeeklyEvents)
    PROVE  Spec => []WeeklyEventRules
<1>1. IInv /\ WeeklyInv => WeeklyEventRules
  <2> SUFFICES ASSUME IInv, WeeklyInv, IsAccepted, objects = 1, s.absolute = << >>,
                      HasUniqueTimes(s.weekly), NEW zone \in Zones, NEW t \in Probes
               PROVE  GetBlockedAtTime(s, zone, t) = WeeklyRule(zone, t)
    BY DEF WeeklyEventRules
  <2> DEFINE w   == s.weekly
             now == Weekly(zone, t)
  <2>1. w \in Seq(ScheduleEvent) /\ IsFinal(w) /\ w # << >>
    BY DEF IInv, TypeOK, ProgressInv, WeeklyInv, IsAccepted, ScheduleRecord
  <2>2. now \in 0 .. Week - 1 /\ now \in Int
    <3>1. t \in Int /\ UTCOffset(zone, t) \in Int
      BY DecodeAssumption
    <3>2. now \in 0 .. Week - 1
      BY <3>1, WeeklyGoesOn
    <3> QED
      BY <3>2, WeekAssumption
  <2>3. PICK e \in ScheduleEvent :
           /\ IsYoungest(e, OfThisWeek(w), zone, t)
           /\ e.block = w[Reached(w, now)].block
    BY <2>1, <2>2, YoungestIsReached
  <2>4. GetBlockedAtTime(s, zone, t) = BlockList(s, w[Reached(w, now)])
    BY <2>1, <2>2 DEF GetBlockedAtTime
  <2>5. BlockList(s, w[Reached(w, now)]) = BlockList(s, e)
    BY <2>3 DEF BlockList
  <2>6. PayloadEvents = OfThisWeek(w)
    BY DEF PayloadEvents, OfThisWeek
  <2>7. ASSUME NEW f, IsYoungest(f, OfThisWeek(w), zone, t)
        PROVE  f = e
    <3>1. e \in OfThisWeek(w) /\ f \in OfThisWeek(w)
      BY <2>3, <2>7 DEF IsYoungest
    <3>2. \A g \in OfThisWeek(w) :
             /\ g.time \in 0 .. Week - 1
             /\ Age(g, zone, t) = IF g.time <= now THEN now - g.time ELSE now - g.time + Week
      <4>1. \A g \in OfThisWeek(w) : g.time \in 0 .. Week - 1
        <5>1. \A i \in DOMAIN w : w[i].time \in Int /\ w[i].time < Week
          BY <2>1, TimeIsInt DEF IsFinal
        <5> QED
          BY <5>1, WeekAssumption DEF OfThisWeek
      <4> QED
        BY <2>2, <4>1, AgeIs
    <3>3. Age(e, zone, t) <= Age(f, zone, t) /\ Age(f, zone, t) <= Age(e, zone, t)
      BY <2>3, <2>7 DEF IsYoungest
    <3>4. e.time = f.time
      <4>1. /\ e.time \in 0 .. Week - 1 /\ f.time \in 0 .. Week - 1
            /\ Age(e, zone, t) = IF e.time <= now THEN now - e.time ELSE now - e.time + Week
            /\ Age(f, zone, t) = IF f.time <= now THEN now - f.time ELSE now - f.time + Week
        BY <3>1, <3>2
      <4> HIDE DEF now
      <4> QED
        BY <2>2, <3>3, <4>1, WeekAssumption
    <3>5. PICK i \in DOMAIN w, j \in DOMAIN w : e = w[i] /\ f = w[j]
      BY <3>1 DEF OfThisWeek
    <3>6. i = j
      BY <3>4, <3>5 DEF HasUniqueTimes
    <3> QED
      BY <3>5, <3>6
  <2>8. WeeklyRule(zone, t) = BlockList(s, e)
    <3> DEFINE chosen == CHOOSE f \in PayloadEvents :
                            \A g \in PayloadEvents : Age(f, zone, t) <= Age(g, zone, t)
    <3>1. e \in PayloadEvents /\ \A g \in PayloadEvents : Age(e, zone, t) <= Age(g, zone, t)
      BY <2>3, <2>6 DEF IsYoungest
    <3>2. /\ chosen \in PayloadEvents
          /\ \A g \in PayloadEvents : Age(chosen, zone, t) <= Age(g, zone, t)
      BY <3>1
    <3>3. WeeklyRule(zone, t) = BlockList(s, chosen)
      BY DEF WeeklyRule
    <3> HIDE DEF chosen
    <3>4. IsYoungest(chosen, OfThisWeek(w), zone, t)
      BY <2>6, <3>2 DEF IsYoungest
    <3>5. chosen = e
      BY <2>7, <3>4
    <3> QED
      BY <3>3, <3>5
  <2> QED
    BY <2>4, <2>5, <2>8
<1> QED
  BY <1>1, Invariance, WeeklyInvariance, PTL

(***************************************************************************)
(* The scheduler sleeps through no change of the block list, with a        *)
(* schedule of one map that is only weekly or only absolute: in zones      *)
(* whose offset does not change, and before INT_MAX, which is              *)
(* get_next_unixtime()'s "never".                                          *)
(***************************************************************************)
THEOREM WakesInTime ==
    ASSUME AreOfWeek(WeeklyEvents),
           \A zone \in Zones, t, u \in Probes : UTCOffset(zone, t) = UTCOffset(zone, u),
           \A t \in Probes : t < INT_MAX
    PROVE  Spec => []WakesForEveryChange
<1>1. IInv /\ WeeklyInv => WakesForEveryChange
  <2> SUFFICES ASSUME IInv, WeeklyInv, IsAccepted, objects = 1,
                      \/ s.absolute = << >> /\ 0 \notin Times(s.weekly)
                      \/ s.weekly = << >>,
                      NEW zone \in Zones, NEW t \in Probes, NEW u \in Probes, u > t,
                      ~(GetNextUnixtime(s, zone, t) <= u)
               PROVE  GetBlockedAtTime(s, zone, u) = GetBlockedAtTime(s, zone, t)
    BY DEF WakesForEveryChange, WakesForEveryChangeAfter
  <2>1. s.weekly \in Seq(ScheduleEvent) /\ s.absolute \in Seq(ScheduleEvent) /\ IsFinal(s.weekly)
    BY DEF IInv, TypeOK, WeeklyInv, IsAccepted, ScheduleRecord
  <2>2. t \in Int /\ u \in Int /\ UTCOffset(zone, t) \in Int
        /\ UTCOffset(zone, u) = UTCOffset(zone, t) /\ u < INT_MAX
    BY DecodeAssumption
  <2>3. GetNextUnixtime(s, zone, t) \in Int
    BY <2>1, <2>2, NextUnixtimeIs
  <2>4. t <= u /\ u < GetNextUnixtime(s, zone, t)
    BY <2>2, <2>3
  <2>5. CASE s.weekly = << >>
    BY <2>1, <2>2, <2>4, <2>5, AbsoluteListLasts
  <2>6. CASE s.absolute = << >> /\ 0 \notin Times(s.weekly)
    BY <2>1, <2>2, <2>4, <2>6, WeeklyListLasts
  <2> QED
    BY <2>5, <2>6
<1> QED
  BY <1>1, Invariance, WeeklyInvariance, PTL
=============================================================================
