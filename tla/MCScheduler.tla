---------------------------- MODULE MCScheduler -----------------------------
(***************************************************************************)
(* Small schedules for Scheduler: a week of four seconds.                  *)
(***************************************************************************)
EXTENDS Scheduler

CONSTANTS m1, m2, utc, east, a1, a2, a3

MCUTCOffset(zone, t) == IF zone = east THEN 2 ELSE 0

Event(time, block) == [time |-> time, block |-> block]

Decoded(zone, weekly, absolute) ==
    FinalizeSchedule([time_zone |-> zone, absolute |-> absolute, weekly |-> weekly,
                      macs |-> <<m1, m2>>, report_rate_s |-> 0])

\* m1 for the second half of the week
HalfWeek(zone) == Decoded(zone, <<Event(1, << >>), Event(3, <<1>>)>>, << >>)

\* always m1
Always(zone) == Decoded(zone, <<Event(2, <<1>>)>>, << >>)

\* m2 and then both for a day of the calendar
Once(zone) == Decoded(zone, << >>, <<Event(2, <<2>>), Event(5, <<1, 2>>)>>)

MCOneZone == {HalfWeek(utc), Always(NoZone), Once(utc)}

MCHalfWeek == {HalfWeek(utc)}

MCTwoZones == {HalfWeek(utc), HalfWeek(east)}

MCTwoSchedules == {HalfWeek(utc), Once(utc)}
=============================================================================
