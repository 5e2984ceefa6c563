----------------------------- MODULE MCNotifier -----------------------------
(***************************************************************************)
(* Small values for the constants of Notifier.  A week has eight seconds,  *)
(* an announcement comes two seconds ahead, and a timeline is rebuilt at   *)
(* the age of ten sevenths of a week, as in the code.                      *)
(***************************************************************************)
EXTENDS Notifier

mcUTCOffset(zone, t) == IF zone = "utc" THEN 0 ELSE 3

mcZones == {"utc", "east"}

Event(t, block) == [time |-> t, block |-> block]

MakeSchedule(zone, macs, weekly, absolute) ==
    FinalizeSchedule([time_zone |-> zone, macs |-> macs, weekly |-> weekly, absolute |-> absolute])

(* One MAC, blocked and released at two times of the week.     *)
Alternating ==
    {<<Event(b, x[1]), Event(e, x[2])>> :
        x \in {<<<<1>>, << >>>>, <<<< >>, <<1>>>>}, b \in {0, 4}, e \in {5, 7}}

(* Two MACs whose blocks overlap, touch, or go on through the week.        *)
Overlapping ==
    {<<Event(1, <<1>>), Event(3, <<1, 2>>), Event(6, << >>)>>,
     <<Event(1, <<1, 2>>), Event(4, <<2>>), Event(5, <<1>>)>>,
     <<Event(2, <<2>>), Event(5, <<1, 2>>)>>}

Pauses ==
    {<<Event(3, <<1>>), Event(6, << >>)>>,
     <<Event(2, <<1>>), Event(4, <<1, 2>>), Event(9, <<2>>), Event(10, << >>)>>,
     <<Event(5, << >>), Event(11, <<1>>), Event(12, << >>)>>}

(* More MACs at one time than there is room for.                           *)
Crowd == <<Event(1, <<1, 2, 3, 4>>), Event(5, << >>)>>

(* Pauses that tie a weekly event, enclose a weekly block, or outlive one. *)
Mixed ==
    {<<<<Event(3, <<1>>), Event(6, << >>)>>, <<Event(2, <<1>>), Event(6, << >>)>>>>,
     <<<<Event(3, <<1>>), Event(6, << >>)>>, <<Event(3, <<1, 2>>), Event(5, << >>)>>>>,
     <<<<Event(1, <<1>>), Event(5, <<2>>)>>, <<Event(4, <<1>>), Event(7, <<1, 2>>), Event(12, << >>)>>>>}

mcSchedules ==
    {MakeSchedule("utc", <<"mac1">>, w, << >>) : w \in Alternating}
    \cup {MakeSchedule("east", <<"mac1", "mac2">>, w, << >>) : w \in Overlapping}
    \cup {MakeSchedule("utc", <<"mac1", "mac2", "mac3", "mac4">>, Crowd, << >>)}
    \cup {MakeSchedule(NoZone, <<"mac1", "mac2">>, << >>, a) : a \in Pauses}
    \cup {MakeSchedule("utc", <<"mac1", "mac2">>, x[1], x[2]) : x \in Mixed}
=============================================================================
