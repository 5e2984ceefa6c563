------------------------------ MODULE MCDecode ------------------------------
(***************************************************************************)
(* Small payloads for Decode: a week of six seconds, two MAC addresses, a  *)
(* third index that is outside the table of addresses.                     *)
(***************************************************************************)
EXTENDS Decode

CONSTANTS m1, m2, notMac, utc, east

MCUTCOffset(zone, t) == IF zone = east THEN 2 ELSE 0

MCIsMac(mac) == mac # notMac

MCMacTables == {<< >>, <<m1>>, <<m1, m2>>, <<m1, notMac>>}

Event(time, block) == [time |-> time, block |-> block]

MCWeeklyEvents == {Event(0, <<1>>), Event(1, << >>), Event(3, <<2, 1>>), Event(5, <<1>>)}

MCAbsoluteEvents == {Event(13, <<1, 2>>), Event(15, << >>), Event(20, <<3>>)}

MCDaytimeEvents == {e \in MCWeeklyEvents : e.time # 0}

MCProbes == 12 .. 25
=============================================================================
