------------------------------- MODULE Store --------------------------------
(***************************************************************************)
(* What whoever sends schedules to the device may rely on, files and all   *)
(* left out.  A schedule is in force as soon as it is put, and a success   *)
(* that is reported is a promise: the schedule in force is kept over any   *)
(* number of restarts.  Between a put and its promise a restart may find   *)
(* the old schedule, the new one, nothing, or a piece of one; but never    *)
(* anything else, and the latter two only together with an alarm.  A store *)
(* that is blind - one of its writes failed without its knowing - may      *)
(* break a promise, but keeps to the rest; only what it promised to forget *)
(* may then come back.  A restart that is misled - it could not read what  *)
(* is stored - may find nothing or a piece without an alarm, but forgets   *)
(* nothing: the next one finds what was promised.                          *)
(***************************************************************************)
CONSTANTS
    Values, Nothing,
    Pieces          \* of each value, those of its pieces that are values

VARIABLES
    up,
    current,        \* the value in force
    promised,       \* the value last reported to be stored
    tentative,      \* those put since
    alarm, blind, misled

vars == <<up, current, promised, tentative, alarm, blind, misled>>

Init ==
    /\ up = FALSE
    /\ current = Nothing /\ promised = Nothing /\ tentative = {}
    /\ alarm = FALSE /\ blind = FALSE /\ misled = FALSE

Put(v) ==
    /\ up
    /\ current' = v
    /\ tentative' = tentative \cup {v}
    /\ misled' = FALSE
    /\ UNCHANGED <<up, promised, alarm, blind>>

(* Only what is in force is ever promised.                                 *)
Promise ==
    /\ up
    /\ promised' = current
    /\ tentative' = {}
    /\ blind' \in {blind, TRUE}
    /\ UNCHANGED <<up, current, alarm, misled>>

FailUnnoticed ==
    /\ up
    /\ blind' = TRUE
    /\ UNCHANGED <<up, current, promised, tentative, alarm, misled>>

Crash ==
    /\ up' = FALSE
    /\ current' = Nothing
    /\ alarm' = FALSE /\ misled' = FALSE
    /\ UNCHANGED <<promised, tentative, blind>>

Check ==
    /\ ~up
    /\ alarm' = TRUE
    /\ UNCHANGED <<up, current, promised, tentative, blind, misled>>

Misread ==
    /\ ~up
    /\ misled' = TRUE
    /\ UNCHANGED <<up, current, promised, tentative, alarm, blind>>

Kept == {promised} \cup tentative

IsDamaged == alarm /\ (tentative # {} \/ blind)

IsRemnant(v) == v = Nothing \/ \E w \in Kept \cap Values : v \in Pieces[w]

ComesBack(v) == promised = Nothing /\ blind /\ v \in Values

Recover(v) ==
    /\ ~up
    /\ misled' \in {misled, TRUE}
    /\ \/ v \in Kept
       \/ IsRemnant(v) /\ (IsDamaged \/ misled')
       \/ ComesBack(v)
    /\ current' = v
    /\ up' = TRUE
    /\ UNCHANGED <<promised, tentative, alarm, blind>>

Next ==
    \/ \E v \in Values \cup {Nothing} : Put(v) \/ Recover(v)
    \/ Promise \/ FailUnnoticed \/ Crash \/ Check \/ Misread

Spec == Init /\ [][Next]_vars
=============================================================================
