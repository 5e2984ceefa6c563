----------------------------- MODULE MCReporter -----------------------------
(***************************************************************************)
(* Small values for the constants of Reporter.                             *)
(***************************************************************************)
EXTENDS Reporter

CONSTANTS m1, m2        \* block lists

Asks(rate, lists) == [report_rate_s |-> rate, lists |-> lists]

\* A schedule that blocks nothing for now, one that changes what it blocks,
\* one with a rate, and a jitter, that is much longer, and one without reports
mcSchedules == {Asks(2, {NoList}), Asks(2, {m1, m2}), Asks(6, {m2}), Asks(0, {m1})}
=============================================================================
