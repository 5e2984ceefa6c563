---------------------------- MODULE Enforcement -----------------------------
(***************************************************************************)
(* What the scheduler promises to those who send it schedules.  There is   *)
(* one policy at a time and one block list that the firewall enforces.     *)
(* A list is decided on from the policy in force and the time, and applied *)
(* before the policy may be replaced; a decision that is overdue is taken. *)
(***************************************************************************)
EXTENDS Integers

CONSTANTS
    Policies, NoPolicy, Lists,
    Unblocked,          \* the list that blocks nothing
    Prescribed(_, _),   \* Prescribed(policy, t): the list policy wants at t
    Horizon             \* bound on the clock

VARIABLES
    policy,
    clock,
    decided,            \* the list decided on
    enforced,           \* the list the firewall enforces
    up                  \* the enforcer has started

vars == <<policy, clock, decided, enforced, up>>

Init ==
    /\ policy = NoPolicy
    /\ clock = 0
    /\ decided = Unblocked
    /\ enforced \in Lists       \* what an earlier incarnation left behind
    /\ up = FALSE

IsSettled == decided = enforced

(* A policy is never replaced between a decision and its application.      *)
Install(p) ==
    /\ up => IsSettled
    /\ policy' = p
    /\ UNCHANGED <<clock, decided, enforced, up>>

Decide ==
    /\ up
    /\ IsSettled
    /\ decided' = Prescribed(policy, clock)
    /\ UNCHANGED <<policy, clock, enforced, up>>

Apply ==
    /\ enforced' = decided
    /\ up' = TRUE
    /\ UNCHANGED <<policy, clock, decided>>

Tick ==
    /\ clock < Horizon
    /\ clock' = clock + 1
    /\ UNCHANGED <<policy, decided, enforced, up>>

Next ==
    \/ \E p \in Policies \cup {NoPolicy} : Install(p)
    \/ Decide
    \/ Apply
    \/ Tick

Safety == Init /\ [][Next]_vars

Spec == Safety /\ WF_vars(Decide) /\ WF_vars(Apply)
=============================================================================
