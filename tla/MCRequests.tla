----------------------------- MODULE MCRequests -----------------------------
(***************************************************************************)
(* Two payloads for Requests: the longer has two maps, and the shorter is  *)
(* the first of them.                                                      *)
(***************************************************************************)
EXTENDS Requests

CONSTANTS shorter, longer

mcSchedules == {shorter, longer}

mcParts == [s \in mcSchedules |-> IF s = longer THEN {shorter} ELSE {}]
=============================================================================
