------------------------- MODULE MCCasePublication -------------------------
(* Two servers drain the outbox of a session with two approved cases.      *)
EXTENDS CasePublication

CONSTANTS c1, c2, m1, m2
=============================================================================
