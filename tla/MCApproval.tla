----------------------------- MODULE MCApproval -----------------------------
(* Approval on two requests that compete for three operations.             *)
EXTENDS Approval, TLC

MCSymmetry == Permutations(Request) \cup Permutations(Operation)
=============================================================================
