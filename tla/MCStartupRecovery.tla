------------------------- MODULE MCStartupRecovery -------------------------
(* Workers publish operations drawn from two sources, die and recover.     *)
EXTENDS StartupRecovery, TLC

CONSTANTS o1, o2, o3, s1, s2, w1, w2

MCSourceOf == [o \in Operation |-> IF o = o1 THEN s1 ELSE s2]
MCSymmetry == Permutations(Worker) \cup Permutations(Operation \ {o1})
=============================================================================
