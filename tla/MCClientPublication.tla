------------------------ MODULE MCClientPublication ------------------------
(* Two workers publish three operations drawn from two sources.            *)
EXTENDS ClientPublication, TLC

CONSTANTS o1, o2, o3, s1, s2, w1, w2

MCOperation == {o1, o2, o3}
MCSourceOf == [o \in MCOperation |-> IF o = o1 THEN s1 ELSE s2]
MCSymmetry == Permutations(Worker) \cup Permutations({o2, o3})
=============================================================================
