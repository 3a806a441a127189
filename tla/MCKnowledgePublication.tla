----------------------- MODULE MCKnowledgePublication -----------------------
(* Two wikis.  The first has an active revision that names the first       *)
(* version of the theory without citing it, and may get a second one that  *)
(* brings the second version along; the other wiki's page cites some of    *)
(* the first version.                                                      *)
EXTENDS KnowledgePublication, TLC

CONSTANTS s1, s2, o0, o1, o2, a1, a2, b1, c1

MCWikiOf == a1 :> "a" @@ a2 :> "a" @@ b1 :> "b"
MCRevisionOf == a1 :> 1 @@ a2 :> 2 @@ b1 :> 1
MCTheoryOf == a1 :> 1 @@ a2 :> 2 @@ b1 :> 1
MCCited == a1 :> "nothing" @@ a2 :> "all" @@ b1 :> "some"
MCClaimsOf == a1 :> {c1} @@ a2 :> {} @@ b1 :> {}
MCSymmetry == Permutations({s1, s2}) \cup Permutations({o1, o2})
=============================================================================
