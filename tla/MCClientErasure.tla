-------------------------- MODULE MCClientErasure --------------------------
(* A client with one contributed case, two servers and two backup sets.    *)
EXTENDS ClientErasure

CONSTANTS c1, p1, p2, b1, b2
=============================================================================
