---------------------------- MODULE SharedCases ----------------------------
(* What publishing a case promises, seen from the client's event: the case *)
(* of an approved event is shared at most once, may be withdrawn for ever, *)
(* and the client's database learns of it only after it was shared.        *)
EXTENDS Naturals

CONSTANT Event

VARIABLES
    status,         \* Event -> private, shared or withdrawn
    told            \* events the client's database holds as published

TypeInvariant ==
    /\ status \in [Event -> {"private", "shared", "withdrawn"}]
    /\ told \subseteq Event

Init == status = [e \in Event |-> "private"] /\ told = {}

Share(e) ==
    /\ status[e] = "private"
    /\ status' = [status EXCEPT ![e] = "shared"]
    /\ UNCHANGED told

Withdraw(e) ==
    /\ status[e] = "shared"
    /\ status' = [status EXCEPT ![e] = "withdrawn"]
    /\ UNCHANGED told

Tell(e) ==
    /\ status[e] # "private"
    /\ told' = told \cup {e}
    /\ UNCHANGED status

Next == \E e \in Event : Share(e) \/ Withdraw(e) \/ Tell(e)

vars == <<status, told>>

Spec == Init /\ [][Next]_vars
=============================================================================
