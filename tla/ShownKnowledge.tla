--------------------------- MODULE ShownKnowledge ---------------------------
(* What readers of the shared knowledge may rely on, without plans,        *)
(* operations, servers and epochs.  They are shown nothing, or a closure:  *)
(* one revision of each wiki, all resting on one version of the theory.    *)
(* A publication brings one page in place of the old revision of its wiki, *)
(* and the rest stays.  A withdrawal shows nothing until the next          *)
(* publication.  What was replaced or withdrawn never becomes current      *)
(* again.                                                                  *)
CONSTANTS
    Page,
    WikiOf,         \* Page -> its wiki
    TheoryOf,       \* Page -> the version of the theory it rests on
    NoTheory        \* or NoTheory

VARIABLES
    current,        \* the pages that the catalog calls active
    retired,        \* those that were, or were withdrawn before
    open,           \* something is shown
    shown           \* the pages that are

TypeInvariant ==
    /\ current \subseteq Page /\ retired \subseteq Page
    /\ current \cap retired = {}
    /\ open \in BOOLEAN
    /\ shown \subseteq Page

\* Pages that may be shown together.
Coherent(S) ==
    \A p, q \in S :
        /\ WikiOf[p] = WikiOf[q] => p = q
        /\ TheoryOf[p] # NoTheory /\ TheoryOf[q] # NoTheory => TheoryOf[p] = TheoryOf[q]

\* What is current, with p in place of the old revision.
With(p) == {q \in current : WikiOf[q] # WikiOf[p]} \cup {p}

Init ==
    /\ current \subseteq Page /\ Coherent(current)
    /\ retired = {}
    /\ open = TRUE /\ shown = current

\* A page becomes current, and is shown with the others.
Publish(p) ==
    /\ p \notin current \cup retired
    /\ current' = With(p)
    /\ retired' = retired \cup (current \ With(p))
    /\ open' = TRUE /\ shown' = With(p)
    /\ Coherent(shown')

\* What is current is shown again.
Rebuild ==
    /\ open' = TRUE /\ shown' = current
    /\ UNCHANGED <<current, retired>>

\* A start completes a publication: readers are shown what they would have
\* been, and the catalog does not learn of it.
Complete(p) ==
    /\ open
    /\ p \notin current \cup retired
    /\ shown' = With(p)
    /\ Coherent(shown')
    /\ UNCHANGED <<current, retired, open>>

\* Where nothing is shown, a start may complete a publication of any age.
Reopen ==
    /\ ~open
    /\ open' = TRUE
    /\ shown' \subseteq Page /\ Coherent(shown')
    /\ UNCHANGED <<current, retired>>

Withdraw ==
    /\ retired \subseteq retired' /\ retired' \subseteq Page
    /\ current' = current \ retired'
    /\ open' = FALSE /\ shown' = {}

Next ==
    \/ \E p \in Page : Publish(p) \/ Complete(p)
    \/ Rebuild \/ Reopen \/ Withdraw

vars == <<current, retired, open, shown>>

Spec == Init /\ [][Next]_vars
=============================================================================
