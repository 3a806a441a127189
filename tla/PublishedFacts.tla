--------------------------- MODULE PublishedFacts ---------------------------
(***************************************************************************)
(* What the counselor may rely on, without processes, plans or files.      *)
(*                                                                         *)
(* Approved changes are appended to one ledger.  What queries see is the   *)
(* ledger up to some version; that version only ever moves forward, and    *)
(* never to a prefix that draws on a deleted source.  A change is reported *)
(* as done only after a version that ends with it was published.           *)
(***************************************************************************)
EXTENDS Naturals

CONSTANTS Operation,    \* the approved changes
          Source,       \* the sources they draw on
          SourceOf      \* the source of each change

VARIABLES
    version,    \* the position of each change in the ledger, 0 without one
    length,     \* the length of the ledger
    shown,      \* how much of the ledger queries see
    published,  \* the changes that were the last of a published prefix
    deleted,    \* the deleted sources
    reported    \* the changes reported as done

factVars == <<version, length, shown, published, deleted, reported>>

FactsInit ==
    /\ version = [o \in Operation |-> 0]
    /\ length = 0
    /\ shown = 0
    /\ published = {}
    /\ deleted = {}
    /\ reported = {}

\* An approved change is appended, once.
Append(o) ==
    /\ version[o] = 0
    /\ version' = [version EXCEPT ![o] = length + 1]
    /\ length' = length + 1
    /\ UNCHANGED <<shown, published, deleted, reported>>

\* The prefix that ends with a change.
Prefix(o) == {p \in Operation : version[p] \in 1 .. version[o]}

\* The prefix that ends with o becomes visible in one step.
Publish(o) ==
    /\ version[o] > shown
    /\ \A p \in Prefix(o) : SourceOf[p] \notin deleted
    /\ shown' = version[o]
    /\ published' = published \cup {o}
    /\ UNCHANGED <<version, length, deleted, reported>>

Report(o) ==
    /\ o \in published
    /\ o \notin reported
    /\ reported' = reported \cup {o}
    /\ UNCHANGED <<version, length, shown, published, deleted>>

Remove(s) ==
    /\ s \notin deleted
    /\ deleted' = deleted \cup {s}
    /\ UNCHANGED <<version, length, shown, published, reported>>

FactsNext ==
    \/ \E o \in Operation : Append(o) \/ Publish(o) \/ Report(o)
    \/ \E s \in Source : Remove(s)

FactsSpec == FactsInit /\ [][FactsNext]_factVars
=============================================================================
