---------------------------- MODULE RebuildQueue ----------------------------
(* What the rebuild queue of a client promises, without threads, stages    *)
(* and starts.  A job that was ordered is dropped, or it reaches the point *)
(* of no return; then it replaces what is served, exactly once, before it  *)
(* is called done and before the next job gets that far.  Whatever         *)
(* replaces what is served carries out every deletion requested by then,   *)
(* and keeps the facts unless a rollback was ordered; a deletion is        *)
(* acknowledged in the step that carries it out on its behalf.             *)
EXTENDS Naturals

CONSTANTS
    Job, DeletionJob, RollbackJob,
    None

VARIABLES
    fate,           \* Job -> how far it got
    facts,          \* how much of the ledger is served
    by,             \* the job that built what is served, or None
    requested,      \* deletions that are asked for
    clean,          \* those whose content is no longer served
    acknowledged    \* those that are reported to be done

TypeInvariant ==
    /\ fate \in [Job -> {"none", "ordered", "dropped", "committed", "applied", "done"}]
    /\ facts \in Nat
    /\ by \in Job \cup {None}
    /\ acknowledged \subseteq clean
    /\ clean \subseteq requested
    /\ requested \subseteq DeletionJob

Init ==
    /\ fate = [j \in Job |-> "none"]
    /\ facts \in Nat /\ by = None
    /\ requested = {} /\ clean = {} /\ acknowledged = {}

servedVars == <<facts, by, clean>>

Moves(j, from, to) ==
    /\ fate[j] = from
    /\ fate' = [fate EXCEPT ![j] = to]

\* What is served is replaced by what builder made.
Replace(builder) ==
    /\ by' = builder
    /\ facts' \in Nat
    /\ builder \notin RollbackJob => facts' >= facts
    /\ clean' = requested

Request(j) ==
    /\ j \notin requested
    /\ requested' = requested \cup {j}
    /\ UNCHANGED <<fate, servedVars, acknowledged>>

Order(j) ==
    /\ j \in DeletionJob => j \in requested
    /\ Moves(j, "none", "ordered")
    /\ UNCHANGED <<servedVars, requested, acknowledged>>

Drop(j) ==
    /\ Moves(j, "ordered", "dropped")
    /\ UNCHANGED <<servedVars, requested, acknowledged>>

\* The point of no return.
Commit(j) ==
    /\ Moves(j, "ordered", "committed")
    /\ \A k \in Job : fate[k] \notin {"committed", "applied"}
    /\ UNCHANGED <<servedVars, requested, acknowledged>>

Apply(j) ==
    /\ Moves(j, "committed", "applied")
    /\ Replace(j)
    /\ acknowledged' = acknowledged \cup ({j} \cap DeletionJob)
    /\ UNCHANGED requested

Finish(j) ==
    /\ Moves(j, "applied", "done")
    /\ UNCHANGED <<servedVars, requested, acknowledged>>

\* An ordinary publication beside the queue.
Publish ==
    /\ Replace(None)
    /\ UNCHANGED <<fate, requested, acknowledged>>

Next ==
    \/ \E j \in Job : Order(j) \/ Drop(j) \/ Commit(j) \/ Apply(j) \/ Finish(j)
    \/ \E j \in DeletionJob : Request(j)
    \/ Publish

vars == <<fate, servedVars, requested, acknowledged>>

Spec == Init /\ [][Next]_vars
=============================================================================
