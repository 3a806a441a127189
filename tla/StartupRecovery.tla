-------------------------- MODULE StartupRecovery --------------------------
(***************************************************************************)
(* The recovery a worker runs before it serves a client                    *)
(* (lifecycle/recovery.py, recovery_policy.py, sqlite_recovery.py).        *)
(*                                                                         *)
(* A starting worker scans every publication without a lock, decides what  *)
(* to do with each manifest, and then applies the decisions group by group *)
(* under the recovery lock of the group's purpose, each decision once,     *)
(* with a journal row in the transaction that applies it.  A lock excludes *)
(* other recoveries of its purpose only: a recovery that has gone on to    *)
(* the next purpose works beside the next recovery, and workers that are   *)
(* publishing take no lock at all.  A decision may be stale when it is     *)
(* applied, so it is computed again and must be the same.  The worker      *)
(* serves only when the scan was healthy.                                  *)
(*                                                                         *)
(* The manifests of a client publication have two purposes (its graph; its *)
(* profile and its fact snapshot) and get the same decision.  The one that *)
(* is applied first journals all of them.  The model keeps one entry per   *)
(* operation and purpose.                                                  *)
(***************************************************************************)
EXTENDS ClientPublication

CONSTANT MaxCrashes     \* how often processes die in a run

ASSUME NoneIsNoWorker == None \notin Worker
ASSUME CrashesAreBounded == MaxCrashes \in Nat

VARIABLES
    stage,      \* where each starting worker is
    todo,       \* the decisions it has left
    healthy,    \* the scan asked for no rebuild
    current,    \* the decision it is applying, or None
    lock,       \* the worker that holds the recovery lock of each purpose, or None
    journal,    \* recovery_decision_journal
    crashes     \* processes that have died so far

recoveryVars == <<stage, todo, healthy, current, lock, journal, crashes>>
localVars == <<stage, todo, healthy, current, lock>>
vars == <<clientVars, recoveryVars>>

Purpose == {"graph", "profile"}

Stage == {"out", "scanned", "locked", "retiring", "resuming", "verifying",
          "activating"}

\* A decision names the operation and the purpose of its manifests, what to do,
\* and the authority and the tombstones it was computed from (its evidence).
Decision == [op : Operation, purpose : Purpose,
             action : {"activate", "retire", "rebuild"},
             authority : Nat, tombstones : SUBSET Source]

TypeOK ==
    /\ ClientTypeOK
    /\ stage \in [Worker -> Stage]
    /\ todo \in [Worker -> SUBSET Decision]
    /\ healthy \in [Worker -> BOOLEAN]
    /\ current \in [Worker -> Decision \cup {None}]
    /\ lock \in [Purpose -> Worker \cup {None}]
    /\ journal \subseteq Decision
    /\ crashes \in Nat

Init ==
    /\ ClientInit
    /\ stage = [w \in Worker |-> "out"]
    /\ todo = [w \in Worker |-> {}]
    /\ healthy = [w \in Worker |-> FALSE]
    /\ current = [w \in Worker |-> None]
    /\ lock = [p \in Purpose |-> None]
    /\ journal = {}
    /\ crashes = 0

-----------------------------------------------------------------------------
(* The policy.                                                             *)

\* Mutant: the base is compared instead of the version it led to.
StaleBase(o) == draft[o].base # authority \/ boundTombs[o] # tombstones

\* SOURCE_VERSION_STALE, BASE_VERSION_STALE or TOMBSTONE_EPOCH_STALE
Stale(o) == factVersion[o] # authority \/ boundTombs[o] # tombstones

\* Mutant: an action the journal does not know.
DecideCleanup(o, p) ==
    [op |-> o, purpose |-> p, authority |-> authority, tombstones |-> tombstones,
     action |-> IF pubState[o] = "active" THEN "rebuild"
                ELSE IF Visible(o) /\ ~Stale(o) THEN "activate" ELSE "cleanup"]

\* What PurposeRecoveryPolicy.decide asks for: an unfinished publication is
\* completed if it is visible and fresh and retired otherwise; the active one
\* is rebuilt if it is stale, unless it is tombstoned, which is kept.
Decide(o, p) ==
    [op |-> o, purpose |-> p, authority |-> authority, tombstones |-> tombstones,
     action |-> IF pubState[o] = "active" THEN "rebuild"
                ELSE IF Visible(o) /\ ~Stale(o) THEN "activate" ELSE "retire"]

\* Mutant: an active publication counts as unfinished.
UnfinishedOrActive(o) == pubState[o] \in {"prepared", "verified", "active"}

Unfinished(o) == pubState[o] \in {"prepared", "verified"}

\* Mutant: verified publications are not part of the inventory.
ActionablePrepared(o) ==
    \/ pubState[o] = "prepared"
    \/ active = o /\ Visible(o) /\ Stale(o)

\* The operations whose decision is not KEEP.
Actionable(o) ==
    \/ Unfinished(o)
    \/ active = o /\ Visible(o) /\ Stale(o)

-----------------------------------------------------------------------------
(* RecoveryCoordinator and its SQLite writer.                              *)

\* The read-only inventory and the decisions computed from it.
Scan(w) ==
    LET decisions ==
            {Decide(o, p) : o \in {q \in Operation : Actionable(q)}, p \in Purpose}
    IN  /\ phase[w] = "down"
        /\ stage[w] = "out"
        /\ stage' = [stage EXCEPT ![w] = "scanned"]
        /\ todo' = [todo EXCEPT ![w] = decisions]
        /\ healthy' = [healthy EXCEPT ![w] = \A d \in decisions : d.action # "rebuild"]
        /\ UNCHANGED <<clientVars, current, lock, journal, crashes>>

\* Mutant: the groups are taken in any order.
LockUnordered(w) ==
    /\ stage[w] = "scanned"
    /\ \E d \in todo[w] :
           /\ lock[d.purpose] = None
           /\ lock' = [lock EXCEPT ![d.purpose] = w]
    /\ stage' = [stage EXCEPT ![w] = "locked"]
    /\ UNCHANGED <<clientVars, todo, healthy, current, journal, crashes>>

\* The purposes are taken in sorted order.
Group(w) == IF \E d \in todo[w] : d.purpose = "graph" THEN "graph" ELSE "profile"

\* The lock of the next purpose with decisions.
Lock(w) ==
    /\ stage[w] = "scanned"
    /\ todo[w] # {}
    /\ lock[Group(w)] = None
    /\ lock' = [lock EXCEPT ![Group(w)] = w]
    /\ stage' = [stage EXCEPT ![w] = "locked"]
    /\ UNCHANGED <<clientVars, todo, healthy, current, journal, crashes>>

\* The decisions of the group that w has locked.
Due(w) == {d \in todo[w] : lock[d.purpose] = w}

\* Mutant: a lock survives its group and its process.
ReleasedLater(w) == lock

Released(w) == [p \in Purpose |-> IF lock[p] = w THEN None ELSE lock[p]]

\* The group is done, and its lock is released before the next is taken.
Unlock(w) ==
    /\ stage[w] = "locked"
    /\ Due(w) = {}
    /\ lock' = Released(w)
    /\ stage' = [stage EXCEPT ![w] = "scanned"]
    /\ UNCHANGED <<clientVars, todo, healthy, current, journal, crashes>>

\* A decision that is in the journal is not applied again.
Replay(w, d) ==
    /\ stage[w] = "locked"
    /\ d \in Due(w) \cap journal
    /\ todo' = [todo EXCEPT ![w] = @ \ {d}]
    /\ UNCHANGED <<clientVars, stage, healthy, current, lock, journal, crashes>>

\* A rebuild is only recorded.
RecordRebuild(w, d) ==
    /\ stage[w] = "locked"
    /\ d \in Due(w) \ journal
    /\ d.action = "rebuild"
    /\ todo' = [todo EXCEPT ![w] = @ \ {d}]
    /\ journal' = journal \cup {d}
    /\ UNCHANGED <<clientVars, stage, healthy, current, lock, crashes>>

\* The inventory is read again under the lock and must give the decision.
StillDecided(d) == Unfinished(d.op) /\ Decide(d.op, d.purpose) = d

BeginApply(w, d) ==
    /\ stage[w] = "locked"
    /\ d \in Due(w) \ journal
    /\ d.action # "rebuild"
    /\ StillDecided(d)
    /\ stage' = [stage EXCEPT ![w] =
                     IF d.action = "retire" THEN "retiring" ELSE "resuming"]
    /\ current' = [current EXCEPT ![w] = d]
    /\ UNCHANGED <<clientVars, todo, healthy, lock, journal, crashes>>

\* Mutant: the manifest's own decision is journaled alone.
OwnDecision(d) == {d}

\* The decisions on all manifests of the operation.
Siblings(d) == {[d EXCEPT !.purpose = p] : p \in Purpose}

\* The decision of w is applied, and journaled with its siblings.
Applied(w) ==
    /\ journal' = journal \cup Siblings(current[w])
    /\ todo' = [todo EXCEPT ![w] = @ \ {current[w]}]
    /\ current' = [current EXCEPT ![w] = None]
    /\ stage' = [stage EXCEPT ![w] = "locked"]
    /\ UNCHANGED <<approvalVars, draft, ledgerVars, tombstones, workerVars,
                   healthy, lock, crashes>>

\* UPDATE ... SET state = 'FAILED' WHERE state IN ('PREPARED', 'VERIFIED')
Retire(w) ==
    LET o == current[w].op
    IN  /\ stage[w] = "retiring"
        /\ Unfinished(o)
        /\ pubState' = [pubState EXCEPT ![o] = "failed"]
        /\ UNCHANGED <<closure, boundTombs, active, epochOf>>
        /\ Applied(w)

\* PublishCoordinator.verify, for an operation that is still PREPARED.
Resume(w) ==
    LET o == current[w].op
    IN  /\ stage[w] = "resuming"
        /\ \/ /\ pubState[o] = "prepared"
              /\ Visible(o)
              /\ stage' = [stage EXCEPT ![w] = "verifying"]
           \/ /\ pubState[o] # "prepared"
              /\ stage' = [stage EXCEPT ![w] = "activating"]
        /\ UNCHANGED <<clientVars, todo, healthy, current, lock, journal, crashes>>

ResumeVerify(w) ==
    /\ stage[w] = "verifying"
    /\ MarkVerified(current[w].op)
    /\ stage' = [stage EXCEPT ![w] = "activating"]
    /\ UNCHANGED <<approvalVars, draft, ledgerVars, tombstones, workerVars,
                   todo, healthy, current, lock, journal, crashes>>

\* Mutant: the decision is journaled whatever became of the activation.
ResumeJournal(w) ==
    LET o == current[w].op
    IN  /\ stage[w] = "activating"
        /\ ActivateExpected(o) \/ UNCHANGED pubVars
        /\ Applied(w)

\* Activation and journal in one transaction.  An operation that its own
\* worker has activated meanwhile is only journaled.
ResumeActivate(w) ==
    LET o == current[w].op
    IN  /\ stage[w] = "activating"
        /\ \/ ActivateExpected(o)
           \/ pubState[o] = "active" /\ Visible(o) /\ UNCHANGED pubVars
        /\ Applied(w)

\* The worker leaves recovery, and with it any lock it holds.
Leave(w) ==
    /\ stage' = [stage EXCEPT ![w] = "out"]
    /\ todo' = [todo EXCEPT ![w] = {}]
    /\ current' = [current EXCEPT ![w] = None]
    /\ lock' = Released(w)

\* A lock that stays busy, a check that fails, or a changed inventory ends the
\* start of the worker.
Fail(w) ==
    /\ \/ stage[w] = "scanned" /\ todo[w] # {} /\ lock[Group(w)] # None
       \/ /\ stage[w] = "locked"
          /\ \E d \in Due(w) \ journal : d.action # "rebuild" /\ ~StillDecided(d)
       \/ stage[w] = "retiring" /\ ~Unfinished(current[w].op)
       \/ /\ stage[w] = "resuming"
          /\ pubState[current[w].op] = "prepared" /\ ~Visible(current[w].op)
       \/ stage[w] = "verifying" /\ pubState[current[w].op] # "prepared"
       \/ /\ stage[w] = "activating"
          /\ ~MayActivate(current[w].op)
          /\ ~(pubState[current[w].op] = "active" /\ Visible(current[w].op))
    /\ Leave(w)
    /\ UNCHANGED <<clientVars, healthy, journal, crashes>>

\* require_query_ready: everything applied, the worker serves if the scan that
\* preceded it was healthy, and else ends (RecoveryStartupBlocked).
Finish(w) ==
    /\ stage[w] = "scanned"
    /\ todo[w] = {}
    /\ Leave(w)
    /\ IF healthy[w] THEN GoTo(w, "idle") ELSE UNCHANGED phase
    /\ UNCHANGED <<approvalVars, draft, ledgerVars, pubVars, tombstones, job,
                   seen, healthy, journal, crashes>>

\* A process dies while it publishes or while it recovers.
Die(w) ==
    /\ crashes < MaxCrashes
    /\ crashes' = crashes + 1
    /\ \/ Crash(w) /\ UNCHANGED <<localVars, journal>>
       \/ stage[w] # "out" /\ Leave(w) /\ UNCHANGED <<clientVars, healthy, journal>>

-----------------------------------------------------------------------------
RecoveryStep(w) ==
    \/ Scan(w) \/ Lock(w) \/ Unlock(w) \/ Retire(w) \/ Resume(w) \/ ResumeVerify(w)
    \/ ResumeActivate(w) \/ Fail(w) \/ Finish(w)
    \/ \E d \in todo[w] : Replay(w, d) \/ RecordRebuild(w, d) \/ BeginApply(w, d)

\* A step of the client protocol that is not a crash.
ClientStep ==
    /\ \/ \E w \in Worker : WorkerStep(w)
       \/ \E w \in Worker, o \in Operation :
              BeginPreview(w, o) \/ Plan(w, o) \/ RecoverApplied(w, o)
       \/ \E o \in Operation : Approve(o)
       \/ \E s \in Deletable : Delete(s)
    /\ UNCHANGED recoveryVars

Next ==
    \/ ClientStep
    \/ \E w \in Worker : RecoveryStep(w) \/ Die(w)

Spec == Init /\ [][Next]_vars

\* A running process takes its next step, and a client whose worker ended
\* gets a new one with its next request, which runs recovery.
Fairness ==
    \A w \in Worker :
        /\ WF_vars(WorkerStep(w) /\ UNCHANGED recoveryVars)
        /\ WF_vars(RecoveryStep(w))

LiveSpec == Spec /\ Fairness

-----------------------------------------------------------------------------
(* Properties.                                                             *)

\* The outcome of a publication is final: recovery never retires what its
\* worker has activated meanwhile, and no worker revives what recovery
\* retired, although neither takes the other's lock.
OutcomeIsFinal ==
    [][\A o \in Operation :
           pubState[o] \in {"active", "failed"} => pubState'[o] = pubState[o]]_vars

\* The journal tells the truth: a decision found in it needs no second look,
\* because what it says was done and stayed done.  No publication is decided
\* both ways.
JournalIsTrue ==
    \A d \in journal :
        pubState[d.op] = IF d.action = "retire" THEN "failed" ELSE "active"

\* Recovery retires a publication only when it is stale or deleted.
RetiredForCause ==
    \A o \in Operation :
        pubState[o] = "failed" =>
            \/ factVersion[o] < authority
            \/ boundTombs[o] # tombstones
            \/ ~Visible(o)

\* Two recoveries never complete or retire publications at once, although they
\* lock one purpose at a time and one that has gone on to the next purpose works
\* beside the next recovery: the group that every recovery takes first journals
\* the siblings of its decisions, so the later group only replays and records.
Applying == {"retiring", "resuming", "verifying", "activating"}

OneApplierAtATime ==
    \A v, w \in Worker :
        stage[v] \in Applying /\ stage[w] \in Applying => v = w

\* A client that is served by one process at a time can always be opened
\* again: its start is refused only by a deletion that came after the scan,
\* and the next start decides anew.  This is for one worker; with two, a start
\* can fail for ever.
StartsFailByDeletion ==
    [][\A w \in Worker :
           Fail(w) => \E d \in todo[w] : d.tombstones # tombstones]_vars

\* Every publication that was prepared is completed or cleaned up eventually,
\* although any process may die at any step.  This holds for one worker; two
\* workers of one client can leave a publication that expects an epoch which
\* is no longer active, and recovery then fails at every start.
PreparedIsResolved ==
    \A o \in Operation :
        Unfinished(o) ~> pubState[o] \in {"active", "failed"}

\* While nothing is deleted, a client whose worker died can be served again
\* eventually, at the latest by the second process: after a crash between
\* commit and activation the first one completes the publication but ends,
\* its scan being unhealthy.
EventuallyServing ==
    [](tombstones = {}) => \A w \in Worker : phase[w] = "down" ~> phase[w] = "idle"

=============================================================================
