---------------------------- MODULE RebuildJobs ----------------------------
(***************************************************************************)
(* The rebuild queue of a client (lifecycle/rebuild_jobs.py, rebuild.py,   *)
(* production_rebuild.py, and the threads and starts of                    *)
(* security/worker_main.py that drain it).                                 *)
(*                                                                         *)
(* A job rebuilds everything that is published from the ledger.  It is     *)
(* bound to the authority it was planned on, is built in a stage of its    *)
(* own and replaces the active epoch in one transaction.  Jobs are run by  *)
(* whoever drains the queue: a starting worker before it recovers, and a   *)
(* thread of a serving worker beside the calls it answers.  Sessions end   *)
(* and processes die at any step, and take their thread with them.         *)
(*                                                                         *)
(* Jobs are ordinary, or ordered by a deletion, or by the rollback of a    *)
(* fact.  A ledger, a tombstone epoch and a content are numbers: content n *)
(* holds the facts of the first n commits.  Of the four artifacts of a     *)
(* closure two are kept apart, the fact snapshot and the rest; each is     *)
(* labelled with the ledger at the moment it was built.                    *)
(***************************************************************************)
EXTENDS Naturals, Sequences, FiniteSets

CONSTANTS
    Job, DeletionJob, RollbackJob,  \* the jobs, and those with a source intent
    Worker,                         \* processes, each with one drain at a time
    None,
    MaxVersion                      \* bounds the ledger

ASSUME KindsAreDisjoint ==
    /\ DeletionJob \subseteq Job
    /\ RollbackJob \subseteq Job
    /\ DeletionJob \cap RollbackJob = {}
ASSUME NoneIsNoJob == None \notin Job
ASSUME VersionsAreBounded == MaxVersion \in Nat

VARIABLES
    version,    \* client_fact_authority.commit_version
    revision,   \* the commit of the latest profile revision
    superseded, \* rollbacks whose event is no longer the latest of its fact
    pending,    \* a publication that is committed and not active, or None
    deleted,    \* the tombstone epoch
    erased,     \* the tombstone epoch of each deletion, 0 before it
    intent,     \* deletion_queue_intents of the deletions
    shown,      \* the active closure
    jobState,   \* rebuild_jobs
    bound,      \* the authority a job was planned on
    stage,      \* the publication operation of the job's stage
    built,      \* the versions of the artifacts staged so far
    expected,   \* the closure the stage is to replace
    base,       \* the authority version the stage claims
    main,       \* each process: down, draining, recovering, serving
    at,         \* where its drain is
    run         \* the job it runs, or None

ledgerVars == <<version, revision, superseded, pending>>
deletionVars == <<deleted, erased, intent>>
jobVars == <<jobState, bound>>
stageVars == <<stage, built, expected, base>>
processVars == <<main, at, run>>
vars == <<ledgerVars, deletionVars, shown, jobVars, stageVars, processVars>>

JobState == {"absent", "queued", "running", "verifying", "activating",
             "succeeded", "failed", "cancelled"}
BuildStep == {"read", "begin", "build", "marking", "verify", "recheck", "mark"}
ActivationStep == {"resume", "load", "switch", "acknowledge", "finish"}
Authority == [version : Nat, revision : Nat, deleted : Nat]

\* An epoch: the job that built it (None: a publication), the facts and the
\* tombstones it was made of, and the versions its artifacts claim.
Closure == [epoch : Nat, by : Job \cup {None}, version : Nat, deleted : Nat,
            built : Seq(Nat)]

TypeOK ==
    /\ version \in Nat /\ revision \in Nat /\ deleted \in Nat
    /\ superseded \subseteq RollbackJob
    /\ pending \in [version : Nat, deleted : Nat, expected : Nat] \cup {None}
    /\ erased \in [DeletionJob -> Nat]
    /\ intent \in [DeletionJob -> {"none", "PENDING", "CLAIMED", "FAILED", "SUCCEEDED"}]
    /\ shown \in Closure
    /\ jobState \in [Job -> JobState]
    /\ bound \in [Job -> Authority]
    /\ stage \in [Job -> {"none", "PREPARED", "VERIFIED", "ACTIVE", "FAILED"}]
    /\ built \in [Job -> Seq(Nat)] /\ \A j \in Job : Len(built[j]) <= 2
    /\ expected \in [Job -> Closure]
    /\ base \in [Job -> Nat]
    /\ main \in [Worker -> {"down", "draining", "recovering", "serving"}]
    /\ at \in [Worker -> {"idle", "claim", "poll", "failing", "fail"}
                             \cup BuildStep \cup ActivationStep]
    /\ run \in [Worker -> Job \cup {None}]

\* Nothing is active: the derived closure was lost.
Lost == [epoch |-> 0, by |-> None, version |-> 0, deleted |-> 0, built |-> <<>>]
IsLost(closure) == closure.built = <<>>

Published(n, v, d) ==
    [epoch |-> n, by |-> None, version |-> v, deleted |-> d, built |-> <<v, v>>]

Init ==
    /\ version = 1 /\ revision = 1 /\ deleted = 0
    /\ superseded = {}
    /\ pending = None
    /\ erased = [j \in DeletionJob |-> 0]
    /\ intent = [j \in DeletionJob |-> "none"]
    /\ shown \in {Published(1, 1, 0), Lost}
    /\ jobState = [j \in Job |-> "absent"]
    /\ bound = [j \in Job |-> [version |-> 0, revision |-> 0, deleted |-> 0]]
    /\ stage = [j \in Job |-> "none"]
    /\ built = [j \in Job |-> <<>>]
    /\ expected = [j \in Job |-> Lost]
    /\ base = [j \in Job |-> 0]
    /\ main = [w \in Worker |-> "down"]
    /\ at = [w \in Worker |-> "idle"]
    /\ run = [w \in Worker |-> None]

-----------------------------------------------------------------------------
(* What surrounds the queue.                                               *)

Snapshot == [version |-> version, revision |-> revision, deleted |-> deleted]

SetJob(j, s) == jobState' = [jobState EXCEPT ![j] = s]
SetStage(j, s) == stage' = [stage EXCEPT ![j] = s]
SetIntent(j, s) ==
    intent' = IF j \in DeletionJob THEN [intent EXCEPT ![j] = s] ELSE intent

\* _start_client_rebuild_runner: a process that is already draining goes on.
StartThread(w) == at' = [at EXCEPT ![w] = IF @ = "idle" THEN "claim" ELSE @]

\* The fact part of a publication.  The new events may replace what earlier
\* rollbacks restored.
CommitFacts(w, replaced) ==
    /\ main[w] = "serving"
    /\ version < MaxVersion
    /\ \A j \in replaced : jobState[j] # "absent"
    /\ version' = version + 1
    /\ revision' = version + 1
    /\ superseded' = superseded \cup replaced
    /\ pending' = [version |-> version + 1, deleted |-> deleted, expected |-> shown.epoch]
    /\ UNCHANGED <<deletionVars, shown, jobVars, stageVars, processVars>>

\* Mutant: its activation, without looking at epoch and tombstones again.
ActivateUnchecked(w) ==
    /\ main[w] = "serving"
    /\ pending # None
    /\ shown' = Published(shown.epoch + 1, pending.version, pending.deleted)
    /\ pending' = None
    /\ UNCHANGED <<version, revision, superseded, deletionVars, jobVars,
                   stageVars, processVars>>

\* Its activation.  A deletion is of something it holds.
ActivateFacts(w) ==
    /\ main[w] = "serving"
    /\ pending # None
    /\ pending.expected = shown.epoch
    /\ pending.deleted = deleted
    /\ shown' = Published(shown.epoch + 1, pending.version, pending.deleted)
    /\ pending' = None
    /\ UNCHANGED <<version, revision, superseded, deletionVars, jobVars,
                   stageVars, processVars>>

\* A deletion commits its tombstones and the intent to rebuild.
Delete(w, j) ==
    /\ main[w] = "serving"
    /\ intent[j] = "none"
    /\ deleted' = deleted + 1
    /\ erased' = [erased EXCEPT ![j] = deleted + 1]
    /\ intent' = [intent EXCEPT ![j] = "PENDING"]
    /\ UNCHANGED <<ledgerVars, shown, jobVars, stageVars, processVars>>

\* start_rebuild: the approved plan is the plan of the moment.
Enqueue(w, j) ==
    /\ main[w] = "serving"
    /\ j \notin RollbackJob
    /\ j \in DeletionJob => intent[j] # "none"
    /\ jobState[j] = "absent"
    /\ SetJob(j, "queued")
    /\ bound' = [bound EXCEPT ![j] = Snapshot]
    /\ StartThread(w)
    /\ UNCHANGED <<ledgerVars, deletionVars, shown, stageVars, main, run>>

\* A rollback of what is active appends the restoring event, without a profile
\* revision, and enqueues its job in the same transaction.
Rollback(w, j, replaced) ==
    /\ main[w] = "serving"
    /\ ~IsLost(shown)
    /\ version < MaxVersion
    /\ jobState[j] = "absent"
    /\ \A k \in replaced : jobState[k] # "absent"
    /\ version' = version + 1
    /\ superseded' = superseded \cup replaced
    /\ SetJob(j, "queued")
    /\ bound' = [bound EXCEPT ![j] = [Snapshot EXCEPT !.version = version + 1]]
    /\ StartThread(w)
    /\ UNCHANGED <<revision, pending, deletionVars, shown, stageVars, main, run>>

\* Mutant: a job can be cancelled until it has succeeded.
CancelLate(w, j) ==
    /\ main[w] = "serving"
    /\ j \notin DeletionJob \cup RollbackJob
    /\ jobState[j] \in {"queued", "running", "verifying", "activating", "failed"}
    /\ SetJob(j, "cancelled")
    /\ UNCHANGED <<ledgerVars, deletionVars, shown, bound, stageVars, processVars>>

\* cancel_rebuild: before activation, and never what a deletion or a rollback
\* ordered.
Cancel(w, j) ==
    /\ main[w] = "serving"
    /\ j \notin DeletionJob \cup RollbackJob
    /\ jobState[j] \in {"queued", "running", "verifying", "failed"}
    /\ SetJob(j, "cancelled")
    /\ UNCHANGED <<ledgerVars, deletionVars, shown, bound, stageVars, processVars>>

-----------------------------------------------------------------------------
(* run_next: claiming.                                                     *)

Go(w, s) == at' = [at EXCEPT ![w] = s]

Take(w, j, s) ==
    /\ at[w] = "claim"
    /\ Go(w, s)
    /\ run' = [run EXCEPT ![w] = j]

\* Mutant: a running job is returned as well.
ClaimRunningAgain(w, j) ==
    /\ jobState[j] \in {"running", "activating"}
    /\ Take(w, j, IF jobState[j] = "running" THEN "read" ELSE "resume")
    /\ UNCHANGED <<ledgerVars, deletionVars, shown, jobVars, stageVars, main>>

\* An activation that was begun comes first and is returned as it is.
ClaimActivating(w, j) ==
    /\ jobState[j] = "activating"
    /\ Take(w, j, "resume")
    /\ UNCHANGED <<ledgerVars, deletionVars, shown, jobVars, stageVars, main>>

Busy == \E j \in Job : jobState[j] \in {"running", "verifying", "activating"}

\* Mutant: a verifying job does not keep the queue busy.
ClaimBesideVerifying(w, j) ==
    /\ ~\E k \in Job : jobState[k] \in {"running", "activating"}
    /\ jobState[j] = "queued"
    /\ Take(w, j, "read")
    /\ SetJob(j, "running")
    /\ SetIntent(j, "CLAIMED")
    /\ UNCHANGED <<ledgerVars, deleted, erased, shown, bound, stageVars, main>>

\* Queued work is claimed when none is under way; whose turn it is is left
\* open (the code orders by time).
ClaimQueued(w, j) ==
    /\ ~Busy
    /\ jobState[j] = "queued"
    /\ Take(w, j, "read")
    /\ SetJob(j, "running")
    /\ SetIntent(j, "CLAIMED")
    /\ UNCHANGED <<ledgerVars, deleted, erased, shown, bound, stageVars, main>>

\* Nothing to claim: the drain ends, and a starting worker goes on.
DrainEnds(w) ==
    /\ at[w] = "claim"
    /\ \A j \in Job : jobState[j] # "activating"
    /\ Busy \/ \A j \in Job : jobState[j] # "queued"
    /\ Go(w, "idle")
    /\ main' = [main EXCEPT ![w] = IF @ = "draining" THEN "recovering" ELSE @]
    /\ UNCHANGED <<ledgerVars, deletionVars, shown, jobVars, stageVars, run>>

-----------------------------------------------------------------------------
(* _run_build.                                                             *)

DeletionStands(j, states) ==
    j \in DeletionJob => intent[j] \in states /\ erased[j] = bound[j].deleted

\* _assert_activation_authority
Authorised(j, s) ==
    /\ jobState[j] = s
    /\ deleted = bound[j].deleted
    /\ DeletionStands(j, {"PENDING", "CLAIMED"})
    /\ j \notin superseded

\* The same for a stage that is active already.
StillAuthorised(j) ==
    /\ jobState[j] = "activating"
    /\ DeletionStands(j, {"PENDING", "CLAIMED", "SUCCEEDED"})
    /\ j \notin superseded

\* Mutant: the profile revision is not compared with the ledger.
BuildableStale(j) == stage[j] = "PREPARED" /\ expected[j].epoch = shown.epoch

\* What every builder requires: an open stage, the epoch the stage expects and a
\* profile revision of the last commit.  A rollback has no revision yet and
\* skips that check.
Buildable(j) ==
    /\ stage[j] = "PREPARED"
    /\ expected[j].epoch = shown.epoch
    /\ j \in RollbackJob \/ bound[j].revision = version

\* resolve_exact and read_exact: the authority is the one of the plan.
Read(w) ==
    /\ at[w] = "read"
    /\ bound[run[w]] = Snapshot
    /\ Go(w, "begin")
    /\ UNCHANGED <<ledgerVars, deletionVars, shown, jobVars, stageVars, main, run>>

\* begin_empty_stage
Begin(w) ==
    LET j == run[w]
    IN  /\ at[w] = "begin"
        /\ Authorised(j, "running")
        /\ SetStage(j, "PREPARED")
        /\ expected' = [expected EXCEPT ![j] = shown]
        /\ base' = [base EXCEPT ![j] = version]
        /\ Go(w, "build")
        /\ UNCHANGED <<ledgerVars, deletionVars, shown, jobVars, built, main, run>>

\* A builder's artifact is staged, labelled with the ledger as it is now.
Build(w) ==
    LET j == run[w]
    IN  /\ at[w] = "build"
        /\ Buildable(j)
        /\ built' = [built EXCEPT ![j] = Append(@, version)]
        /\ Go(w, "poll")
        /\ UNCHANGED <<ledgerVars, deletionVars, shown, jobVars, stage,
                       expected, base, main, run>>

\* discard_stage: an active stage stays.
Discard(j) ==
    IF stage[j] \in {"PREPARED", "VERIFIED"} THEN SetStage(j, "FAILED")
                                             ELSE UNCHANGED stage

Done(w) == Go(w, "claim") /\ run' = [run EXCEPT ![w] = None]

\* After each artifact a cancelled job is given up.
Poll(w) ==
    LET j == run[w]
    IN  /\ at[w] = "poll"
        /\ IF jobState[j] = "cancelled"
           THEN Discard(j) /\ Done(w)
           ELSE /\ Go(w, IF Len(built[j]) = 2 THEN "marking" ELSE "build")
                /\ UNCHANGED <<stage, run>>
        /\ UNCHANGED <<ledgerVars, deletionVars, shown, jobVars, built,
                       expected, base, main>>

MarkVerifying(w) ==
    /\ at[w] = "marking"
    /\ jobState[run[w]] = "running"
    /\ SetJob(run[w], "verifying")
    /\ Go(w, "verify")
    /\ UNCHANGED <<ledgerVars, deletionVars, shown, bound, stageVars, main, run>>

\* The equivalence report: an artifact replaces nothing, or one of an earlier
\* version, or the same content.  Content is the same when both were rebuilt
\* from one authority; what a publication wrote never compares equal.
Eligible(j) ==
    LET before == expected[j]
        same(i) == /\ before.by # None
                   /\ bound[before.by] = bound[j]
                   /\ before.built[i] = built[j][i]
    IN  \A i \in DOMAIN before.built : built[j][i] > before.built[i] \/ same(i)

VerifyStage(w) ==
    LET j == run[w]
    IN  /\ at[w] = "verify"
        /\ Authorised(j, "verifying")
        /\ stage[j] = "PREPARED"
        /\ SetStage(j, "VERIFIED")
        /\ Go(w, "recheck")
        /\ UNCHANGED <<ledgerVars, deletionVars, shown, jobVars, built,
                       expected, base, main, run>>

\* The report is judged and the tombstone epoch read once more, without a lock.
Recheck(w) ==
    /\ at[w] = "recheck"
    /\ Eligible(run[w])
    /\ deleted = bound[run[w]].deleted
    /\ Go(w, "mark")
    /\ UNCHANGED <<ledgerVars, deletionVars, shown, jobVars, stageVars, main, run>>

\* The point of no return looks at the job, not at its stage.
MarkActivating(w) ==
    /\ at[w] = "mark"
    /\ jobState[run[w]] = "verifying"
    /\ SetJob(run[w], "activating")
    /\ Go(w, "load")
    /\ UNCHANGED <<ledgerVars, deletionVars, shown, bound, stageVars, main, run>>

-----------------------------------------------------------------------------
(* activate_atomically and what follows, first time or resumed.            *)

ResumeStage(w) ==
    LET j == run[w]
    IN  /\ at[w] = "resume"
        /\ \/ stage[j] = "VERIFIED" /\ Authorised(j, "activating")
           \/ stage[j] = "ACTIVE" /\ StillAuthorised(j)
        /\ Go(w, "load")
        /\ UNCHANGED <<ledgerVars, deletionVars, shown, jobVars, stageVars, main, run>>

\* The stage is read before the transaction.
Load(w) ==
    LET j == run[w]
    IN  /\ at[w] = "load"
        /\ stage[j] \in {"VERIFIED", "ACTIVE"}
        /\ Go(w, IF stage[j] = "ACTIVE" THEN "acknowledge" ELSE "switch")
        /\ UNCHANGED <<ledgerVars, deletionVars, shown, jobVars, stageVars, main, run>>

\* Mutant: the epoch is replaced whichever it is.
MaySwitchAnyEpoch(j) == Authorised(j, "activating") /\ stage[j] = "VERIFIED"

MaySwitch(j) ==
    /\ Authorised(j, "activating")
    /\ stage[j] = "VERIFIED"
    /\ expected[j].epoch = shown.epoch

Replaced(j) ==
    [epoch |-> shown.epoch + 1, by |-> j, version |-> bound[j].version,
     deleted |-> bound[j].deleted, built |-> built[j]]

\* Mutant: the intent is left to be acknowledged with the job.
SwitchOnly(w) ==
    LET j == run[w]
    IN  /\ at[w] = "switch"
        /\ MaySwitch(j)
        /\ SetStage(j, "ACTIVE")
        /\ shown' = Replaced(j)
        /\ Go(w, "finish")
        /\ UNCHANGED <<ledgerVars, deletionVars, jobVars, built, expected,
                       base, main, run>>

\* The epoch is replaced as a whole, and the deletion's intent acknowledged.
Switch(w) ==
    LET j == run[w]
    IN  /\ at[w] = "switch"
        /\ MaySwitch(j)
        /\ SetStage(j, "ACTIVE")
        /\ shown' = Replaced(j)
        /\ SetIntent(j, "SUCCEEDED")
        /\ Go(w, "finish")
        /\ UNCHANGED <<ledgerVars, deleted, erased, jobVars, built, expected,
                       base, main, run>>

\* Found active: only the intent is acknowledged.
Acknowledge(w) ==
    LET j == run[w]
    IN  /\ at[w] = "acknowledge"
        /\ StillAuthorised(j)
        /\ SetIntent(j, "SUCCEEDED")
        /\ Go(w, "finish")
        /\ UNCHANGED <<ledgerVars, deleted, erased, shown, jobVars, stageVars,
                       main, run>>

\* mark_succeeded, for whoever gets there first and again for the others.
MarkSucceeded(w) ==
    LET j == run[w]
    IN  /\ at[w] = "finish"
        /\ \/ jobState[j] = "succeeded" /\ UNCHANGED jobState
           \/ /\ jobState[j] = "activating"
              /\ j \in DeletionJob => intent[j] = "SUCCEEDED"
              /\ SetJob(j, "succeeded")
        /\ Done(w)
        /\ UNCHANGED <<ledgerVars, deletionVars, shown, bound, stageVars, main>>

-----------------------------------------------------------------------------
(* What goes wrong.                                                        *)

\* The step that the drain is at cannot be taken.
Rejected(w) ==
    LET j == run[w]
    IN  \/ at[w] = "read" /\ bound[j] # Snapshot
        \/ at[w] = "begin" /\ ~Authorised(j, "running")
        \/ at[w] = "build"      \* builders fail for reasons of their own too
        \/ at[w] = "marking" /\ jobState[j] # "running"
        \/ at[w] = "verify" /\ ~(Authorised(j, "verifying") /\ stage[j] = "PREPARED")
        \/ at[w] = "recheck" /\ ~(Eligible(j) /\ deleted = bound[j].deleted)
        \/ at[w] = "mark" /\ jobState[j] # "verifying"
        \/ /\ at[w] = "resume"
           /\ ~(stage[j] = "VERIFIED" /\ Authorised(j, "activating"))
           /\ ~(stage[j] = "ACTIVE" /\ StillAuthorised(j))
        \/ at[w] = "load" /\ stage[j] \notin {"VERIFIED", "ACTIVE"}
        \/ at[w] = "switch" /\ ~MaySwitch(j)
        \/ at[w] = "acknowledge" /\ ~StillAuthorised(j)
        \/ /\ at[w] = "finish"
           /\ jobState[j] # "succeeded"
           /\ ~(jobState[j] = "activating" /\ (j \in DeletionJob => intent[j] = "SUCCEEDED"))

\* An exception that nobody handles ends the thread, or the start.
Raise(w) ==
    /\ Go(w, "idle")
    /\ run' = [run EXCEPT ![w] = None]
    /\ main' = [main EXCEPT ![w] = IF @ = "draining" THEN "down" ELSE @]

\* Before activation _run_build handles it; later it is not handled.
Reject(w) ==
    /\ Rejected(w)
    /\ IF at[w] \in BuildStep THEN Go(w, "failing") /\ UNCHANGED <<main, run>>
                              ELSE Raise(w)
    /\ UNCHANGED <<ledgerVars, deletionVars, shown, jobVars, stageVars>>

\* The handler: the stage is discarded, and a cancelled job left alone.
Handle(w) ==
    LET j == run[w]
    IN  /\ at[w] = "failing"
        /\ Discard(j)
        /\ IF jobState[j] = "cancelled" THEN Done(w)
                                        ELSE Go(w, "fail") /\ UNCHANGED run
        /\ UNCHANGED <<ledgerVars, deletionVars, shown, jobVars, built,
                       expected, base, main>>

\* mark_failed in a transaction of its own; a job that was cancelled since
\* raises.
MarkFailed(w) ==
    LET j == run[w]
    IN  /\ at[w] = "fail"
        /\ IF jobState[j] \in {"queued", "running", "verifying"}
           THEN SetJob(j, "failed") /\ SetIntent(j, "FAILED") /\ Done(w) /\ UNCHANGED main
           ELSE Raise(w) /\ UNCHANGED <<jobState, intent>>
        /\ UNCHANGED <<ledgerVars, deleted, erased, shown, bound, stageVars>>

-----------------------------------------------------------------------------
(* Processes.                                                              *)

\* A start drains the queue if a job is pending, and then recovers.
Start(w) ==
    LET waiting == \E j \in Job :
            jobState[j] \in {"queued", "running", "verifying", "activating"}
    IN  /\ main[w] = "down"
        /\ main' = [main EXCEPT ![w] = IF waiting THEN "draining" ELSE "recovering"]
        /\ Go(w, IF waiting THEN "claim" ELSE "idle")
        /\ UNCHANGED <<ledgerVars, deletionVars, shown, jobVars, stageVars, run>>

\* The session ends or the process dies.
Exit(w) ==
    /\ main[w] # "down"
    /\ main' = [main EXCEPT ![w] = "down"]
    /\ Go(w, "idle")
    /\ run' = [run EXCEPT ![w] = None]
    /\ UNCHANGED <<ledgerVars, deletionVars, shown, jobVars, stageVars>>

\* The evidence recovery accepts for a rebuilt closure: the rollback that
\* ordered it.  Other jobs leave none, there being no closure attestation.
Proven(j) ==
    /\ j \in RollbackJob \ superseded
    /\ jobState[j] \in {"activating", "succeeded"}
    /\ base[j] = bound[j].version
    /\ Len(built[j]) = 2

Unfinished(j) == stage[j] \in {"PREPARED", "VERIFIED"}
Current(j) == Proven(j) /\ base[j] = version /\ bound[j].deleted = deleted

PendingFresh == pending # None /\ pending.version = version /\ pending.deleted = deleted

\* Recovery stops on a stage of which only some manifests exist, on one it
\* would have to activate without an attestation, and on a publication whose
\* epoch has passed.
RecoveryRaises ==
    \/ \E j \in Job : Unfinished(j) /\ Len(built[j]) = 1
    \/ \E j \in Job : Unfinished(j) /\ Current(j)
    \/ PendingFresh /\ pending.expected # shown.epoch

\* Other stages that have manifests are retired as invalid.
Retirable == {j \in Job : Unfinished(j) /\ Len(built[j]) = 2 /\ ~Current(j)}

\* Mutant: recovery does not ask whether the active closure is up to date.
QueryReadyStale ==
    \/ shown.deleted # deleted
    \/ IsLost(shown)
    \/ shown.by = None
    \/ shown.by # None /\ Current(shown.by)

\* The active closure, if there is one, passes if it is up to date and proven;
\* a tombstoned one is kept.
QueryReady ==
    \/ shown.deleted # deleted
    \/ IsLost(shown)
    \/ shown.by = None /\ shown.version = version
    \/ shown.by # None /\ Current(shown.by)

RetireStages(gone) ==
    stage' = [j \in Job |-> IF j \in gone THEN "FAILED" ELSE stage[j]]

\* Recovery gives up, after some retirements.
RecoverStopped(w) ==
    /\ main[w] = "recovering"
    /\ RecoveryRaises
    /\ \E gone \in SUBSET Retirable : RetireStages(gone)
    /\ main' = [main EXCEPT ![w] = "down"]
    /\ UNCHANGED <<ledgerVars, deletionVars, shown, jobVars, built,
                   expected, base, at, run>>

\* Recovery applies every decision; the worker serves if the scan before it
\* was healthy.  How the decisions of several starts and of running workers
\* interleave is the subject of StartupRecovery.
Recover(w) ==
    /\ main[w] = "recovering"
    /\ ~RecoveryRaises
    /\ RetireStages(Retirable)
    /\ IF PendingFresh
       THEN shown' = Published(shown.epoch + 1, version, deleted)
       ELSE UNCHANGED shown
    /\ pending' = None
    /\ main' = [main EXCEPT ![w] = IF QueryReady THEN "serving" ELSE "down"]
    /\ Go(w, IF QueryReady THEN "claim" ELSE "idle")
    /\ UNCHANGED <<version, revision, superseded, deletionVars, jobVars, built,
                   expected, base, run>>

-----------------------------------------------------------------------------
RunnerStep(w) ==
    \/ \E j \in Job : ClaimActivating(w, j) \/ ClaimQueued(w, j)
    \/ DrainEnds(w)
    \/ Read(w) \/ Begin(w) \/ Build(w) \/ Poll(w) \/ MarkVerifying(w)
    \/ VerifyStage(w) \/ Recheck(w) \/ MarkActivating(w)
    \/ ResumeStage(w) \/ Load(w) \/ Switch(w) \/ Acknowledge(w) \/ MarkSucceeded(w)
    \/ Reject(w) \/ Handle(w) \/ MarkFailed(w)

StartStep(w) == Start(w) \/ RecoverStopped(w) \/ Recover(w)

CallStep(w) ==
    \/ \E replaced \in SUBSET RollbackJob : CommitFacts(w, replaced)
    \/ ActivateFacts(w)
    \/ \E j \in DeletionJob : Delete(w, j)
    \/ \E j \in Job : Enqueue(w, j) \/ Cancel(w, j)
    \/ \E j \in RollbackJob, replaced \in SUBSET RollbackJob : Rollback(w, j, replaced)

Next == \E w \in Worker : RunnerStep(w) \/ StartStep(w) \/ CallStep(w) \/ Exit(w)

Spec == Init /\ [][Next]_vars

\* A drain takes its next step, and a client that is not served is opened
\* again.
Fairness == \A w \in Worker : WF_vars(RunnerStep(w)) /\ WF_vars(StartStep(w))

LiveSpec == Spec /\ Fairness

-----------------------------------------------------------------------------
(* Properties.                                                             *)

\* Jobs are run one by one, whoever drains the queue and however many drains
\* there are.
OneJobInFlight ==
    \A j, k \in Job :
        /\ jobState[j] \in {"running", "verifying", "activating"}
        /\ jobState[k] \in {"running", "verifying", "activating"}
        => j = k

\* A job is built by one drain only: no second one stages, verifies or fails
\* what the first is working on.
OneBuilder ==
    \A v, w \in Worker :
        /\ at[v] \in BuildStep \cup {"poll", "failing", "fail"}
        /\ at[w] \in BuildStep \cup {"poll", "failing", "fail"}
        /\ run[v] = run[w]
        => v = w

\* The state of a job is the truth about its stage: what succeeded is active,
\* and what was cancelled or failed never is.
OutcomeIsTrue ==
    \A j \in Job :
        /\ jobState[j] = "succeeded" => stage[j] = "ACTIVE"
        /\ stage[j] = "ACTIVE" => jobState[j] \in {"activating", "succeeded"}

\* A deletion is told that its rebuild is done exactly when it is.
IntentIsTrue ==
    \A j \in DeletionJob : intent[j] = "SUCCEEDED" <=> stage[j] = "ACTIVE"

\* What a deletion erased is gone once its intent is acknowledged, and no
\* publication or rebuild brings it back.
DeletionIsEffective ==
    \A j \in DeletionJob : intent[j] = "SUCCEEDED" => shown.deleted >= erased[j]

\* A rebuild that no rollback ordered never takes facts away from what is
\* published, although publications are committed and activated beside it.
RebuildKeepsFacts ==
    [][shown'.by \notin RollbackJob => shown'.version >= shown.version]_vars

\* A closure claims the version whose facts it holds: none of its artifacts was
\* built under a later ledger than the one that was read.  (A rollback's may;
\* the next property is about it.)
LabelsAreTrue ==
    shown.by \notin RollbackJob =>
        \A i \in DOMAIN shown.built : shown.built[i] = shown.version

\* What recovery lets a worker serve holds every committed fact and says so,
\* also when facts were committed while a rollback was being built.
ReadyIsComplete ==
    QueryReady /\ shown.deleted = deleted =>
        \A i \in DOMAIN shown.built : shown.version = version /\ shown.built[i] = version

\* rebuild.py: a queued job is a promise that a process can resume it after a
\* restart.  While the client keeps being served it comes to an end.
JobsFinish ==
    (\E w \in Worker : <>[](main[w] = "serving")) =>
        \A j \in Job :
            jobState[j] = "queued" ~> jobState[j] \in {"succeeded", "failed", "cancelled"}

\* docs/consultation-kb/recovery.md: when the job has succeeded, the client
\* can be queried again.
RebuildReopens ==
    \A j \in Job : jobState[j] = "succeeded" ~> \E w \in Worker : main[w] = "serving"

\* How far a job got, for whoever ordered it.
FateOf(state, stageState) ==
    CASE state = "absent" -> "none"
      [] state \in {"queued", "running", "verifying"} -> "ordered"
      [] state = "activating" /\ stageState # "ACTIVE" -> "committed"
      [] state = "activating" /\ stageState = "ACTIVE" -> "applied"
      [] state = "succeeded" -> "done"
      [] state \in {"failed", "cancelled"} -> "dropped"

Fate == [j \in Job |-> FateOf(jobState[j], stage[j])]

Requested == {j \in DeletionJob : erased[j] # 0}
Clean == {j \in Requested : erased[j] <= shown.deleted}
Acknowledged == {j \in DeletionJob : intent[j] = "SUCCEEDED"}

Queue == INSTANCE RebuildQueue WITH
    fate <- Fate, facts <- shown.version, by <- shown.by,
    requested <- Requested, clean <- Clean, acknowledged <- Acknowledged

\* rebuild.py: a resumable queue.  Drains that take over from one another, stop
\* anywhere and start again amount to jobs that are dropped, or pass the point
\* of no return one at a time and replace what is served exactly once.
ImplementsRebuildQueue == Queue!Spec

=============================================================================
