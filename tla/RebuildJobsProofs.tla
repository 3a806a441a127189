-------------------------- MODULE RebuildJobsProofs --------------------------
(***************************************************************************)
(* The safety properties of RebuildJobs for any sets of jobs and workers   *)
(* and a ledger of any length.                                             *)
(***************************************************************************)
EXTENDS RebuildJobs, TLAPS

-----------------------------------------------------------------------------
(* The inductive invariant.                                                *)

Building == BuildStep \cup {"poll", "failing", "fail"}
InFlight == {"running", "verifying", "activating"}

\* The job of a drain is where the drain is, unless it was cancelled or another
\* drain has finished it.
OnTrack(w) ==
    /\ run[w] = None <=> at[w] \in {"idle", "claim"}
    /\ main[w] \in {"down", "recovering"} => at[w] = "idle"
    /\ at[w] \in {"read", "begin", "build", "poll", "marking"} =>
           jobState[run[w]] \in {"running", "cancelled"}
    /\ at[w] \in {"verify", "recheck", "mark"} =>
           jobState[run[w]] \in {"verifying", "cancelled"}
    /\ at[w] \in {"failing", "fail"} =>
           jobState[run[w]] \in {"running", "verifying", "cancelled"}
    /\ at[w] \in ActivationStep => jobState[run[w]] \in {"activating", "succeeded"}

DrainsOnTrack == \A w \in Worker : OnTrack(w)

\* A job's artifacts are staged one after the other, once.
StagesOnTrack ==
    /\ \A j \in Job :
        /\ jobState[j] \in {"absent", "queued"} => stage[j] = "none" /\ built[j] = <<>>
        /\ stage[j] \in {"VERIFIED", "ACTIVE"} => Len(built[j]) = 2
    /\ \A w \in Worker :
        /\ at[w] \in {"read", "begin"} => stage[run[w]] = "none" /\ built[run[w]] = <<>>
        /\ at[w] = "build" => Len(built[run[w]]) <= 1
        /\ at[w] \in {"marking", "verify", "recheck", "mark"} => Len(built[run[w]]) = 2
        /\ at[w] \in {"acknowledge", "finish"} => stage[run[w]] = "ACTIVE"

\* What is shown, pending, planned and built is of the past.
NothingAhead ==
    /\ revision <= version
    /\ shown.version <= version
    /\ pending # None => pending.version <= version /\ pending.expected <= shown.epoch
    /\ \A j \in DeletionJob : erased[j] <= deleted
    /\ \A j \in Job :
        /\ bound[j].revision <= bound[j].version
        /\ bound[j].version <= version
        /\ expected[j].epoch <= shown.epoch
        /\ base[j] <= version
        /\ \A i \in DOMAIN built[j] : base[j] <= built[j][i] /\ built[j][i] <= version

\* What may still replace the epoch it expects holds at least its facts, and
\* an artifact built without a rollback is labelled with the facts it holds.
ReplacementsHoldMore ==
    /\ pending # None /\ pending.expected = shown.epoch => shown.version <= pending.version
    /\ \A j \in Job \ RollbackJob :
        /\ built[j] # <<>> /\ expected[j].epoch = shown.epoch =>
               shown.version <= bound[j].version
        /\ \A i \in DOMAIN built[j] : built[j][i] = bound[j].version

\* An epoch is still what it was made of.
ShownAsBuilt ==
    LET j == shown.by
    IN  IF j = None THEN \A i \in DOMAIN shown.built : shown.built[i] = shown.version
        ELSE /\ stage[j] = "ACTIVE"
             /\ shown.version = bound[j].version
             /\ shown.built = built[j]

RebuildInv ==
    /\ TypeOK
    /\ DrainsOnTrack
    /\ OneBuilder
    /\ OneJobInFlight
    /\ StagesOnTrack
    /\ OutcomeIsTrue
    /\ IntentIsTrue
    /\ DeletionIsEffective
    /\ NothingAhead
    /\ ReplacementsHoldMore
    /\ ShownAsBuilt

-----------------------------------------------------------------------------
(* What the steps with alternatives do.                                    *)

\* A drain past its claim has a job.
LEMMA RunIsJob ==
    ASSUME TypeOK, DrainsOnTrack, NEW w \in Worker, at[w] \notin {"idle", "claim"}
    PROVE  run[w] \in Job
BY DEF TypeOK, DrainsOnTrack, OnTrack

\* A stage is discarded or was not open; an active one stays.
Discarded(j) ==
    \/ stage' = stage
    \/ /\ stage[j] \in {"PREPARED", "VERIFIED"}
       /\ stage' = [stage EXCEPT ![j] = "FAILED"]

\* A drain leaves its job.
Left(w) ==
    /\ at' = [at EXCEPT ![w] = "claim"]
    /\ run' = [run EXCEPT ![w] = None]

\* discard_stage changes an open stage only.
LEMMA DiscardEffect ==
    ASSUME NEW j, Discard(j)
    PROVE  Discarded(j)
<1>1. CASE stage[j] \in {"PREPARED", "VERIFIED"}
  BY <1>1 DEF Discard, Discarded, SetStage
<1>2. CASE stage[j] \notin {"PREPARED", "VERIFIED"}
  BY <1>2 DEF Discard, Discarded
<1> QED BY <1>1, <1>2

\* A discarded stage is a stage.
LEMMA DiscardTyped ==
    ASSUME TypeOK, NEW j, Discarded(j)
    PROVE  stage' \in [Job -> {"none", "PREPARED", "VERIFIED", "ACTIVE", "FAILED"}]
<1>1. CASE stage' = stage
  BY <1>1 DEF TypeOK
<1>2. CASE stage' = [stage EXCEPT ![j] = "FAILED"]
  BY <1>2 DEF TypeOK
<1> QED BY <1>1, <1>2 DEF Discarded

\* A poll gives the job up or goes on.
LEMMA PollEffect ==
    ASSUME NEW w, Poll(w)
    PROVE  /\ at[w] = "poll"
           /\ Discarded(run[w])
           /\ \/ Left(w)
              \/ /\ jobState[run[w]] # "cancelled"
                 /\ at' = [at EXCEPT ![w] = IF Len(built[run[w]]) = 2 THEN "marking" ELSE "build"]
                 /\ run' = run
           /\ UNCHANGED <<ledgerVars, deletionVars, shown, jobVars, built,
                          expected, base, main>>
<1>1. CASE jobState[run[w]] = "cancelled"
  <2>1. Discard(run[w]) /\ Done(w)
    BY <1>1 DEF Poll
  <2> QED BY <2>1, DiscardEffect DEF Poll, Left, Done, Go
<1>2. CASE jobState[run[w]] # "cancelled"
  <2>1. /\ at' = [at EXCEPT ![w] = IF Len(built[run[w]]) = 2 THEN "marking" ELSE "build"]
        /\ UNCHANGED <<stage, run>>
    BY <1>2 DEF Poll, Go
  <2> QED BY <1>2, <2>1 DEF Poll, Discarded
<1> QED BY <1>1, <1>2

\* The handler of a failed build.
LEMMA HandleEffect ==
    ASSUME NEW w, Handle(w)
    PROVE  /\ at[w] = "failing"
           /\ Discarded(run[w])
           /\ \/ Left(w)
              \/ /\ jobState[run[w]] # "cancelled"
                 /\ at' = [at EXCEPT ![w] = "fail"]
                 /\ run' = run
           /\ UNCHANGED <<ledgerVars, deletionVars, shown, jobVars, built,
                          expected, base, main>>
<1>1. Discarded(run[w])
  BY DiscardEffect DEF Handle
<1>2. CASE jobState[run[w]] = "cancelled"
  <2>1. Done(w)
    BY <1>2 DEF Handle
  <2> QED BY <1>1, <2>1 DEF Handle, Left, Done, Go
<1>3. CASE jobState[run[w]] # "cancelled"
  <2>1. at' = [at EXCEPT ![w] = "fail"] /\ run' = run
    BY <1>3 DEF Handle, Go
  <2> QED BY <1>1, <1>3, <2>1 DEF Handle
<1> QED BY <1>2, <1>3

\* mark_failed takes effect or raises.
LEMMA MarkFailedEffect ==
    ASSUME NEW w, MarkFailed(w)
    PROVE  LET j == run[w]
           IN  /\ at[w] = "fail"
               /\ \/ /\ jobState[j] \in {"queued", "running", "verifying"}
                     /\ jobState' = [jobState EXCEPT ![j] = "failed"]
                     /\ intent' = intent \/ intent' = [intent EXCEPT ![j] = "FAILED"]
                     /\ Left(w)
                     /\ main' = main
                  \/ Raise(w) /\ UNCHANGED <<jobState, intent>>
               /\ UNCHANGED <<ledgerVars, deleted, erased, shown, bound, stageVars>>
<1>1. CASE jobState[run[w]] \in {"queued", "running", "verifying"}
  <2>1. SetJob(run[w], "failed") /\ SetIntent(run[w], "FAILED") /\ Done(w) /\ UNCHANGED main
    BY <1>1 DEF MarkFailed
  <2>2. intent' = intent \/ intent' = [intent EXCEPT ![run[w]] = "FAILED"]
    BY <2>1 DEF SetIntent
  <2> QED BY <1>1, <2>1, <2>2 DEF MarkFailed, SetJob, Left, Done, Go
<1>2. CASE jobState[run[w]] \notin {"queued", "running", "verifying"}
  <2>1. Raise(w) /\ UNCHANGED <<jobState, intent>>
    BY <1>2 DEF MarkFailed
  <2> QED BY <2>1 DEF MarkFailed
<1> QED BY <1>1, <1>2

\* A rejected step changes where the drain is, and the process if it started.
LEMMA RejectEffect ==
    ASSUME NEW w, Reject(w)
    PROVE  /\ at[w] \in (BuildStep \cup ActivationStep)
           /\ \/ /\ at[w] \in BuildStep
                 /\ at' = [at EXCEPT ![w] = "failing"]
                 /\ UNCHANGED <<main, run>>
              \/ Raise(w)
           /\ UNCHANGED <<ledgerVars, deletionVars, shown, jobVars, stageVars>>
<1>1. at[w] \in (BuildStep \cup ActivationStep)
  BY DEF Reject, Rejected, BuildStep, ActivationStep
<1>2. CASE at[w] \in BuildStep
  BY <1>1, <1>2 DEF Reject, Go
<1>3. CASE at[w] \notin BuildStep
  BY <1>1, <1>3 DEF Reject
<1> QED BY <1>2, <1>3

\* Recovery serves or not, and may publish what is pending.
LEMMA RecoverEffect ==
    ASSUME NEW w, Recover(w)
    PROVE  /\ main[w] = "recovering"
           /\ \/ main' = [main EXCEPT ![w] = "serving"] /\ at' = [at EXCEPT ![w] = "claim"]
              \/ main' = [main EXCEPT ![w] = "down"] /\ at' = [at EXCEPT ![w] = "idle"]
           /\ RetireStages(Retirable)
           /\ shown' = shown \/ shown' = Published(shown.epoch + 1, version, deleted)
           /\ pending' = None
           /\ UNCHANGED <<version, revision, superseded, deletionVars, jobVars, built,
                          expected, base, run>>
<1>1. \/ main' = [main EXCEPT ![w] = "serving"] /\ at' = [at EXCEPT ![w] = "claim"]
      \/ main' = [main EXCEPT ![w] = "down"] /\ at' = [at EXCEPT ![w] = "idle"]
  <2>1. CASE QueryReady
    BY <2>1 DEF Recover, Go
  <2>2. CASE ~QueryReady
    BY <2>2 DEF Recover, Go
  <2> QED BY <2>1, <2>2
<1>2. shown' = shown \/ shown' = Published(shown.epoch + 1, version, deleted)
  BY DEF Recover
<1> QED BY <1>1, <1>2 DEF Recover

\* An intent is set, if the job has one.
LEMMA IntentEffect ==
    ASSUME NEW j, NEW s, SetIntent(j, s)
    PROVE  /\ j \in DeletionJob => intent' = [intent EXCEPT ![j] = s]
           /\ j \notin DeletionJob => intent' = intent
BY DEF SetIntent

-----------------------------------------------------------------------------
(* Types.                                                                  *)

\* Every step keeps the types; a job has at most two artifacts.
LEMMA TypesStep ==
    ASSUME TypeOK, DrainsOnTrack, StagesOnTrack, [Next]_vars
    PROVE  TypeOK'
<1>1. ASSUME NEW w \in Worker, NEW j \in Job, ClaimActivating(w, j)
      PROVE  TypeOK'
  BY <1>1
    DEF ClaimActivating, Take, Go, ledgerVars, deletionVars, jobVars, stageVars,
        TypeOK, ActivationStep
<1>2. ASSUME NEW w \in Worker, NEW j \in Job, ClaimQueued(w, j)
      PROVE  TypeOK'
  BY <1>2
    DEF ClaimQueued, Take, Go, SetJob, SetIntent, ledgerVars, stageVars, TypeOK,
        BuildStep, JobState
<1>3. ASSUME NEW w \in Worker, DrainEnds(w)
      PROVE  TypeOK'
  BY <1>3 DEF DrainEnds, Go, ledgerVars, deletionVars, jobVars, stageVars, TypeOK
<1>4. ASSUME NEW w \in Worker, Read(w)
      PROVE  TypeOK'
  BY <1>4
    DEF Read, Go, ledgerVars, deletionVars, jobVars, stageVars, TypeOK, BuildStep
<1>5. ASSUME NEW w \in Worker, Begin(w)
      PROVE  TypeOK'
  BY <1>5
    DEF Begin, Go, SetStage, ledgerVars, deletionVars, jobVars, TypeOK, BuildStep
<1>6. ASSUME NEW w \in Worker, Build(w)
      PROVE  TypeOK'
  <2>1. run[w] \in Job /\ Len(built[run[w]]) <= 1
    BY <1>6, RunIsJob DEF Build, StagesOnTrack
  <2>2. /\ Append(built[run[w]], version) \in Seq(Nat)
        /\ Len(Append(built[run[w]], version)) <= 2
    BY <2>1 DEF TypeOK
  <2>3. built' = [built EXCEPT ![run[w]] = Append(@, version)]
    BY <1>6 DEF Build
  <2>4. built' \in [Job -> Seq(Nat)] /\ \A j \in Job : Len(built'[j]) <= 2
    BY <2>1, <2>2, <2>3 DEF TypeOK
  <2>5. at' \in [Worker -> {"idle", "claim", "poll", "failing", "fail"}
                               \cup BuildStep \cup ActivationStep]
    BY <1>6 DEF TypeOK, Build, Go
  <2> QED
    BY <1>6, <2>4, <2>5
      DEF TypeOK, Build, ledgerVars, deletionVars, jobVars, stageVars,
          processVars
<1>7. ASSUME NEW w \in Worker, Poll(w)
      PROVE  TypeOK'
  <2>1. stage' \in [Job -> {"none", "PREPARED", "VERIFIED", "ACTIVE", "FAILED"}]
    <3>1. Discarded(run[w])
      BY <1>7, PollEffect
    <3> QED BY <3>1, DiscardTyped
  <2>2. /\ \E s \in {"claim", "marking", "build"} : at' = [at EXCEPT ![w] = s]
        /\ run' = run \/ run' = [run EXCEPT ![w] = None]
    BY <1>7, PollEffect DEF Left
  <2>3. /\ at' \in [Worker -> {"idle", "claim", "poll", "failing", "fail"}
                                  \cup BuildStep \cup ActivationStep]
        /\ run' \in [Worker -> Job \cup {None}]
    BY <2>2 DEF TypeOK, BuildStep
  <2> QED
    BY <1>7, <2>1, <2>3, PollEffect
      DEF TypeOK, ledgerVars, deletionVars, jobVars, stageVars, processVars
<1>8. ASSUME NEW w \in Worker, MarkVerifying(w)
      PROVE  TypeOK'
  BY <1>8
    DEF MarkVerifying, Go, SetJob, ledgerVars, deletionVars, stageVars, TypeOK,
        BuildStep, JobState
<1>9. ASSUME NEW w \in Worker, VerifyStage(w)
      PROVE  TypeOK'
  BY <1>9
    DEF VerifyStage, Go, SetStage, ledgerVars, deletionVars, jobVars, TypeOK,
        BuildStep
<1>10. ASSUME NEW w \in Worker, Recheck(w)
      PROVE  TypeOK'
  BY <1>10
    DEF Recheck, Go, ledgerVars, deletionVars, jobVars, stageVars, TypeOK,
        BuildStep
<1>11. ASSUME NEW w \in Worker, MarkActivating(w)
      PROVE  TypeOK'
  BY <1>11
    DEF MarkActivating, Go, SetJob, ledgerVars, deletionVars, stageVars, TypeOK,
        ActivationStep, JobState
<1>12. ASSUME NEW w \in Worker, ResumeStage(w)
      PROVE  TypeOK'
  BY <1>12
    DEF ResumeStage, Go, ledgerVars, deletionVars, jobVars, stageVars, TypeOK,
        ActivationStep
<1>13. ASSUME NEW w \in Worker, Load(w)
      PROVE  TypeOK'
  BY <1>13
    DEF Load, Go, ledgerVars, deletionVars, jobVars, stageVars, TypeOK,
        ActivationStep
<1>14. ASSUME NEW w \in Worker, Switch(w)
      PROVE  TypeOK'
  <2>1. run[w] \in Job
    BY <1>14, RunIsJob DEF Switch
  <2>2. at' \in [Worker -> {"idle", "claim", "poll", "failing", "fail"}
                               \cup BuildStep \cup ActivationStep]
    BY <1>14 DEF TypeOK, Switch, Go, ActivationStep
  <2>3. stage' \in [Job -> {"none", "PREPARED", "VERIFIED", "ACTIVE", "FAILED"}]
    BY <1>14, <2>1 DEF TypeOK, Switch, SetStage
  <2>4. shown' \in Closure
    <3>1. /\ shown' = Replaced(run[w])
          /\ shown.epoch \in Nat /\ built[run[w]] \in Seq(Nat)
          /\ bound[run[w]] \in Authority
      BY <1>14, <2>1 DEF TypeOK, Switch, Closure
    <3> QED BY <2>1, <3>1 DEF Replaced, Closure, Authority
  <2>5. intent' \in [DeletionJob -> {"none", "PENDING", "CLAIMED", "FAILED", "SUCCEEDED"}]
    BY <1>14, <2>1 DEF TypeOK, Switch, SetIntent
  <2> QED
    BY <1>14, <2>1, <2>2, <2>3, <2>4, <2>5
      DEF TypeOK, Switch, ledgerVars, deletionVars, jobVars, stageVars,
          processVars
<1>15. ASSUME NEW w \in Worker, Acknowledge(w)
      PROVE  TypeOK'
  BY <1>15
    DEF Acknowledge, Go, SetIntent, ledgerVars, jobVars, stageVars, TypeOK,
        ActivationStep
<1>16. ASSUME NEW w \in Worker, MarkSucceeded(w)
      PROVE  TypeOK'
  <2>1. run[w] \in Job
    BY <1>16, RunIsJob DEF MarkSucceeded
  <2>2. at' \in [Worker -> {"idle", "claim", "poll", "failing", "fail"}
                               \cup BuildStep \cup ActivationStep]
    BY <1>16, <2>1 DEF TypeOK, MarkSucceeded, Go, Done, SetJob
  <2>3. run' \in [Worker -> Job \cup {None}]
    BY <1>16, <2>1 DEF TypeOK, MarkSucceeded, Go, Done, SetJob
  <2>4. jobState' \in [Job -> JobState]
    <3>1. jobState' = jobState \/ jobState' = [jobState EXCEPT ![run[w]] = "succeeded"]
      BY <1>16 DEF MarkSucceeded, SetJob
    <3> QED BY <3>1 DEF TypeOK, JobState
  <2> QED
    BY <1>16, <2>1, <2>2, <2>3, <2>4
      DEF TypeOK, MarkSucceeded, ledgerVars, deletionVars, jobVars, stageVars,
          processVars
<1>17. ASSUME NEW w \in Worker, Reject(w)
      PROVE  TypeOK'
  <2>1. /\ \E s \in {"idle", "failing"} : at' = [at EXCEPT ![w] = s]
        /\ run' = run \/ run' = [run EXCEPT ![w] = None]
    BY <1>17, RejectEffect DEF Raise, Go
  <2>2. /\ at' \in [Worker -> {"idle", "claim", "poll", "failing", "fail"}
                                  \cup BuildStep \cup ActivationStep]
        /\ run' \in [Worker -> Job \cup {None}]
    BY <2>1 DEF TypeOK
  <2>3. main' \in [Worker -> {"down", "draining", "recovering", "serving"}]
    <3>1. CASE main' = main
      BY <3>1 DEF TypeOK
    <3>2. CASE Raise(w)
      BY <3>2 DEF Raise, TypeOK
    <3> QED BY <1>17, <3>1, <3>2, RejectEffect
  <2> QED
    BY <1>17, <2>2, <2>3, RejectEffect DEF TypeOK, ledgerVars, deletionVars, jobVars, stageVars
<1>18. ASSUME NEW w \in Worker, Handle(w)
      PROVE  TypeOK'
  <2>1. stage' \in [Job -> {"none", "PREPARED", "VERIFIED", "ACTIVE", "FAILED"}]
    <3>1. Discarded(run[w])
      BY <1>18, HandleEffect
    <3> QED BY <3>1, DiscardTyped
  <2>2. /\ \E s \in {"claim", "fail"} : at' = [at EXCEPT ![w] = s]
        /\ run' = run \/ run' = [run EXCEPT ![w] = None]
    BY <1>18, HandleEffect DEF Left
  <2>3. /\ at' \in [Worker -> {"idle", "claim", "poll", "failing", "fail"}
                                  \cup BuildStep \cup ActivationStep]
        /\ run' \in [Worker -> Job \cup {None}]
    BY <2>2 DEF TypeOK, BuildStep
  <2> QED
    BY <1>18, <2>1, <2>3, HandleEffect
      DEF TypeOK, ledgerVars, deletionVars, jobVars, stageVars, processVars
<1>19. ASSUME NEW w \in Worker, MarkFailed(w)
      PROVE  TypeOK'
  <2>1. CASE Left(w) /\ UNCHANGED main
    <3>1. at' \in [Worker -> {"idle", "claim", "poll", "failing", "fail"}
                                 \cup BuildStep \cup ActivationStep]
      BY <2>1 DEF Left, TypeOK
    <3>2. run' \in [Worker -> Job \cup {None}]
      BY <2>1 DEF Left, TypeOK
    <3>3. /\ jobState' \in [Job -> JobState]
          /\ intent' \in [DeletionJob -> {"none", "PENDING", "CLAIMED", "FAILED", "SUCCEEDED"}]
      <4>1. jobState' \in [Job -> JobState]
        <5>1. \/ jobState' = jobState
              \/ jobState' = [jobState EXCEPT ![run[w]] = "failed"]
          BY <1>19, MarkFailedEffect
        <5> QED BY <5>1 DEF TypeOK, JobState
      <4>2. \/ intent' = intent
            \/ intent' = [intent EXCEPT ![run[w]] = "FAILED"]
        BY <1>19, MarkFailedEffect
      <4> QED BY <4>1, <4>2 DEF TypeOK
    <3> QED
      BY <1>19, <2>1, <3>1, <3>2, <3>3, MarkFailedEffect
        DEF TypeOK, ledgerVars, deletionVars, jobVars, stageVars, processVars
  <2>2. CASE Raise(w) /\ UNCHANGED <<jobState, intent>>
    BY <1>19, <2>2, MarkFailedEffect DEF Raise, Go, TypeOK, ledgerVars, stageVars
  <2> QED BY <1>19, <2>1, <2>2, MarkFailedEffect
<1>20. ASSUME NEW w \in Worker, Start(w)
      PROVE  TypeOK'
  BY <1>20 DEF Start, Go, ledgerVars, deletionVars, jobVars, stageVars, TypeOK
<1>21. ASSUME NEW w \in Worker, RecoverStopped(w)
      PROVE  TypeOK'
  BY <1>21
    DEF RecoverStopped, RetireStages, ledgerVars, deletionVars, jobVars, TypeOK
<1>22. ASSUME NEW w \in Worker, Recover(w)
      PROVE  TypeOK'
  <2>1. Published(shown.epoch + 1, version, deleted) \in Closure
    BY DEF TypeOK, Published, Closure
  <2>2. stage' \in [Job -> {"none", "PREPARED", "VERIFIED", "ACTIVE", "FAILED"}]
    BY <1>22, RecoverEffect DEF RetireStages, TypeOK
  <2>3. /\ main' \in [Worker -> {"down", "draining", "recovering", "serving"}]
        /\ at' \in [Worker -> {"idle", "claim", "poll", "failing", "fail"}
                                  \cup BuildStep \cup ActivationStep]
    BY <1>22, RecoverEffect DEF TypeOK
  <2>4. shown' \in Closure /\ pending' = None
    BY <1>22, <2>1, RecoverEffect DEF TypeOK
  <2> QED
    BY <1>22, <2>2, <2>3, <2>4, RecoverEffect
      DEF TypeOK, ledgerVars, deletionVars, jobVars, stageVars, processVars
<1>23. ASSUME NEW w \in Worker, NEW replaced \in SUBSET RollbackJob, CommitFacts(w, replaced)
      PROVE  TypeOK'
  <2>1. superseded' \subseteq RollbackJob
    BY <1>23 DEF TypeOK, CommitFacts
  <2>2. pending' \in [version : Nat, deleted : Nat, expected : Nat] \cup {None}
    BY <1>23 DEF TypeOK, CommitFacts, Closure
  <2> QED
    BY <1>23, <2>1, <2>2
      DEF TypeOK, CommitFacts, ledgerVars, deletionVars, jobVars, stageVars,
          processVars
<1>24. ASSUME NEW w \in Worker, ActivateFacts(w)
      PROVE  TypeOK'
  <2>1. shown' \in Closure
    BY <1>24 DEF TypeOK, ActivateFacts, Published, Closure
  <2> QED
    BY <1>24, <2>1
      DEF TypeOK, ActivateFacts, ledgerVars, deletionVars, jobVars, stageVars,
          processVars
<1>25. ASSUME NEW w \in Worker, NEW j \in DeletionJob, Delete(w, j)
      PROVE  TypeOK'
  <2>1. erased' \in [DeletionJob -> Nat]
    BY <1>25 DEF TypeOK, Delete
  <2>2. intent' \in [DeletionJob -> {"none", "PENDING", "CLAIMED", "FAILED", "SUCCEEDED"}]
    BY <1>25 DEF TypeOK, Delete
  <2> QED
    BY <1>25, <2>1, <2>2
      DEF TypeOK, Delete, ledgerVars, deletionVars, jobVars, stageVars,
          processVars
<1>26. ASSUME NEW w \in Worker, NEW j \in Job, Enqueue(w, j)
      PROVE  TypeOK'
  BY <1>26
    DEF Enqueue, SetJob, StartThread, Snapshot, ledgerVars, deletionVars,
        stageVars, TypeOK, Authority, JobState
<1>27. ASSUME NEW w \in Worker, NEW j \in Job, Cancel(w, j)
      PROVE  TypeOK'
  BY <1>27
    DEF Cancel, SetJob, ledgerVars, deletionVars, stageVars, processVars, TypeOK,
        JobState
<1>28. ASSUME NEW w \in Worker, NEW j \in RollbackJob, NEW replaced \in SUBSET RollbackJob,
             Rollback(w, j, replaced)
      PROVE  TypeOK'
  <2>1. [Snapshot EXCEPT !.version = version + 1] \in Authority
    <3>1. [Snapshot EXCEPT !.version = version + 1] =
              [version |-> version + 1, revision |-> revision, deleted |-> deleted]
      BY DEF Snapshot
    <3> QED BY <3>1 DEF TypeOK, Authority
  <2>2. superseded' \subseteq RollbackJob
    BY <1>28 DEF TypeOK, Rollback
  <2>3. bound' \in [Job -> Authority]
    BY <1>28, <2>1 DEF TypeOK, Rollback
  <2>4. /\ jobState' \in [Job -> JobState]
        /\ at' \in [Worker -> {"idle", "claim", "poll", "failing", "fail"}
                                  \cup BuildStep \cup ActivationStep]
    BY <1>28 DEF TypeOK, Rollback, SetJob, StartThread, JobState
  <2> QED
    BY <1>28, <2>2, <2>3, <2>4
      DEF TypeOK, Rollback, ledgerVars, deletionVars, jobVars, stageVars,
          processVars
<1>29. ASSUME NEW w \in Worker, Exit(w)
      PROVE  TypeOK'
  BY <1>29 DEF Exit, Go, ledgerVars, deletionVars, jobVars, stageVars, TypeOK
<1>30. CASE UNCHANGED vars
  BY <1>30
    DEF vars, ledgerVars, deletionVars, jobVars, stageVars, processVars, TypeOK
<1> QED
  BY <1>1, <1>2, <1>3, <1>4, <1>5, <1>6, <1>7, <1>8, <1>9, <1>10, <1>11, <1>12,
     <1>13, <1>14, <1>15, <1>16, <1>17, <1>18, <1>19, <1>20, <1>21, <1>22, <1>23,
     <1>24, <1>25, <1>26, <1>27, <1>28, <1>29, <1>30
  DEF Next, RunnerStep, StartStep, CallStep

-----------------------------------------------------------------------------
(* Drains and jobs.                                                        *)

\* A drain leaves its job, or ends by an exception.
LEMMA DrainLeaves ==
    ASSUME TypeOK, DrainsOnTrack, NEW w \in Worker, at[w] # "idle",
           Left(w), UNCHANGED <<jobState, main>>
    PROVE  DrainsOnTrack'
<1>1. /\ at \in [Worker -> {"idle", "claim", "poll", "failing", "fail"}
                               \cup BuildStep \cup ActivationStep]
      /\ run \in [Worker -> Job \cup {None}]
  BY DEF TypeOK
<1>2. ASSUME NEW v \in Worker, v # w
      PROVE  at'[v] = at[v] /\ run'[v] = run[v]
  BY <1>1, <1>2 DEF Left
<1>3. at'[w] = "claim" /\ run'[w] = None
  BY <1>1 DEF Left
<1> QED BY <1>2, <1>3 DEF DrainsOnTrack, OnTrack, ActivationStep

\* An exception takes the drain off its job.
LEMMA DrainRaises ==
    ASSUME TypeOK, DrainsOnTrack, NEW w \in Worker, Raise(w), UNCHANGED jobState
    PROVE  DrainsOnTrack'
<1>1. /\ at \in [Worker -> {"idle", "claim", "poll", "failing", "fail"}
                              \cup BuildStep \cup ActivationStep]
      /\ run \in [Worker -> Job \cup {None}]
      /\ main \in [Worker -> {"down", "draining", "recovering", "serving"}]
  BY DEF TypeOK
<1>2. ASSUME NEW v \in Worker, v # w
      PROVE  at'[v] = at[v] /\ run'[v] = run[v] /\ main'[v] = main[v]
  BY <1>1, <1>2 DEF Raise, Go
<1>3. at'[w] = "idle" /\ run'[w] = None
  BY <1>1 DEF Raise, Go
<1> QED BY <1>2, <1>3 DEF DrainsOnTrack, OnTrack, ActivationStep

\* A drain goes to a step that suits its job.
LEMMA DrainGoes ==
    ASSUME TypeOK, DrainsOnTrack, NEW w \in Worker, at[w] \notin {"idle", "claim"},
           NEW s, Go(w, s), UNCHANGED <<jobState, main, run>>,
           \/ s \in {"begin", "build", "poll", "marking"} /\ jobState[run[w]] \in {"running", "cancelled"}
           \/ s \in {"failing", "fail"} /\ jobState[run[w]] \in {"running", "verifying", "cancelled"}
    PROVE  DrainsOnTrack'
<1>1. at \in [Worker -> {"idle", "claim", "poll", "failing", "fail"}
                            \cup BuildStep \cup ActivationStep]
  BY DEF TypeOK
<1>2. ASSUME NEW v \in Worker, v # w
      PROVE  at'[v] = at[v]
  BY <1>1, <1>2 DEF Go
<1>3. at'[w] = s
  BY <1>1 DEF Go
<1> QED BY <1>2, <1>3 DEF DrainsOnTrack, OnTrack, ActivationStep

\* A drain that stops building, or whose job nobody builds.
LEMMA BuilderMoves ==
    ASSUME TypeOK, OneBuilder, NEW w \in Worker, NEW s,
           at' = [at EXCEPT ![w] = s], s \notin Building,
           \A v \in Worker : v # w => run'[v] = run[v]
    PROVE  OneBuilder'
<1>1. at \in [Worker -> {"idle", "claim", "poll", "failing", "fail"}
                            \cup BuildStep \cup ActivationStep]
  BY DEF TypeOK
<1>2. at'[w] = s /\ \A v \in Worker : v # w => at'[v] = at[v]
  BY <1>1
<1> QED BY <1>2 DEF OneBuilder, Building

\* A drain and its job stay together: others cancel the job or finish it, no
\* more.
LEMMA DrainsStep ==
    ASSUME TypeOK, DrainsOnTrack, OneBuilder, [Next]_vars
    PROVE  DrainsOnTrack'
<1>1. ASSUME NEW w \in Worker, NEW j \in Job, ClaimActivating(w, j)
      PROVE  DrainsOnTrack'
  BY <1>1, NoneIsNoJob
    DEF ClaimActivating, Take, Go, jobVars, TypeOK, DrainsOnTrack, OnTrack,
        OneBuilder
<1>2. ASSUME NEW w \in Worker, NEW j \in Job, ClaimQueued(w, j)
      PROVE  DrainsOnTrack'
  BY <1>2, NoneIsNoJob
    DEF ClaimQueued, Take, Go, SetJob, TypeOK, DrainsOnTrack, OnTrack,
        OneBuilder, ActivationStep
<1>3. ASSUME NEW w \in Worker, DrainEnds(w)
      PROVE  DrainsOnTrack'
  BY <1>3
    DEF DrainEnds, Go, jobVars, TypeOK, DrainsOnTrack, OnTrack, OneBuilder,
        ActivationStep
<1>4. ASSUME NEW w \in Worker, Read(w)
      PROVE  DrainsOnTrack'
  BY <1>4
    DEF Read, Go, jobVars, TypeOK, DrainsOnTrack, OnTrack, OneBuilder,
        ActivationStep
<1>5. ASSUME NEW w \in Worker, Begin(w)
      PROVE  DrainsOnTrack'
  BY <1>5
    DEF Begin, Go, jobVars, TypeOK, DrainsOnTrack, OnTrack, OneBuilder,
        ActivationStep
<1>6. ASSUME NEW w \in Worker, Build(w)
      PROVE  DrainsOnTrack'
  BY <1>6
    DEF Build, Go, jobVars, TypeOK, DrainsOnTrack, OnTrack, OneBuilder,
        ActivationStep
<1>7. ASSUME NEW w \in Worker, Poll(w)
      PROVE  DrainsOnTrack'
  <2>1. /\ at[w] = "poll"
        /\ UNCHANGED <<jobState, main>>
        /\ jobState[run[w]] \in {"running", "cancelled"}
    BY <1>7, PollEffect DEF jobVars, DrainsOnTrack, OnTrack
  <2>2. CASE Left(w)
    BY <2>1, <2>2, DrainLeaves
  <2>3. CASE run' = run /\ \E s \in {"marking", "build"} : Go(w, s)
    BY <2>1, <2>3, DrainGoes
  <2> QED BY <1>7, <2>2, <2>3, PollEffect DEF Go
<1>8. ASSUME NEW w \in Worker, MarkVerifying(w)
      PROVE  DrainsOnTrack'
  BY <1>8
    DEF MarkVerifying, Go, SetJob, TypeOK, DrainsOnTrack, OnTrack, OneBuilder,
        ActivationStep
<1>9. ASSUME NEW w \in Worker, VerifyStage(w)
      PROVE  DrainsOnTrack'
  BY <1>9
    DEF VerifyStage, Go, jobVars, TypeOK, DrainsOnTrack, OnTrack, OneBuilder,
        ActivationStep
<1>10. ASSUME NEW w \in Worker, Recheck(w)
      PROVE  DrainsOnTrack'
  BY <1>10
    DEF Recheck, Go, jobVars, TypeOK, DrainsOnTrack, OnTrack, OneBuilder,
        ActivationStep
<1>11. ASSUME NEW w \in Worker, MarkActivating(w)
      PROVE  DrainsOnTrack'
  BY <1>11
    DEF MarkActivating, Go, SetJob, TypeOK, DrainsOnTrack, OnTrack, OneBuilder,
        BuildStep
<1>12. ASSUME NEW w \in Worker, ResumeStage(w)
      PROVE  DrainsOnTrack'
  BY <1>12
    DEF ResumeStage, Go, jobVars, TypeOK, DrainsOnTrack, OnTrack, OneBuilder,
        BuildStep
<1>13. ASSUME NEW w \in Worker, Load(w)
      PROVE  DrainsOnTrack'
  BY <1>13
    DEF Load, Go, jobVars, TypeOK, DrainsOnTrack, OnTrack, OneBuilder, BuildStep
<1>14. ASSUME NEW w \in Worker, Switch(w)
      PROVE  DrainsOnTrack'
  BY <1>14
    DEF Switch, Go, Replaced, MaySwitch, Authorised, jobVars, TypeOK,
        DrainsOnTrack, OnTrack, OneBuilder
<1>15. ASSUME NEW w \in Worker, Acknowledge(w)
      PROVE  DrainsOnTrack'
  BY <1>15
    DEF Acknowledge, Go, jobVars, TypeOK, DrainsOnTrack, OnTrack, OneBuilder,
        BuildStep
<1>16. ASSUME NEW w \in Worker, MarkSucceeded(w)
      PROVE  DrainsOnTrack'
  BY <1>16
    DEF MarkSucceeded, Go, Done, SetJob, TypeOK, DrainsOnTrack, OnTrack,
        OneBuilder, ActivationStep
<1>17. ASSUME NEW w \in Worker, Reject(w)
      PROVE  DrainsOnTrack'
  <2>1. UNCHANGED jobState
    BY <1>17, RejectEffect DEF jobVars
  <2>2. CASE at[w] \in BuildStep /\ Go(w, "failing") /\ UNCHANGED <<main, run>>
    <3>1. /\ at[w] \notin {"idle", "claim"}
          /\ jobState[run[w]] \in {"running", "verifying", "cancelled"}
      BY <2>2 DEF DrainsOnTrack, OnTrack, BuildStep
    <3> QED BY <2>1, <2>2, <3>1, DrainGoes
  <2>3. CASE Raise(w)
    BY <2>1, <2>3, DrainRaises
  <2> QED BY <1>17, <2>2, <2>3, RejectEffect DEF Go
<1>18. ASSUME NEW w \in Worker, Handle(w)
      PROVE  DrainsOnTrack'
  <2>1. /\ at[w] = "failing"
        /\ UNCHANGED <<jobState, main>>
        /\ jobState[run[w]] \in {"running", "verifying", "cancelled"}
    BY <1>18, HandleEffect DEF jobVars, DrainsOnTrack, OnTrack
  <2>2. CASE Left(w)
    BY <2>1, <2>2, DrainLeaves
  <2>3. CASE run' = run /\ Go(w, "fail")
    BY <2>1, <2>3, DrainGoes
  <2> QED BY <1>18, <2>2, <2>3, HandleEffect DEF Go
<1>19. ASSUME NEW w \in Worker, MarkFailed(w)
      PROVE  DrainsOnTrack'
  <2>1. CASE /\ jobState[run[w]] \in {"queued", "running", "verifying"}
             /\ jobState' = [jobState EXCEPT ![run[w]] = "failed"]
             /\ Left(w)
             /\ main' = main
    <3>1. /\ at[w] = "fail"
          /\ run[w] \in Job
          /\ jobState \in [Job -> JobState]
          /\ at \in [Worker -> {"idle", "claim", "poll", "failing", "fail"}
                                   \cup BuildStep \cup ActivationStep]
          /\ run \in [Worker -> Job \cup {None}]
      BY <1>19, MarkFailedEffect, RunIsJob DEF TypeOK
    <3>2. at'[w] = "claim" /\ run'[w] = None
      BY <2>1, <3>1 DEF Left
    <3>3. ASSUME NEW v \in Worker, v # w
          PROVE  /\ at'[v] = at[v] /\ run'[v] = run[v]
                 /\ at[v] \notin {"idle", "claim"} => jobState'[run[v]] = jobState[run[v]]
      <4>1. at'[v] = at[v] /\ run'[v] = run[v]
        BY <2>1, <3>1, <3>3 DEF Left
      <4>2. ASSUME at[v] \notin {"idle", "claim"}
            PROVE  run[v] # run[w]
        <5>1. CASE at[v] \in Building
          BY <5>1, <3>1, <3>3 DEF OneBuilder, Building
        <5>2. CASE at[v] \in ActivationStep
          BY <5>2, <2>1 DEF DrainsOnTrack, OnTrack
        <5> QED BY <4>2, <3>1, <5>1, <5>2 DEF Building
      <4> QED BY <2>1, <3>1, <4>1, <4>2
    <3>4. /\ main' = main
          /\ \A v \in Worker : v # w => at'[v] = at[v] /\ run'[v] = run[v]
          /\ \A v \in Worker : v # w /\ at[v] \notin {"idle", "claim"} =>
                 jobState'[run'[v]] = jobState[run[v]]
      BY <2>1, <3>3
    <3>5. OnTrack(w)'
      BY <3>2, <3>4, <1>19 DEF DrainsOnTrack, OnTrack, ActivationStep, MarkFailed
    <3>6. ASSUME NEW v \in Worker, v # w
          PROVE  OnTrack(v)'
      <4>1. OnTrack(v)
        BY DEF DrainsOnTrack
      <4>2. /\ at'[v] = at[v] /\ run'[v] = run[v] /\ main'[v] = main[v]
            /\ at[v] \notin {"idle", "claim"} => jobState'[run'[v]] = jobState[run[v]]
        BY <3>4, <3>6
      <4> QED BY <4>1, <4>2 DEF OnTrack, ActivationStep
    <3> QED BY <3>5, <3>6 DEF DrainsOnTrack
  <2>2. CASE Raise(w) /\ UNCHANGED <<jobState, intent>>
    BY <2>2, DrainRaises
  <2> QED BY <1>19, <2>1, <2>2, MarkFailedEffect
<1>20. ASSUME NEW w \in Worker, Start(w)
      PROVE  DrainsOnTrack'
  BY <1>20
    DEF Start, Go, jobVars, TypeOK, DrainsOnTrack, OnTrack, OneBuilder,
        ActivationStep
<1>21. ASSUME NEW w \in Worker, RecoverStopped(w)
      PROVE  DrainsOnTrack'
  BY <1>21
    DEF RecoverStopped, RetireStages, jobVars, TypeOK, DrainsOnTrack, OnTrack,
        OneBuilder
<1>22. ASSUME NEW w \in Worker, Recover(w)
      PROVE  DrainsOnTrack'
  <2>1. at[w] = "idle" /\ run[w] = None
    BY <1>22, RecoverEffect DEF DrainsOnTrack, OnTrack
  <2>2. /\ at'[w] \in {"idle", "claim"}
        /\ at'[w] = "claim" => main'[w] = "serving"
    BY <1>22, RecoverEffect DEF TypeOK
  <2>3. ASSUME NEW v \in Worker, v # w
        PROVE  at'[v] = at[v] /\ main'[v] = main[v]
    <3>1. \E a, m : at' = [at EXCEPT ![w] = a] /\ main' = [main EXCEPT ![w] = m]
      BY <1>22, RecoverEffect
    <3> QED BY <2>3, <3>1 DEF TypeOK
  <2>4. UNCHANGED <<jobState, run>>
    BY <1>22, RecoverEffect DEF jobVars
  <2> QED BY <2>1, <2>2, <2>3, <2>4 DEF DrainsOnTrack, OnTrack, ActivationStep
<1>23. ASSUME NEW w \in Worker, NEW replaced \in SUBSET RollbackJob, CommitFacts(w, replaced)
      PROVE  DrainsOnTrack'
  BY <1>23
    DEF CommitFacts, jobVars, processVars, TypeOK, DrainsOnTrack, OnTrack,
        OneBuilder
<1>24. ASSUME NEW w \in Worker, ActivateFacts(w)
      PROVE  DrainsOnTrack'
  BY <1>24
    DEF ActivateFacts, Published, jobVars, processVars, TypeOK, DrainsOnTrack,
        OnTrack, OneBuilder
<1>25. ASSUME NEW w \in Worker, NEW j \in DeletionJob, Delete(w, j)
      PROVE  DrainsOnTrack'
  BY <1>25
    DEF Delete, jobVars, processVars, TypeOK, DrainsOnTrack, OnTrack, OneBuilder
<1>26. ASSUME NEW w \in Worker, NEW j \in Job, Enqueue(w, j)
      PROVE  DrainsOnTrack'
  BY <1>26
    DEF Enqueue, SetJob, StartThread, TypeOK, DrainsOnTrack, OnTrack, OneBuilder,
        ActivationStep
<1>27. ASSUME NEW w \in Worker, NEW j \in Job, Cancel(w, j)
      PROVE  DrainsOnTrack'
  BY <1>27
    DEF Cancel, SetJob, processVars, TypeOK, DrainsOnTrack, OnTrack, OneBuilder
<1>28. ASSUME NEW w \in Worker, NEW j \in RollbackJob, NEW replaced \in SUBSET RollbackJob,
             Rollback(w, j, replaced)
      PROVE  DrainsOnTrack'
  BY <1>28
    DEF Rollback, SetJob, StartThread, TypeOK, DrainsOnTrack, OnTrack,
        OneBuilder, ActivationStep
<1>29. ASSUME NEW w \in Worker, Exit(w)
      PROVE  DrainsOnTrack'
  BY <1>29
    DEF Exit, Go, jobVars, TypeOK, DrainsOnTrack, OnTrack, OneBuilder,
        ActivationStep
<1>30. CASE UNCHANGED vars
  BY <1>30
    DEF vars, jobVars, processVars, TypeOK, DrainsOnTrack, OnTrack, OneBuilder
<1> QED
  BY <1>1, <1>2, <1>3, <1>4, <1>5, <1>6, <1>7, <1>8, <1>9, <1>10, <1>11, <1>12,
     <1>13, <1>14, <1>15, <1>16, <1>17, <1>18, <1>19, <1>20, <1>21, <1>22, <1>23,
     <1>24, <1>25, <1>26, <1>27, <1>28, <1>29, <1>30
  DEF Next, RunnerStep, StartStep, CallStep

\* A queued job is claimed by one drain, and built by it alone.
LEMMA BuilderStep ==
    ASSUME TypeOK, DrainsOnTrack, OneBuilder, [Next]_vars
    PROVE  OneBuilder'
<1>1. ASSUME NEW w \in Worker, NEW j \in Job, ClaimActivating(w, j)
      PROVE  OneBuilder'
  BY <1>1
    DEF ClaimActivating, Take, Go, TypeOK, DrainsOnTrack, OnTrack, OneBuilder,
        BuildStep
<1>2. ASSUME NEW w \in Worker, NEW j \in Job, ClaimQueued(w, j)
      PROVE  OneBuilder'
  <2>1. /\ at' = [at EXCEPT ![w] = "read"]
        /\ run' = [run EXCEPT ![w] = j]
        /\ at[w] = "claim"
        /\ jobState[j] = "queued"
    BY <1>2 DEF ClaimQueued, Take, Go
  <2>2. /\ at'[w] = "read" /\ run'[w] = j
        /\ \A v \in Worker : v # w => at'[v] = at[v] /\ run'[v] = run[v]
    BY <2>1 DEF TypeOK
  <2>3. ASSUME NEW v \in Worker, at[v] \in Building
        PROVE  run[v] # j
    BY <2>1, <2>3 DEF DrainsOnTrack, OnTrack, Building, BuildStep
  <2> QED BY <2>2, <2>3 DEF OneBuilder, Building
<1>3. ASSUME NEW w \in Worker, DrainEnds(w)
      PROVE  OneBuilder'
  BY <1>3 DEF DrainEnds, Go, TypeOK, DrainsOnTrack, OnTrack, OneBuilder, BuildStep
<1>4. ASSUME NEW w \in Worker, Read(w)
      PROVE  OneBuilder'
  BY <1>4 DEF Read, Go, TypeOK, DrainsOnTrack, OnTrack, OneBuilder, BuildStep
<1>5. ASSUME NEW w \in Worker, Begin(w)
      PROVE  OneBuilder'
  BY <1>5 DEF Begin, Go, TypeOK, DrainsOnTrack, OnTrack, OneBuilder, BuildStep
<1>6. ASSUME NEW w \in Worker, Build(w)
      PROVE  OneBuilder'
  BY <1>6 DEF Build, Go, TypeOK, DrainsOnTrack, OnTrack, OneBuilder, BuildStep
<1>7. ASSUME NEW w \in Worker, Poll(w)
      PROVE  OneBuilder'
  <2>1. CASE Left(w)
    BY <1>7, <2>1, PollEffect
      DEF Left, Discarded, TypeOK, DrainsOnTrack, OnTrack, OneBuilder, BuildStep
  <2>2. CASE /\ jobState[run[w]] # "cancelled"
            /\ at' = [at EXCEPT ![w] = IF Len(built[run[w]]) = 2 THEN "marking" ELSE "build"]
            /\ run' = run
    BY <1>7, <2>2, PollEffect
      DEF Discarded, TypeOK, DrainsOnTrack, OnTrack, OneBuilder
  <2> QED BY <1>7, <2>1, <2>2, PollEffect
<1>8. ASSUME NEW w \in Worker, MarkVerifying(w)
      PROVE  OneBuilder'
  BY <1>8
    DEF MarkVerifying, Go, TypeOK, DrainsOnTrack, OnTrack, OneBuilder, BuildStep
<1>9. ASSUME NEW w \in Worker, VerifyStage(w)
      PROVE  OneBuilder'
  BY <1>9 DEF VerifyStage, Go, TypeOK, DrainsOnTrack, OnTrack, OneBuilder, BuildStep
<1>10. ASSUME NEW w \in Worker, Recheck(w)
      PROVE  OneBuilder'
  BY <1>10 DEF Recheck, Go, TypeOK, DrainsOnTrack, OnTrack, OneBuilder, BuildStep
<1>11. ASSUME NEW w \in Worker, MarkActivating(w)
      PROVE  OneBuilder'
  BY <1>11
    DEF MarkActivating, Go, TypeOK, DrainsOnTrack, OnTrack, OneBuilder, BuildStep
<1>12. ASSUME NEW w \in Worker, ResumeStage(w)
      PROVE  OneBuilder'
  BY <1>12
    DEF ResumeStage, Go, TypeOK, DrainsOnTrack, OnTrack, OneBuilder, BuildStep
<1>13. ASSUME NEW w \in Worker, Load(w)
      PROVE  OneBuilder'
  BY <1>13 DEF Load, Go, TypeOK, DrainsOnTrack, OnTrack, OneBuilder, BuildStep
<1>14. ASSUME NEW w \in Worker, Switch(w)
      PROVE  OneBuilder'
  BY <1>14
    DEF Switch, Go, Replaced, MaySwitch, TypeOK, DrainsOnTrack, OnTrack,
        OneBuilder, BuildStep
<1>15. ASSUME NEW w \in Worker, Acknowledge(w)
      PROVE  OneBuilder'
  BY <1>15
    DEF Acknowledge, Go, TypeOK, DrainsOnTrack, OnTrack, OneBuilder, BuildStep
<1>16. ASSUME NEW w \in Worker, MarkSucceeded(w)
      PROVE  OneBuilder'
  BY <1>16
    DEF MarkSucceeded, Go, Done, TypeOK, DrainsOnTrack, OnTrack, OneBuilder,
        BuildStep
<1>17. ASSUME NEW w \in Worker, Reject(w)
      PROVE  OneBuilder'
  BY <1>17, RunIsJob, RejectEffect
    DEF Raise, Go, ledgerVars, deletionVars, jobVars, stageVars, TypeOK,
        DrainsOnTrack, OnTrack, OneBuilder, BuildStep, ActivationStep
<1>18. ASSUME NEW w \in Worker, Handle(w)
      PROVE  OneBuilder'
  <2>1. CASE Left(w)
    BY <1>18, <2>1, HandleEffect
      DEF Left, Discarded, TypeOK, DrainsOnTrack, OnTrack, OneBuilder, BuildStep
  <2>2. CASE /\ jobState[run[w]] # "cancelled"
            /\ at' = [at EXCEPT ![w] = "fail"]
            /\ run' = run
    BY <1>18, <2>2, HandleEffect
      DEF Discarded, TypeOK, DrainsOnTrack, OnTrack, OneBuilder
  <2> QED BY <1>18, <2>1, <2>2, HandleEffect
<1>19. ASSUME NEW w \in Worker, MarkFailed(w)
      PROVE  OneBuilder'
  <2>1. CASE /\ jobState[run[w]] \in {"queued", "running", "verifying"}
            /\ jobState' = [jobState EXCEPT ![run[w]] = "failed"]
            /\ Left(w)
            /\ main' = main
    BY <1>19, <2>1, MarkFailedEffect
      DEF Left, TypeOK, DrainsOnTrack, OnTrack, OneBuilder, BuildStep
  <2>2. CASE Raise(w) /\ UNCHANGED <<jobState, intent>>
    BY <1>19, <2>2, MarkFailedEffect
      DEF Raise, Go, TypeOK, DrainsOnTrack, OnTrack, OneBuilder, BuildStep
  <2> QED BY <1>19, <2>1, <2>2, MarkFailedEffect
<1>20. ASSUME NEW w \in Worker, Start(w)
      PROVE  OneBuilder'
  BY <1>20 DEF Start, Go, TypeOK, DrainsOnTrack, OnTrack, OneBuilder, BuildStep
<1>21. ASSUME NEW w \in Worker, RecoverStopped(w)
      PROVE  OneBuilder'
  BY <1>21
    DEF RecoverStopped, RetireStages, TypeOK, DrainsOnTrack, OnTrack, OneBuilder
<1>22. ASSUME NEW w \in Worker, Recover(w)
      PROVE  OneBuilder'
  <2>1. UNCHANGED run /\ \E s \in {"claim", "idle"} : at' = [at EXCEPT ![w] = s]
    BY <1>22, RecoverEffect
  <2> QED BY <2>1, BuilderMoves DEF Building, BuildStep
<1>23. ASSUME NEW w \in Worker, NEW replaced \in SUBSET RollbackJob, CommitFacts(w, replaced)
      PROVE  OneBuilder'
  BY <1>23 DEF CommitFacts, processVars, TypeOK, DrainsOnTrack, OnTrack, OneBuilder
<1>24. ASSUME NEW w \in Worker, ActivateFacts(w)
      PROVE  OneBuilder'
  BY <1>24
    DEF ActivateFacts, Published, processVars, TypeOK, DrainsOnTrack, OnTrack,
        OneBuilder
<1>25. ASSUME NEW w \in Worker, NEW j \in DeletionJob, Delete(w, j)
      PROVE  OneBuilder'
  BY <1>25 DEF Delete, processVars, TypeOK, DrainsOnTrack, OnTrack, OneBuilder
<1>26. ASSUME NEW w \in Worker, NEW j \in Job, Enqueue(w, j)
      PROVE  OneBuilder'
  BY <1>26
    DEF Enqueue, StartThread, TypeOK, DrainsOnTrack, OnTrack, OneBuilder,
        BuildStep
<1>27. ASSUME NEW w \in Worker, NEW j \in Job, Cancel(w, j)
      PROVE  OneBuilder'
  BY <1>27 DEF Cancel, processVars, TypeOK, DrainsOnTrack, OnTrack, OneBuilder
<1>28. ASSUME NEW w \in Worker, NEW j \in RollbackJob, NEW replaced \in SUBSET RollbackJob,
             Rollback(w, j, replaced)
      PROVE  OneBuilder'
  BY <1>28
    DEF Rollback, StartThread, TypeOK, DrainsOnTrack, OnTrack, OneBuilder,
        BuildStep
<1>29. ASSUME NEW w \in Worker, Exit(w)
      PROVE  OneBuilder'
  BY <1>29 DEF Exit, Go, TypeOK, DrainsOnTrack, OnTrack, OneBuilder, BuildStep
<1>30. CASE UNCHANGED vars
  BY <1>30 DEF vars, processVars, TypeOK, DrainsOnTrack, OnTrack, OneBuilder
<1> QED
  BY <1>1, <1>2, <1>3, <1>4, <1>5, <1>6, <1>7, <1>8, <1>9, <1>10, <1>11, <1>12,
     <1>13, <1>14, <1>15, <1>16, <1>17, <1>18, <1>19, <1>20, <1>21, <1>22, <1>23,
     <1>24, <1>25, <1>26, <1>27, <1>28, <1>29, <1>30
  DEF Next, RunnerStep, StartStep, CallStep

\* A job is claimed when none is under way; the others follow one another.
LEMMA FlightStep ==
    ASSUME TypeOK, DrainsOnTrack, OneJobInFlight, [Next]_vars
    PROVE  OneJobInFlight'
<1>1. ASSUME NEW w \in Worker, NEW j \in Job, ClaimActivating(w, j)
      PROVE  OneJobInFlight'
  BY <1>1 DEF ClaimActivating, Take, jobVars, TypeOK, OneJobInFlight, Busy
<1>2. ASSUME NEW w \in Worker, NEW j \in Job, ClaimQueued(w, j)
      PROVE  OneJobInFlight'
  BY <1>2 DEF ClaimQueued, Take, SetJob, TypeOK, OneJobInFlight, Busy
<1>3. ASSUME NEW w \in Worker, DrainEnds(w)
      PROVE  OneJobInFlight'
  BY <1>3 DEF DrainEnds, jobVars, TypeOK, OneJobInFlight, Busy
<1>4. ASSUME NEW w \in Worker, Read(w)
      PROVE  OneJobInFlight'
  BY <1>4 DEF Read, jobVars, TypeOK, OneJobInFlight, Busy
<1>5. ASSUME NEW w \in Worker, Begin(w)
      PROVE  OneJobInFlight'
  BY <1>5 DEF Begin, jobVars, TypeOK, OneJobInFlight, Busy
<1>6. ASSUME NEW w \in Worker, Build(w)
      PROVE  OneJobInFlight'
  BY <1>6 DEF Build, jobVars, TypeOK, OneJobInFlight, Busy
<1>7. ASSUME NEW w \in Worker, Poll(w)
      PROVE  OneJobInFlight'
  BY <1>7, PollEffect DEF Discarded, Left, jobVars, TypeOK, OneJobInFlight, Busy
<1>8. ASSUME NEW w \in Worker, MarkVerifying(w)
      PROVE  OneJobInFlight'
  BY <1>8 DEF MarkVerifying, SetJob, TypeOK, OneJobInFlight, Busy
<1>9. ASSUME NEW w \in Worker, VerifyStage(w)
      PROVE  OneJobInFlight'
  BY <1>9 DEF VerifyStage, jobVars, TypeOK, OneJobInFlight, Busy
<1>10. ASSUME NEW w \in Worker, Recheck(w)
      PROVE  OneJobInFlight'
  BY <1>10 DEF Recheck, jobVars, TypeOK, OneJobInFlight, Busy
<1>11. ASSUME NEW w \in Worker, MarkActivating(w)
      PROVE  OneJobInFlight'
  BY <1>11 DEF MarkActivating, SetJob, TypeOK, OneJobInFlight, Busy
<1>12. ASSUME NEW w \in Worker, ResumeStage(w)
      PROVE  OneJobInFlight'
  BY <1>12 DEF ResumeStage, jobVars, TypeOK, OneJobInFlight, Busy
<1>13. ASSUME NEW w \in Worker, Load(w)
      PROVE  OneJobInFlight'
  BY <1>13 DEF Load, jobVars, TypeOK, OneJobInFlight, Busy
<1>14. ASSUME NEW w \in Worker, Switch(w)
      PROVE  OneJobInFlight'
  BY <1>14 DEF Switch, Replaced, MaySwitch, jobVars, TypeOK, OneJobInFlight, Busy
<1>15. ASSUME NEW w \in Worker, Acknowledge(w)
      PROVE  OneJobInFlight'
  BY <1>15 DEF Acknowledge, jobVars, TypeOK, OneJobInFlight, Busy
<1>16. ASSUME NEW w \in Worker, MarkSucceeded(w)
      PROVE  OneJobInFlight'
  <2>1. run[w] \in Job
    BY <1>16, RunIsJob DEF MarkSucceeded
  <2>2. CASE UNCHANGED jobState
    BY <2>2 DEF OneJobInFlight
  <2>3. CASE jobState' = [jobState EXCEPT ![run[w]] = "succeeded"]
    BY <2>1, <2>3 DEF TypeOK, OneJobInFlight
  <2> QED BY <1>16, <2>2, <2>3 DEF MarkSucceeded, SetJob
<1>17. ASSUME NEW w \in Worker, Reject(w)
      PROVE  OneJobInFlight'
  BY <1>17, RejectEffect DEF Raise, jobVars, TypeOK, OneJobInFlight, Busy
<1>18. ASSUME NEW w \in Worker, Handle(w)
      PROVE  OneJobInFlight'
  BY <1>18, HandleEffect DEF Discarded, Left, jobVars, TypeOK, OneJobInFlight, Busy
<1>19. ASSUME NEW w \in Worker, MarkFailed(w)
      PROVE  OneJobInFlight'
  <2>1. CASE /\ jobState[run[w]] \in {"queued", "running", "verifying"}
            /\ jobState' = [jobState EXCEPT ![run[w]] = "failed"]
            /\ Left(w)
            /\ main' = main
    BY <1>19, <2>1, MarkFailedEffect DEF Left, TypeOK, OneJobInFlight
  <2>2. CASE Raise(w) /\ UNCHANGED <<jobState, intent>>
    BY <1>19, <2>2, MarkFailedEffect DEF Raise, TypeOK, OneJobInFlight
  <2> QED BY <1>19, <2>1, <2>2, MarkFailedEffect
<1>20. ASSUME NEW w \in Worker, Start(w)
      PROVE  OneJobInFlight'
  BY <1>20 DEF Start, jobVars, TypeOK, OneJobInFlight, Busy
<1>21. ASSUME NEW w \in Worker, RecoverStopped(w)
      PROVE  OneJobInFlight'
  BY <1>21 DEF RecoverStopped, RetireStages, jobVars, TypeOK, OneJobInFlight, Busy
<1>22. ASSUME NEW w \in Worker, Recover(w)
      PROVE  OneJobInFlight'
  BY <1>22, RecoverEffect DEF jobVars, TypeOK, OneJobInFlight, Busy
<1>23. ASSUME NEW w \in Worker, NEW replaced \in SUBSET RollbackJob, CommitFacts(w, replaced)
      PROVE  OneJobInFlight'
  BY <1>23 DEF CommitFacts, jobVars, TypeOK, OneJobInFlight, Busy
<1>24. ASSUME NEW w \in Worker, ActivateFacts(w)
      PROVE  OneJobInFlight'
  BY <1>24 DEF ActivateFacts, Published, jobVars, TypeOK, OneJobInFlight, Busy
<1>25. ASSUME NEW w \in Worker, NEW j \in DeletionJob, Delete(w, j)
      PROVE  OneJobInFlight'
  BY <1>25 DEF Delete, jobVars, TypeOK, OneJobInFlight, Busy
<1>26. ASSUME NEW w \in Worker, NEW j \in Job, Enqueue(w, j)
      PROVE  OneJobInFlight'
  BY <1>26 DEF Enqueue, SetJob, TypeOK, OneJobInFlight, Busy
<1>27. ASSUME NEW w \in Worker, NEW j \in Job, Cancel(w, j)
      PROVE  OneJobInFlight'
  BY <1>27 DEF Cancel, SetJob, TypeOK, OneJobInFlight, Busy
<1>28. ASSUME NEW w \in Worker, NEW j \in RollbackJob, NEW replaced \in SUBSET RollbackJob,
             Rollback(w, j, replaced)
      PROVE  OneJobInFlight'
  BY <1>28 DEF Rollback, SetJob, TypeOK, OneJobInFlight, Busy
<1>29. ASSUME NEW w \in Worker, Exit(w)
      PROVE  OneJobInFlight'
  BY <1>29 DEF Exit, jobVars, TypeOK, OneJobInFlight, Busy
<1>30. CASE UNCHANGED vars
  BY <1>30 DEF vars, jobVars, TypeOK, OneJobInFlight, Busy
<1> QED
  BY <1>1, <1>2, <1>3, <1>4, <1>5, <1>6, <1>7, <1>8, <1>9, <1>10, <1>11, <1>12,
     <1>13, <1>14, <1>15, <1>16, <1>17, <1>18, <1>19, <1>20, <1>21, <1>22, <1>23,
     <1>24, <1>25, <1>26, <1>27, <1>28, <1>29, <1>30
  DEF Next, RunnerStep, StartStep, CallStep

-----------------------------------------------------------------------------
(* Stages.                                                                 *)

\* Open stages fail and nothing else happens to stages.
OnlyFails ==
    \A j \in Job :
        \/ stage'[j] = stage[j]
        \/ stage[j] \in {"PREPARED", "VERIFIED"} /\ stage'[j] = "FAILED"

\* discard_stage fails an open stage or nothing.
LEMMA DiscardOnlyFails ==
    ASSUME TypeOK, NEW j \in Job, Discarded(j)
    PROVE  OnlyFails
BY DEF TypeOK, Discarded, OnlyFails

\* So does the retirement by a recovery.
LEMMA RetireOnlyFails ==
    ASSUME NEW gone \in SUBSET Retirable, RetireStages(gone)
    PROVE  OnlyFails
<1>1. ASSUME NEW j \in Job
      PROVE  \/ stage'[j] = stage[j]
             \/ stage[j] \in {"PREPARED", "VERIFIED"} /\ stage'[j] = "FAILED"
  <2>1. stage'[j] = IF j \in gone THEN "FAILED" ELSE stage[j]
    BY DEF RetireStages
  <2>2. j \in gone => stage[j] \in {"PREPARED", "VERIFIED"}
    BY DEF Retirable, Unfinished
  <2> QED BY <2>1, <2>2
<1> QED BY <1>1 DEF OnlyFails

\* A stage that fails was open, so no outcome is affected.
LEMMA FailuresKeepOutcome ==
    ASSUME OutcomeIsTrue, OnlyFails, UNCHANGED jobState
    PROVE  OutcomeIsTrue'
BY DEF OutcomeIsTrue, OnlyFails

\* Nor is any intent.
LEMMA FailuresKeepIntent ==
    ASSUME IntentIsTrue, OnlyFails, UNCHANGED intent
    PROVE  IntentIsTrue'
BY KindsAreDisjoint DEF IntentIsTrue, OnlyFails

\* One drain goes somewhere else while stages fail.
LEMMA FailuresKeepStages ==
    ASSUME TypeOK, DrainsOnTrack, StagesOnTrack, OnlyFails, NEW w \in Worker,
           UNCHANGED <<jobState, built>>,
           \A v \in Worker : v # w => at'[v] = at[v] /\ run'[v] = run[v],
           \/ at'[w] \in {"idle", "claim", "fail", "failing"}
           \/ at'[w] = "build" /\ Len(built[run'[w]]) <= 1
           \/ at'[w] = "marking" /\ Len(built[run'[w]]) = 2
    PROVE  StagesOnTrack'
<1>1. ASSUME NEW j \in Job
      PROVE  /\ jobState'[j] \in {"absent", "queued"} => stage'[j] = "none" /\ built'[j] = <<>>
             /\ stage'[j] \in {"VERIFIED", "ACTIVE"} => Len(built'[j]) = 2
  BY DEF StagesOnTrack, OnlyFails
<1>2. ASSUME NEW v \in Worker
      PROVE  /\ at'[v] \in {"read", "begin"} => stage'[run'[v]] = "none" /\ built'[run'[v]] = <<>>
             /\ at'[v] = "build" => Len(built'[run'[v]]) <= 1
             /\ at'[v] \in {"marking", "verify", "recheck", "mark"} => Len(built'[run'[v]]) = 2
             /\ at'[v] \in {"acknowledge", "finish"} => stage'[run'[v]] = "ACTIVE"
  <2>1. CASE v = w
    BY <2>1
  <2>2. CASE v # w
    <3>1. at[v] \in {"read", "begin", "acknowledge", "finish"} => run[v] \in Job
      BY RunIsJob
    <3> QED BY <2>2, <3>1 DEF StagesOnTrack, OnlyFails
  <2> QED BY <2>1, <2>2
<1> QED BY <1>1, <1>2 DEF StagesOnTrack

\* A stage follows its builder.
LEMMA StagesStep ==
    ASSUME TypeOK, DrainsOnTrack, OneBuilder, StagesOnTrack, OutcomeIsTrue, [Next]_vars
    PROVE  StagesOnTrack'
<1>1. ASSUME NEW w \in Worker, NEW j \in Job, ClaimActivating(w, j)
      PROVE  StagesOnTrack'
  BY <1>1
    DEF ClaimActivating, Take, Go, jobVars, stageVars, TypeOK, DrainsOnTrack,
        OnTrack, StagesOnTrack, OutcomeIsTrue, OneBuilder
<1>2. ASSUME NEW w \in Worker, NEW j \in Job, ClaimQueued(w, j)
      PROVE  StagesOnTrack'
  BY <1>2
    DEF ClaimQueued, Take, Go, SetJob, stageVars, TypeOK, DrainsOnTrack, OnTrack,
        StagesOnTrack, OutcomeIsTrue, OneBuilder
<1>3. ASSUME NEW w \in Worker, DrainEnds(w)
      PROVE  StagesOnTrack'
  BY <1>3
    DEF DrainEnds, Go, jobVars, stageVars, TypeOK, DrainsOnTrack, OnTrack,
        StagesOnTrack, OutcomeIsTrue, OneBuilder
<1>4. ASSUME NEW w \in Worker, Read(w)
      PROVE  StagesOnTrack'
  BY <1>4
    DEF Read, Go, jobVars, stageVars, TypeOK, DrainsOnTrack, OnTrack,
        StagesOnTrack, OutcomeIsTrue, OneBuilder
<1>5. ASSUME NEW w \in Worker, Begin(w)
      PROVE  StagesOnTrack'
  BY <1>5
    DEF Begin, Go, SetStage, Authorised, deletionVars, jobVars, TypeOK,
        DrainsOnTrack, OnTrack, StagesOnTrack, OutcomeIsTrue, BuildStep,
        OneBuilder
<1>6. ASSUME NEW w \in Worker, Build(w)
      PROVE  StagesOnTrack'
  BY <1>6
    DEF Build, Go, Buildable, jobVars, TypeOK, DrainsOnTrack, OnTrack,
        StagesOnTrack, OutcomeIsTrue, BuildStep, OneBuilder
<1>7. ASSUME NEW w \in Worker, Poll(w)
      PROVE  StagesOnTrack'
  <2>1. /\ at[w] = "poll" /\ run[w] \in Job
        /\ OnlyFails
        /\ UNCHANGED <<jobState, built>>
    BY <1>7, PollEffect, RunIsJob, DiscardOnlyFails DEF jobVars
  <2>2. Len(built[run[w]]) \in Nat /\ Len(built[run[w]]) <= 2
    BY <2>1 DEF TypeOK
  <2>3. CASE Left(w)
    <3>1. at'[w] = "claim" /\ \A v \in Worker : v # w => at'[v] = at[v] /\ run'[v] = run[v]
      BY <2>3 DEF TypeOK, Left
    <3> QED BY <2>1, <3>1, FailuresKeepStages
  <2>4. CASE /\ at' = [at EXCEPT ![w] = IF Len(built[run[w]]) = 2 THEN "marking" ELSE "build"]
             /\ run' = run
    <3>1. /\ at'[w] = IF Len(built[run[w]]) = 2 THEN "marking" ELSE "build"
          /\ \A v \in Worker : v # w => at'[v] = at[v] /\ run'[v] = run[v]
      BY <2>4 DEF TypeOK
    <3>2. \/ at'[w] = "build" /\ Len(built[run'[w]]) <= 1
          \/ at'[w] = "marking" /\ Len(built[run'[w]]) = 2
      <4>1. run'[w] = run[w]
        BY <2>4
      <4>2. CASE Len(built[run[w]]) = 2
        BY <3>1, <4>1, <4>2
      <4>3. CASE Len(built[run[w]]) # 2
        <5>1. Len(built[run[w]]) <= 1
          <6> DEFINE n == Len(built[run[w]])
          <6>1. n \in Nat /\ n <= 2 /\ n # 2
            BY <2>2, <4>3
          <6> HIDE DEF n
          <6>2. n <= 1
            BY <6>1
          <6> QED BY <6>2 DEF n
        <5> QED BY <3>1, <4>1, <4>3, <5>1
      <4> QED BY <4>2, <4>3
    <3> QED BY <2>1, <3>1, <3>2, FailuresKeepStages
  <2> QED BY <1>7, <2>3, <2>4, PollEffect
<1>8. ASSUME NEW w \in Worker, MarkVerifying(w)
      PROVE  StagesOnTrack'
  BY <1>8
    DEF MarkVerifying, Go, SetJob, stageVars, TypeOK, DrainsOnTrack, OnTrack,
        StagesOnTrack, OutcomeIsTrue, OneBuilder
<1>9. ASSUME NEW w \in Worker, VerifyStage(w)
      PROVE  StagesOnTrack'
  BY <1>9
    DEF VerifyStage, Go, SetStage, jobVars, TypeOK, DrainsOnTrack, OnTrack,
        StagesOnTrack, OutcomeIsTrue, OneBuilder
<1>10. ASSUME NEW w \in Worker, Recheck(w)
      PROVE  StagesOnTrack'
  BY <1>10
    DEF Recheck, Go, jobVars, stageVars, TypeOK, DrainsOnTrack, OnTrack,
        StagesOnTrack, OutcomeIsTrue, OneBuilder
<1>11. ASSUME NEW w \in Worker, MarkActivating(w)
      PROVE  StagesOnTrack'
  BY <1>11
    DEF MarkActivating, Go, SetJob, stageVars, TypeOK, DrainsOnTrack, OnTrack,
        StagesOnTrack, OutcomeIsTrue, OneBuilder
<1>12. ASSUME NEW w \in Worker, ResumeStage(w)
      PROVE  StagesOnTrack'
  BY <1>12
    DEF ResumeStage, Go, jobVars, stageVars, TypeOK, DrainsOnTrack, OnTrack,
        StagesOnTrack, OutcomeIsTrue, OneBuilder
<1>13. ASSUME NEW w \in Worker, Load(w)
      PROVE  StagesOnTrack'
  BY <1>13
    DEF Load, Go, jobVars, stageVars, TypeOK, DrainsOnTrack, OnTrack,
        StagesOnTrack, OutcomeIsTrue, OneBuilder
<1>14. ASSUME NEW w \in Worker, Switch(w)
      PROVE  StagesOnTrack'
  BY <1>14
    DEF Switch, Go, SetStage, Replaced, MaySwitch, jobVars, TypeOK,
        DrainsOnTrack, OnTrack, StagesOnTrack, OutcomeIsTrue, OneBuilder
<1>15. ASSUME NEW w \in Worker, Acknowledge(w)
      PROVE  StagesOnTrack'
  BY <1>15
    DEF Acknowledge, Go, jobVars, stageVars, TypeOK, DrainsOnTrack, OnTrack,
        StagesOnTrack, OutcomeIsTrue, OneBuilder
<1>16. ASSUME NEW w \in Worker, MarkSucceeded(w)
      PROVE  StagesOnTrack'
  BY <1>16
    DEF MarkSucceeded, Go, Done, SetJob, stageVars, TypeOK, DrainsOnTrack,
        OnTrack, StagesOnTrack, OutcomeIsTrue, OneBuilder
<1>17. ASSUME NEW w \in Worker, Reject(w)
      PROVE  StagesOnTrack'
  BY <1>17, RunIsJob, RejectEffect
    DEF Raise, Go, deletionVars, jobVars, stageVars, TypeOK, DrainsOnTrack,
        OnTrack, StagesOnTrack, OutcomeIsTrue, ActivationStep, OneBuilder
<1>18. ASSUME NEW w \in Worker, Handle(w)
      PROVE  StagesOnTrack'
  <2>1. /\ at[w] = "failing" /\ run[w] \in Job
        /\ OnlyFails
        /\ UNCHANGED <<jobState, built>>
    BY <1>18, HandleEffect, RunIsJob, DiscardOnlyFails DEF jobVars
  <2>2. /\ at'[w] \in {"claim", "fail"}
        /\ \A v \in Worker : v # w => at'[v] = at[v] /\ run'[v] = run[v]
    <3>1. CASE Left(w)
      BY <3>1 DEF TypeOK, Left
    <3>2. CASE at' = [at EXCEPT ![w] = "fail"] /\ run' = run
      BY <3>2 DEF TypeOK
    <3> QED BY <1>18, <3>1, <3>2, HandleEffect
  <2> QED BY <2>1, <2>2, FailuresKeepStages
<1>19. ASSUME NEW w \in Worker, MarkFailed(w)
      PROVE  StagesOnTrack'
  <2>1. /\ UNCHANGED <<stage, built>>
        /\ \A j \in Job : jobState'[j] \in {"absent", "queued"} => jobState'[j] = jobState[j]
    <3>1. \/ jobState' = jobState
          \/ jobState' = [jobState EXCEPT ![run[w]] = "failed"]
      BY <1>19, MarkFailedEffect
    <3> QED BY <1>19, <3>1, MarkFailedEffect DEF stageVars, TypeOK
  <2>2. /\ at'[w] \in {"claim", "idle"}
        /\ \A v \in Worker : v # w => at'[v] = at[v] /\ run'[v] = run[v]
    <3>1. CASE Left(w)
      BY <3>1 DEF TypeOK, Left
    <3>2. CASE Raise(w)
      BY <3>2 DEF TypeOK, Raise, Go
    <3> QED BY <1>19, <3>1, <3>2, MarkFailedEffect
  <2> QED BY <2>1, <2>2 DEF StagesOnTrack
<1>20. ASSUME NEW w \in Worker, Start(w)
      PROVE  StagesOnTrack'
  BY <1>20
    DEF Start, Go, jobVars, stageVars, TypeOK, DrainsOnTrack, OnTrack,
        StagesOnTrack, OutcomeIsTrue, OneBuilder
<1>21. ASSUME NEW w \in Worker, RecoverStopped(w)
      PROVE  StagesOnTrack'
  <2>1. OnlyFails /\ UNCHANGED <<jobState, built, at, run>>
    BY <1>21, RetireOnlyFails DEF RecoverStopped, jobVars
  <2>2. at'[w] = "idle"
    BY <1>21, <2>1 DEF RecoverStopped, DrainsOnTrack, OnTrack
  <2> QED BY <2>1, <2>2, FailuresKeepStages
<1>22. ASSUME NEW w \in Worker, Recover(w)
      PROVE  StagesOnTrack'
  <2>1. OnlyFails /\ UNCHANGED <<jobState, built, run>>
    BY <1>22, RecoverEffect, RetireOnlyFails DEF jobVars
  <2>2. /\ at'[w] \in {"claim", "idle"}
        /\ \A v \in Worker : v # w => at'[v] = at[v]
    BY <1>22, RecoverEffect DEF TypeOK
  <2> QED BY <2>1, <2>2, FailuresKeepStages
<1>23. ASSUME NEW w \in Worker, NEW replaced \in SUBSET RollbackJob, CommitFacts(w, replaced)
      PROVE  StagesOnTrack'
  BY <1>23
    DEF CommitFacts, jobVars, stageVars, processVars, TypeOK, DrainsOnTrack,
        OnTrack, StagesOnTrack, OutcomeIsTrue, OneBuilder
<1>24. ASSUME NEW w \in Worker, ActivateFacts(w)
      PROVE  StagesOnTrack'
  BY <1>24
    DEF ActivateFacts, Published, jobVars, stageVars, processVars, TypeOK,
        DrainsOnTrack, OnTrack, StagesOnTrack, OutcomeIsTrue, OneBuilder
<1>25. ASSUME NEW w \in Worker, NEW j \in DeletionJob, Delete(w, j)
      PROVE  StagesOnTrack'
  BY <1>25
    DEF Delete, jobVars, stageVars, processVars, TypeOK, DrainsOnTrack, OnTrack,
        StagesOnTrack, OutcomeIsTrue, OneBuilder
<1>26. ASSUME NEW w \in Worker, NEW j \in Job, Enqueue(w, j)
      PROVE  StagesOnTrack'
  BY <1>26
    DEF Enqueue, SetJob, StartThread, stageVars, TypeOK, DrainsOnTrack, OnTrack,
        StagesOnTrack, OutcomeIsTrue, OneBuilder
<1>27. ASSUME NEW w \in Worker, NEW j \in Job, Cancel(w, j)
      PROVE  StagesOnTrack'
  BY <1>27
    DEF Cancel, SetJob, stageVars, processVars, TypeOK, DrainsOnTrack, OnTrack,
        StagesOnTrack, OutcomeIsTrue, OneBuilder
<1>28. ASSUME NEW w \in Worker, NEW j \in RollbackJob, NEW replaced \in SUBSET RollbackJob,
             Rollback(w, j, replaced)
      PROVE  StagesOnTrack'
  BY <1>28
    DEF Rollback, SetJob, StartThread, stageVars, TypeOK, DrainsOnTrack, OnTrack,
        StagesOnTrack, OutcomeIsTrue, OneBuilder
<1>29. ASSUME NEW w \in Worker, Exit(w)
      PROVE  StagesOnTrack'
  BY <1>29
    DEF Exit, Go, jobVars, stageVars, TypeOK, DrainsOnTrack, OnTrack,
        StagesOnTrack, OutcomeIsTrue, OneBuilder
<1>30. CASE UNCHANGED vars
  BY <1>30
    DEF vars, jobVars, stageVars, processVars, TypeOK, DrainsOnTrack, OnTrack,
        StagesOnTrack, OutcomeIsTrue, OneBuilder
<1> QED
  BY <1>1, <1>2, <1>3, <1>4, <1>5, <1>6, <1>7, <1>8, <1>9, <1>10, <1>11, <1>12,
     <1>13, <1>14, <1>15, <1>16, <1>17, <1>18, <1>19, <1>20, <1>21, <1>22, <1>23,
     <1>24, <1>25, <1>26, <1>27, <1>28, <1>29, <1>30
  DEF Next, RunnerStep, StartStep, CallStep

\* Only a job that is activating switches the epoch.
LEMMA OutcomeStep ==
    ASSUME TypeOK, DrainsOnTrack, StagesOnTrack, OutcomeIsTrue, [Next]_vars
    PROVE  OutcomeIsTrue'
<1>1. ASSUME NEW w \in Worker, NEW j \in Job, ClaimActivating(w, j)
      PROVE  OutcomeIsTrue'
  BY <1>1
    DEF ClaimActivating, Take, jobVars, stageVars, TypeOK, DrainsOnTrack,
        OnTrack, StagesOnTrack, OutcomeIsTrue
<1>2. ASSUME NEW w \in Worker, NEW j \in Job, ClaimQueued(w, j)
      PROVE  OutcomeIsTrue'
  BY <1>2
    DEF ClaimQueued, Take, SetJob, stageVars, TypeOK, DrainsOnTrack, OnTrack,
        StagesOnTrack, OutcomeIsTrue
<1>3. ASSUME NEW w \in Worker, DrainEnds(w)
      PROVE  OutcomeIsTrue'
  BY <1>3
    DEF DrainEnds, jobVars, stageVars, TypeOK, DrainsOnTrack, OnTrack,
        StagesOnTrack, OutcomeIsTrue
<1>4. ASSUME NEW w \in Worker, Read(w)
      PROVE  OutcomeIsTrue'
  BY <1>4
    DEF Read, jobVars, stageVars, TypeOK, DrainsOnTrack, OnTrack, StagesOnTrack,
        OutcomeIsTrue
<1>5. ASSUME NEW w \in Worker, Begin(w)
      PROVE  OutcomeIsTrue'
  BY <1>5
    DEF Begin, SetStage, jobVars, TypeOK, DrainsOnTrack, OnTrack, StagesOnTrack,
        OutcomeIsTrue
<1>6. ASSUME NEW w \in Worker, Build(w)
      PROVE  OutcomeIsTrue'
  BY <1>6
    DEF Build, jobVars, TypeOK, DrainsOnTrack, OnTrack, StagesOnTrack,
        OutcomeIsTrue
<1>7. ASSUME NEW w \in Worker, Poll(w)
      PROVE  OutcomeIsTrue'
  <2>1. OnlyFails /\ UNCHANGED jobState
    BY <1>7, PollEffect, RunIsJob, DiscardOnlyFails DEF jobVars
  <2> QED BY <2>1, FailuresKeepOutcome
<1>8. ASSUME NEW w \in Worker, MarkVerifying(w)
      PROVE  OutcomeIsTrue'
  BY <1>8
    DEF MarkVerifying, SetJob, stageVars, TypeOK, DrainsOnTrack, OnTrack,
        StagesOnTrack, OutcomeIsTrue
<1>9. ASSUME NEW w \in Worker, VerifyStage(w)
      PROVE  OutcomeIsTrue'
  BY <1>9
    DEF VerifyStage, SetStage, jobVars, TypeOK, DrainsOnTrack, OnTrack,
        StagesOnTrack, OutcomeIsTrue
<1>10. ASSUME NEW w \in Worker, Recheck(w)
      PROVE  OutcomeIsTrue'
  BY <1>10
    DEF Recheck, jobVars, stageVars, TypeOK, DrainsOnTrack, OnTrack,
        StagesOnTrack, OutcomeIsTrue
<1>11. ASSUME NEW w \in Worker, MarkActivating(w)
      PROVE  OutcomeIsTrue'
  BY <1>11
    DEF MarkActivating, SetJob, stageVars, TypeOK, DrainsOnTrack, OnTrack,
        StagesOnTrack, OutcomeIsTrue
<1>12. ASSUME NEW w \in Worker, ResumeStage(w)
      PROVE  OutcomeIsTrue'
  BY <1>12
    DEF ResumeStage, jobVars, stageVars, TypeOK, DrainsOnTrack, OnTrack,
        StagesOnTrack, OutcomeIsTrue
<1>13. ASSUME NEW w \in Worker, Load(w)
      PROVE  OutcomeIsTrue'
  BY <1>13
    DEF Load, jobVars, stageVars, TypeOK, DrainsOnTrack, OnTrack, StagesOnTrack,
        OutcomeIsTrue
<1>14. ASSUME NEW w \in Worker, Switch(w)
      PROVE  OutcomeIsTrue'
  BY <1>14
    DEF Switch, SetStage, Replaced, MaySwitch, Authorised, jobVars, TypeOK,
        DrainsOnTrack, OnTrack, StagesOnTrack, OutcomeIsTrue
<1>15. ASSUME NEW w \in Worker, Acknowledge(w)
      PROVE  OutcomeIsTrue'
  BY <1>15
    DEF Acknowledge, jobVars, stageVars, TypeOK, DrainsOnTrack, OnTrack,
        StagesOnTrack, OutcomeIsTrue
<1>16. ASSUME NEW w \in Worker, MarkSucceeded(w)
      PROVE  OutcomeIsTrue'
  BY <1>16
    DEF MarkSucceeded, Done, SetJob, stageVars, TypeOK, DrainsOnTrack, OnTrack,
        StagesOnTrack, OutcomeIsTrue
<1>17. ASSUME NEW w \in Worker, Reject(w)
      PROVE  OutcomeIsTrue'
  BY <1>17, RejectEffect
    DEF Raise, jobVars, stageVars, TypeOK, DrainsOnTrack, OnTrack, StagesOnTrack,
        OutcomeIsTrue
<1>18. ASSUME NEW w \in Worker, Handle(w)
      PROVE  OutcomeIsTrue'
  <2>1. OnlyFails /\ UNCHANGED jobState
    BY <1>18, HandleEffect, RunIsJob, DiscardOnlyFails DEF jobVars
  <2> QED BY <2>1, FailuresKeepOutcome
<1>19. ASSUME NEW w \in Worker, MarkFailed(w)
      PROVE  OutcomeIsTrue'
  <2>1. UNCHANGED stage
    BY <1>19, MarkFailedEffect DEF stageVars
  <2>2. CASE jobState' = jobState
    BY <2>1, <2>2 DEF OutcomeIsTrue
  <2>3. CASE /\ jobState[run[w]] \in {"queued", "running", "verifying"}
             /\ jobState' = [jobState EXCEPT ![run[w]] = "failed"]
    BY <2>1, <2>3 DEF TypeOK, OutcomeIsTrue
  <2> QED BY <1>19, <2>2, <2>3, MarkFailedEffect
<1>20. ASSUME NEW w \in Worker, Start(w)
      PROVE  OutcomeIsTrue'
  BY <1>20
    DEF Start, jobVars, stageVars, TypeOK, DrainsOnTrack, OnTrack, StagesOnTrack,
        OutcomeIsTrue
<1>21. ASSUME NEW w \in Worker, RecoverStopped(w)
      PROVE  OutcomeIsTrue'
  <2>1. OnlyFails /\ UNCHANGED jobState
    BY <1>21, RetireOnlyFails DEF RecoverStopped, jobVars
  <2> QED BY <2>1, FailuresKeepOutcome
<1>22. ASSUME NEW w \in Worker, Recover(w)
      PROVE  OutcomeIsTrue'
  <2>1. OnlyFails /\ UNCHANGED jobState
    BY <1>22, RecoverEffect, RetireOnlyFails DEF jobVars
  <2> QED BY <2>1, FailuresKeepOutcome
<1>23. ASSUME NEW w \in Worker, NEW replaced \in SUBSET RollbackJob, CommitFacts(w, replaced)
      PROVE  OutcomeIsTrue'
  BY <1>23
    DEF CommitFacts, jobVars, stageVars, TypeOK, DrainsOnTrack, OnTrack,
        StagesOnTrack, OutcomeIsTrue
<1>24. ASSUME NEW w \in Worker, ActivateFacts(w)
      PROVE  OutcomeIsTrue'
  BY <1>24
    DEF ActivateFacts, Published, jobVars, stageVars, TypeOK, DrainsOnTrack,
        OnTrack, StagesOnTrack, OutcomeIsTrue
<1>25. ASSUME NEW w \in Worker, NEW j \in DeletionJob, Delete(w, j)
      PROVE  OutcomeIsTrue'
  BY <1>25
    DEF Delete, jobVars, stageVars, TypeOK, DrainsOnTrack, OnTrack,
        StagesOnTrack, OutcomeIsTrue
<1>26. ASSUME NEW w \in Worker, NEW j \in Job, Enqueue(w, j)
      PROVE  OutcomeIsTrue'
  BY <1>26
    DEF Enqueue, SetJob, stageVars, TypeOK, DrainsOnTrack, OnTrack,
        StagesOnTrack, OutcomeIsTrue
<1>27. ASSUME NEW w \in Worker, NEW j \in Job, Cancel(w, j)
      PROVE  OutcomeIsTrue'
  BY <1>27
    DEF Cancel, SetJob, stageVars, TypeOK, DrainsOnTrack, OnTrack, StagesOnTrack,
        OutcomeIsTrue
<1>28. ASSUME NEW w \in Worker, NEW j \in RollbackJob, NEW replaced \in SUBSET RollbackJob,
             Rollback(w, j, replaced)
      PROVE  OutcomeIsTrue'
  BY <1>28
    DEF Rollback, SetJob, stageVars, TypeOK, DrainsOnTrack, OnTrack,
        StagesOnTrack, OutcomeIsTrue
<1>29. ASSUME NEW w \in Worker, Exit(w)
      PROVE  OutcomeIsTrue'
  BY <1>29
    DEF Exit, jobVars, stageVars, TypeOK, DrainsOnTrack, OnTrack, StagesOnTrack,
        OutcomeIsTrue
<1>30. CASE UNCHANGED vars
  BY <1>30
    DEF vars, jobVars, stageVars, TypeOK, DrainsOnTrack, OnTrack, StagesOnTrack,
        OutcomeIsTrue
<1> QED
  BY <1>1, <1>2, <1>3, <1>4, <1>5, <1>6, <1>7, <1>8, <1>9, <1>10, <1>11, <1>12,
     <1>13, <1>14, <1>15, <1>16, <1>17, <1>18, <1>19, <1>20, <1>21, <1>22, <1>23,
     <1>24, <1>25, <1>26, <1>27, <1>28, <1>29, <1>30
  DEF Next, RunnerStep, StartStep, CallStep

\* The intent changes with the stage, or when it is claimed or failed before.
LEMMA IntentStep ==
    ASSUME TypeOK, DrainsOnTrack, StagesOnTrack, OutcomeIsTrue, IntentIsTrue, [Next]_vars
    PROVE  IntentIsTrue'
<1>1. ASSUME NEW w \in Worker, NEW j \in Job, ClaimActivating(w, j)
      PROVE  IntentIsTrue'
  BY <1>1
    DEF ClaimActivating, Take, deletionVars, stageVars, TypeOK, DrainsOnTrack,
        OnTrack, StagesOnTrack, OutcomeIsTrue, IntentIsTrue
<1>2. ASSUME NEW w \in Worker, NEW j \in Job, ClaimQueued(w, j)
      PROVE  IntentIsTrue'
  BY <1>2
    DEF ClaimQueued, Take, SetIntent, stageVars, TypeOK, DrainsOnTrack, OnTrack,
        StagesOnTrack, OutcomeIsTrue, IntentIsTrue
<1>3. ASSUME NEW w \in Worker, DrainEnds(w)
      PROVE  IntentIsTrue'
  BY <1>3
    DEF DrainEnds, deletionVars, stageVars, TypeOK, DrainsOnTrack, OnTrack,
        StagesOnTrack, OutcomeIsTrue, IntentIsTrue
<1>4. ASSUME NEW w \in Worker, Read(w)
      PROVE  IntentIsTrue'
  BY <1>4
    DEF Read, deletionVars, stageVars, TypeOK, DrainsOnTrack, OnTrack,
        StagesOnTrack, OutcomeIsTrue, IntentIsTrue
<1>5. ASSUME NEW w \in Worker, Begin(w)
      PROVE  IntentIsTrue'
  BY <1>5
    DEF Begin, SetStage, deletionVars, TypeOK, DrainsOnTrack, OnTrack,
        StagesOnTrack, OutcomeIsTrue, IntentIsTrue
<1>6. ASSUME NEW w \in Worker, Build(w)
      PROVE  IntentIsTrue'
  BY <1>6
    DEF Build, deletionVars, TypeOK, DrainsOnTrack, OnTrack, StagesOnTrack,
        OutcomeIsTrue, IntentIsTrue
<1>7. ASSUME NEW w \in Worker, Poll(w)
      PROVE  IntentIsTrue'
  <2>1. OnlyFails /\ UNCHANGED intent
    BY <1>7, PollEffect, RunIsJob, DiscardOnlyFails DEF deletionVars
  <2> QED BY <2>1, FailuresKeepIntent
<1>8. ASSUME NEW w \in Worker, MarkVerifying(w)
      PROVE  IntentIsTrue'
  BY <1>8
    DEF MarkVerifying, deletionVars, stageVars, TypeOK, DrainsOnTrack, OnTrack,
        StagesOnTrack, OutcomeIsTrue, IntentIsTrue
<1>9. ASSUME NEW w \in Worker, VerifyStage(w)
      PROVE  IntentIsTrue'
  BY <1>9
    DEF VerifyStage, SetStage, deletionVars, TypeOK, DrainsOnTrack, OnTrack,
        StagesOnTrack, OutcomeIsTrue, IntentIsTrue
<1>10. ASSUME NEW w \in Worker, Recheck(w)
      PROVE  IntentIsTrue'
  BY <1>10
    DEF Recheck, deletionVars, stageVars, TypeOK, DrainsOnTrack, OnTrack,
        StagesOnTrack, OutcomeIsTrue, IntentIsTrue
<1>11. ASSUME NEW w \in Worker, MarkActivating(w)
      PROVE  IntentIsTrue'
  BY <1>11
    DEF MarkActivating, deletionVars, stageVars, TypeOK, DrainsOnTrack, OnTrack,
        StagesOnTrack, OutcomeIsTrue, IntentIsTrue
<1>12. ASSUME NEW w \in Worker, ResumeStage(w)
      PROVE  IntentIsTrue'
  BY <1>12
    DEF ResumeStage, deletionVars, stageVars, TypeOK, DrainsOnTrack, OnTrack,
        StagesOnTrack, OutcomeIsTrue, IntentIsTrue
<1>13. ASSUME NEW w \in Worker, Load(w)
      PROVE  IntentIsTrue'
  BY <1>13
    DEF Load, deletionVars, stageVars, TypeOK, DrainsOnTrack, OnTrack,
        StagesOnTrack, OutcomeIsTrue, IntentIsTrue
<1>14. ASSUME NEW w \in Worker, Switch(w)
      PROVE  IntentIsTrue'
  <2>1. /\ run[w] \in Job
        /\ stage' = [stage EXCEPT ![run[w]] = "ACTIVE"]
        /\ SetIntent(run[w], "SUCCEEDED")
    BY <1>14, RunIsJob DEF Switch, SetStage
  <2>2. \A j \in DeletionJob : IF j = run[w] THEN stage'[j] = "ACTIVE" /\ intent'[j] = "SUCCEEDED"
                                             ELSE stage'[j] = stage[j] /\ intent'[j] = intent[j]
    <3>1. ASSUME NEW j \in DeletionJob
          PROVE  IF j = run[w] THEN stage'[j] = "ACTIVE" /\ intent'[j] = "SUCCEEDED"
                               ELSE stage'[j] = stage[j] /\ intent'[j] = intent[j]
      <4>1. j \in Job
        BY KindsAreDisjoint
      <4>2. CASE run[w] \in DeletionJob
        BY <2>1, <4>1, <4>2, IntentEffect DEF TypeOK
      <4>3. CASE run[w] \notin DeletionJob
        BY <2>1, <4>1, <4>3, IntentEffect DEF TypeOK
      <4> QED BY <4>2, <4>3
    <3> QED BY <3>1
  <2> QED BY <2>2 DEF IntentIsTrue
<1>15. ASSUME NEW w \in Worker, Acknowledge(w)
      PROVE  IntentIsTrue'
  BY <1>15
    DEF Acknowledge, SetIntent, stageVars, TypeOK, DrainsOnTrack, OnTrack,
        StagesOnTrack, OutcomeIsTrue, IntentIsTrue
<1>16. ASSUME NEW w \in Worker, MarkSucceeded(w)
      PROVE  IntentIsTrue'
  BY <1>16
    DEF MarkSucceeded, Done, deletionVars, stageVars, TypeOK, DrainsOnTrack,
        OnTrack, StagesOnTrack, OutcomeIsTrue, IntentIsTrue
<1>17. ASSUME NEW w \in Worker, Reject(w)
      PROVE  IntentIsTrue'
  BY <1>17, RejectEffect
    DEF Raise, deletionVars, stageVars, TypeOK, DrainsOnTrack, OnTrack,
        StagesOnTrack, OutcomeIsTrue, IntentIsTrue
<1>18. ASSUME NEW w \in Worker, Handle(w)
      PROVE  IntentIsTrue'
  <2>1. OnlyFails /\ UNCHANGED intent
    BY <1>18, HandleEffect, RunIsJob, DiscardOnlyFails DEF deletionVars
  <2> QED BY <2>1, FailuresKeepIntent
<1>19. ASSUME NEW w \in Worker, MarkFailed(w)
      PROVE  IntentIsTrue'
  <2>1. UNCHANGED stage
    BY <1>19, MarkFailedEffect DEF stageVars
  <2>2. CASE intent' = intent
    BY <2>1, <2>2 DEF IntentIsTrue
  <2>3. CASE /\ jobState[run[w]] \in {"queued", "running", "verifying"}
             /\ intent' = [intent EXCEPT ![run[w]] = "FAILED"]
    BY <2>1, <2>3, KindsAreDisjoint DEF TypeOK, OutcomeIsTrue, IntentIsTrue
  <2> QED BY <1>19, <2>2, <2>3, MarkFailedEffect
<1>20. ASSUME NEW w \in Worker, Start(w)
      PROVE  IntentIsTrue'
  BY <1>20
    DEF Start, deletionVars, stageVars, TypeOK, DrainsOnTrack, OnTrack,
        StagesOnTrack, OutcomeIsTrue, IntentIsTrue
<1>21. ASSUME NEW w \in Worker, RecoverStopped(w)
      PROVE  IntentIsTrue'
  <2>1. OnlyFails /\ UNCHANGED intent
    BY <1>21, RetireOnlyFails DEF RecoverStopped, deletionVars
  <2> QED BY <2>1, FailuresKeepIntent
<1>22. ASSUME NEW w \in Worker, Recover(w)
      PROVE  IntentIsTrue'
  <2>1. OnlyFails /\ UNCHANGED intent
    BY <1>22, RecoverEffect, RetireOnlyFails DEF deletionVars
  <2> QED BY <2>1, FailuresKeepIntent
<1>23. ASSUME NEW w \in Worker, NEW replaced \in SUBSET RollbackJob, CommitFacts(w, replaced)
      PROVE  IntentIsTrue'
  BY <1>23
    DEF CommitFacts, deletionVars, stageVars, TypeOK, DrainsOnTrack, OnTrack,
        StagesOnTrack, OutcomeIsTrue, IntentIsTrue
<1>24. ASSUME NEW w \in Worker, ActivateFacts(w)
      PROVE  IntentIsTrue'
  BY <1>24
    DEF ActivateFacts, Published, deletionVars, stageVars, TypeOK, DrainsOnTrack,
        OnTrack, StagesOnTrack, OutcomeIsTrue, IntentIsTrue
<1>25. ASSUME NEW w \in Worker, NEW j \in DeletionJob, Delete(w, j)
      PROVE  IntentIsTrue'
  BY <1>25
    DEF Delete, stageVars, TypeOK, DrainsOnTrack, OnTrack, StagesOnTrack,
        OutcomeIsTrue, IntentIsTrue
<1>26. ASSUME NEW w \in Worker, NEW j \in Job, Enqueue(w, j)
      PROVE  IntentIsTrue'
  BY <1>26
    DEF Enqueue, deletionVars, stageVars, TypeOK, DrainsOnTrack, OnTrack,
        StagesOnTrack, OutcomeIsTrue, IntentIsTrue
<1>27. ASSUME NEW w \in Worker, NEW j \in Job, Cancel(w, j)
      PROVE  IntentIsTrue'
  BY <1>27
    DEF Cancel, deletionVars, stageVars, TypeOK, DrainsOnTrack, OnTrack,
        StagesOnTrack, OutcomeIsTrue, IntentIsTrue
<1>28. ASSUME NEW w \in Worker, NEW j \in RollbackJob, NEW replaced \in SUBSET RollbackJob,
             Rollback(w, j, replaced)
      PROVE  IntentIsTrue'
  BY <1>28
    DEF Rollback, deletionVars, stageVars, TypeOK, DrainsOnTrack, OnTrack,
        StagesOnTrack, OutcomeIsTrue, IntentIsTrue
<1>29. ASSUME NEW w \in Worker, Exit(w)
      PROVE  IntentIsTrue'
  BY <1>29
    DEF Exit, deletionVars, stageVars, TypeOK, DrainsOnTrack, OnTrack,
        StagesOnTrack, OutcomeIsTrue, IntentIsTrue
<1>30. CASE UNCHANGED vars
  BY <1>30
    DEF vars, deletionVars, stageVars, TypeOK, DrainsOnTrack, OnTrack,
        StagesOnTrack, OutcomeIsTrue, IntentIsTrue
<1> QED
  BY <1>1, <1>2, <1>3, <1>4, <1>5, <1>6, <1>7, <1>8, <1>9, <1>10, <1>11, <1>12,
     <1>13, <1>14, <1>15, <1>16, <1>17, <1>18, <1>19, <1>20, <1>21, <1>22, <1>23,
     <1>24, <1>25, <1>26, <1>27, <1>28, <1>29, <1>30
  DEF Next, RunnerStep, StartStep, CallStep

-----------------------------------------------------------------------------
(* Versions and epochs.                                                    *)

valueVars == <<version, revision, pending, deleted, erased, shown, bound,
               built, expected, base>>

\* The steps that are about versions; the others leave them alone.
ValueStep(w) ==
    \/ Begin(w) \/ Build(w) \/ Switch(w) \/ Recover(w) \/ ActivateFacts(w)
    \/ \E replaced \in SUBSET RollbackJob : CommitFacts(w, replaced)
    \/ \E j \in DeletionJob : Delete(w, j)
    \/ \E j \in Job : Enqueue(w, j)
    \/ \E j \in RollbackJob, replaced \in SUBSET RollbackJob : Rollback(w, j, replaced)

\* The steps that are not about versions change none.
LEMMA ValueSteps ==
    ASSUME [Next]_vars
    PROVE  UNCHANGED valueVars \/ \E w \in Worker : ValueStep(w)
<1>1. ASSUME NEW w \in Worker, NEW j \in Job, ClaimActivating(w, j)
      PROVE  UNCHANGED valueVars
  BY <1>1
    DEF ClaimActivating, valueVars, ledgerVars, deletionVars, jobVars, stageVars
<1>2. ASSUME NEW w \in Worker, NEW j \in Job, ClaimQueued(w, j)
      PROVE  UNCHANGED valueVars
  BY <1>2 DEF ClaimQueued, valueVars, ledgerVars, stageVars
<1>3. ASSUME NEW w \in Worker, DrainEnds(w)
      PROVE  UNCHANGED valueVars
  BY <1>3 DEF DrainEnds, valueVars, ledgerVars, deletionVars, jobVars, stageVars
<1>4. ASSUME NEW w \in Worker, Read(w)
      PROVE  UNCHANGED valueVars
  BY <1>4 DEF Read, valueVars, ledgerVars, deletionVars, jobVars, stageVars
<1>5. ASSUME NEW w \in Worker, Poll(w)
      PROVE  UNCHANGED valueVars
  BY <1>5, PollEffect DEF valueVars, ledgerVars, deletionVars, jobVars
<1>6. ASSUME NEW w \in Worker, MarkVerifying(w)
      PROVE  UNCHANGED valueVars
  BY <1>6 DEF MarkVerifying, valueVars, ledgerVars, deletionVars, stageVars
<1>7. ASSUME NEW w \in Worker, VerifyStage(w)
      PROVE  UNCHANGED valueVars
  BY <1>7 DEF VerifyStage, valueVars, ledgerVars, deletionVars, jobVars
<1>8. ASSUME NEW w \in Worker, Recheck(w)
      PROVE  UNCHANGED valueVars
  BY <1>8 DEF Recheck, valueVars, ledgerVars, deletionVars, jobVars, stageVars
<1>9. ASSUME NEW w \in Worker, MarkActivating(w)
      PROVE  UNCHANGED valueVars
  BY <1>9 DEF MarkActivating, valueVars, ledgerVars, deletionVars, stageVars
<1>10. ASSUME NEW w \in Worker, ResumeStage(w)
      PROVE  UNCHANGED valueVars
  BY <1>10 DEF ResumeStage, valueVars, ledgerVars, deletionVars, jobVars, stageVars
<1>11. ASSUME NEW w \in Worker, Load(w)
      PROVE  UNCHANGED valueVars
  BY <1>11 DEF Load, valueVars, ledgerVars, deletionVars, jobVars, stageVars
<1>12. ASSUME NEW w \in Worker, Acknowledge(w)
      PROVE  UNCHANGED valueVars
  BY <1>12 DEF Acknowledge, valueVars, ledgerVars, jobVars, stageVars
<1>13. ASSUME NEW w \in Worker, MarkSucceeded(w)
      PROVE  UNCHANGED valueVars
  BY <1>13 DEF MarkSucceeded, valueVars, ledgerVars, deletionVars, stageVars
<1>14. ASSUME NEW w \in Worker, Reject(w)
      PROVE  UNCHANGED valueVars
  BY <1>14, RejectEffect DEF valueVars, ledgerVars, deletionVars, jobVars, stageVars
<1>15. ASSUME NEW w \in Worker, Handle(w)
      PROVE  UNCHANGED valueVars
  BY <1>15, HandleEffect DEF valueVars, ledgerVars, deletionVars, jobVars
<1>16. ASSUME NEW w \in Worker, MarkFailed(w)
      PROVE  UNCHANGED valueVars
  BY <1>16, MarkFailedEffect DEF valueVars, ledgerVars, stageVars
<1>17. ASSUME NEW w \in Worker, Start(w)
      PROVE  UNCHANGED valueVars
  BY <1>17 DEF Start, valueVars, ledgerVars, deletionVars, jobVars, stageVars
<1>18. ASSUME NEW w \in Worker, RecoverStopped(w)
      PROVE  UNCHANGED valueVars
  BY <1>18 DEF RecoverStopped, valueVars, ledgerVars, deletionVars, jobVars
<1>19. ASSUME NEW w \in Worker, NEW j \in Job, Cancel(w, j)
      PROVE  UNCHANGED valueVars
  BY <1>19 DEF Cancel, valueVars, ledgerVars, deletionVars, stageVars
<1>20. ASSUME NEW w \in Worker, Exit(w)
      PROVE  UNCHANGED valueVars
  BY <1>20 DEF Exit, valueVars, ledgerVars, deletionVars, jobVars, stageVars
<1>21. CASE UNCHANGED vars
  BY <1>21 DEF vars, valueVars, ledgerVars, deletionVars, jobVars, stageVars
<1> QED
  BY <1>1, <1>2, <1>3, <1>4, <1>5, <1>6, <1>7, <1>8, <1>9, <1>10, <1>11, <1>12,
     <1>13, <1>14, <1>15, <1>16, <1>17, <1>18, <1>19, <1>20, <1>21
  DEF Next, RunnerStep, StartStep, CallStep, ValueStep

\* A stage that is active stays so, and only a switch makes one active.
LEMMA ActiveStays ==
    ASSUME TypeOK, DrainsOnTrack, StagesOnTrack, [Next]_vars
    PROVE  /\ \A j \in Job : stage[j] = "ACTIVE" => stage'[j] = "ACTIVE"
           /\ \/ \A j \in Job : stage'[j] = "ACTIVE" => stage[j] = "ACTIVE"
              \/ \E w \in Worker : Switch(w)
<1> DEFINE Same == \A j \in Job : stage'[j] = "ACTIVE" <=> stage[j] = "ACTIVE"
<1>0. OnlyFails => Same
  BY DEF OnlyFails
<1>1. ASSUME NEW w \in Worker, NEW j \in Job, ClaimActivating(w, j)
      PROVE  Same
  BY <1>1 DEF ClaimActivating, stageVars
<1>2. ASSUME NEW w \in Worker, NEW j \in Job, ClaimQueued(w, j)
      PROVE  Same
  BY <1>2 DEF ClaimQueued, stageVars
<1>3. ASSUME NEW w \in Worker, DrainEnds(w)
      PROVE  Same
  BY <1>3 DEF DrainEnds, stageVars
<1>4. ASSUME NEW w \in Worker, Read(w)
      PROVE  Same
  BY <1>4 DEF Read, stageVars
<1>5. ASSUME NEW w \in Worker, Begin(w)
      PROVE  Same
  BY <1>5, RunIsJob DEF Begin, SetStage, StagesOnTrack, TypeOK
<1>6. ASSUME NEW w \in Worker, Build(w)
      PROVE  Same
  BY <1>6 DEF Build
<1>7. ASSUME NEW w \in Worker, Poll(w)
      PROVE  Same
  BY <1>0, <1>7, PollEffect, RunIsJob, DiscardOnlyFails
<1>8. ASSUME NEW w \in Worker, MarkVerifying(w)
      PROVE  Same
  BY <1>8 DEF MarkVerifying, stageVars
<1>9. ASSUME NEW w \in Worker, VerifyStage(w)
      PROVE  Same
  BY <1>9, RunIsJob DEF VerifyStage, SetStage, TypeOK
<1>10. ASSUME NEW w \in Worker, Recheck(w)
      PROVE  Same
  BY <1>10 DEF Recheck, stageVars
<1>11. ASSUME NEW w \in Worker, MarkActivating(w)
      PROVE  Same
  BY <1>11 DEF MarkActivating, stageVars
<1>12. ASSUME NEW w \in Worker, ResumeStage(w)
      PROVE  Same
  BY <1>12 DEF ResumeStage, stageVars
<1>13. ASSUME NEW w \in Worker, Load(w)
      PROVE  Same
  BY <1>13 DEF Load, stageVars
<1>14. ASSUME NEW w \in Worker, Acknowledge(w)
      PROVE  Same
  BY <1>14 DEF Acknowledge, stageVars
<1>15. ASSUME NEW w \in Worker, MarkSucceeded(w)
      PROVE  Same
  BY <1>15 DEF MarkSucceeded, stageVars
<1>16. ASSUME NEW w \in Worker, Reject(w)
      PROVE  Same
  BY <1>16, RejectEffect DEF stageVars
<1>17. ASSUME NEW w \in Worker, Handle(w)
      PROVE  Same
  BY <1>0, <1>17, HandleEffect, RunIsJob, DiscardOnlyFails
<1>18. ASSUME NEW w \in Worker, MarkFailed(w)
      PROVE  Same
  BY <1>18, MarkFailedEffect DEF stageVars
<1>19. ASSUME NEW w \in Worker, Start(w)
      PROVE  Same
  BY <1>19 DEF Start, stageVars
<1>20. ASSUME NEW w \in Worker, RecoverStopped(w)
      PROVE  Same
  BY <1>0, <1>20, RetireOnlyFails DEF RecoverStopped
<1>21. ASSUME NEW w \in Worker, Recover(w)
      PROVE  Same
  BY <1>0, <1>21, RetireOnlyFails, RecoverEffect
<1>22. ASSUME NEW w \in Worker, NEW replaced \in SUBSET RollbackJob, CommitFacts(w, replaced)
      PROVE  Same
  BY <1>22 DEF CommitFacts, stageVars
<1>23. ASSUME NEW w \in Worker, ActivateFacts(w)
      PROVE  Same
  BY <1>23 DEF ActivateFacts, stageVars
<1>24. ASSUME NEW w \in Worker, NEW j \in DeletionJob, Delete(w, j)
      PROVE  Same
  BY <1>24 DEF Delete, stageVars
<1>25. ASSUME NEW w \in Worker, NEW j \in Job, Enqueue(w, j)
      PROVE  Same
  BY <1>25 DEF Enqueue, stageVars
<1>26. ASSUME NEW w \in Worker, NEW j \in Job, Cancel(w, j)
      PROVE  Same
  BY <1>26 DEF Cancel, stageVars
<1>27. ASSUME NEW w \in Worker, NEW j \in RollbackJob, NEW replaced \in SUBSET RollbackJob,
             Rollback(w, j, replaced)
      PROVE  Same
  BY <1>27 DEF Rollback, stageVars
<1>28. ASSUME NEW w \in Worker, Exit(w)
      PROVE  Same
  BY <1>28 DEF Exit, stageVars
<1>29. CASE UNCHANGED vars
  BY <1>29 DEF vars, stageVars
<1>30. ASSUME NEW w \in Worker, Switch(w)
      PROVE  \A j \in Job : stage[j] = "ACTIVE" => stage'[j] = "ACTIVE"
  BY <1>30 DEF Switch, SetStage, TypeOK
<1> QED
  BY <1>0, <1>1, <1>2, <1>3, <1>4, <1>5, <1>6, <1>7, <1>8, <1>9, <1>10, <1>11,
     <1>12, <1>13, <1>14, <1>15, <1>16, <1>17, <1>18, <1>19, <1>20, <1>21, <1>22,
     <1>23, <1>24, <1>25, <1>26, <1>27, <1>28, <1>29, <1>30
  DEF Next, RunnerStep, StartStep, CallStep

\* A sequence without elements.
LEMMA EmptyDomain == DOMAIN <<>> = {}
OBVIOUS

\* The elements of a sequence that has grown.
LEMMA AppendElements ==
    ASSUME NEW s \in Seq(Nat), NEW n \in Nat, NEW i \in DOMAIN Append(s, n)
    PROVE  Append(s, n)[i] = n \/ (i \in DOMAIN s /\ Append(s, n)[i] = s[i])
OBVIOUS

\* Before its stage a job has no artifacts.
LEMMA NothingBuilt ==
    ASSUME StagesOnTrack, NEW j \in Job, jobState[j] = "absent"
    PROVE  built[j] = <<>>
BY DEF StagesOnTrack

\* A job is bound to the authority of the moment.
LEMMA BoundEffect ==
    ASSUME TypeOK, NEW w, NEW j \in Job,
           \/ Enqueue(w, j)
           \/ j \in RollbackJob /\ \E replaced \in SUBSET RollbackJob : Rollback(w, j, replaced)
    PROVE  /\ jobState[j] = "absent"
           /\ \A k \in Job : k # j => bound'[k] = bound[k]
           /\ bound'[j].version = version' /\ bound'[j].revision = revision'
           /\ version' \in {version, version + 1}
           /\ UNCHANGED <<revision, pending, deleted, erased, shown, stageVars>>
<1>1. CASE Enqueue(w, j)
  <2>1. bound' = [bound EXCEPT ![j] = [version |-> version, revision |-> revision,
                                       deleted |-> deleted]]
    BY <1>1 DEF Enqueue, Snapshot
  <2> QED BY <1>1, <2>1 DEF TypeOK, Enqueue, ledgerVars, deletionVars
<1>2. ASSUME NEW replaced \in SUBSET RollbackJob, Rollback(w, j, replaced)
      PROVE  /\ jobState[j] = "absent"
             /\ \A k \in Job : k # j => bound'[k] = bound[k]
             /\ bound'[j].version = version' /\ bound'[j].revision = revision'
             /\ version' \in {version, version + 1}
             /\ UNCHANGED <<revision, pending, deleted, erased, shown, stageVars>>
  <2>1. bound' = [bound EXCEPT ![j] = [Snapshot EXCEPT !.version = version + 1]]
    BY <1>2 DEF Rollback
  <2>2. [Snapshot EXCEPT !.version = version + 1] =
            [version |-> version + 1, revision |-> revision, deleted |-> deleted]
    BY DEF Snapshot
  <2> QED BY <1>2, <2>1, <2>2 DEF TypeOK, Rollback, deletionVars
<1> QED BY <1>1, <1>2

\* An epoch is replaced by one of the past, made of what is deleted now.
LEMMA ShownEffect ==
    ASSUME TypeOK, DrainsOnTrack, NothingAhead, NEW w \in Worker,
           Switch(w) \/ Recover(w) \/ ActivateFacts(w)
    PROVE  /\ shown' = shown \/ /\ shown'.epoch = shown.epoch + 1
                                /\ shown'.deleted = deleted
                                /\ shown'.version <= version
           /\ UNCHANGED <<version, revision, deleted, erased, bound, built, expected, base>>
           /\ pending' \in {pending, None}
<1>0. /\ version \in Nat /\ deleted \in Nat
      /\ pending # None => pending.version \in Nat /\ pending.version <= version
  BY DEF TypeOK, NothingAhead
<1>1. CASE Switch(w)
  <2>1. run[w] \in Job
    BY <1>1, RunIsJob DEF Switch
  <2>2. /\ shown' = Replaced(run[w])
        /\ bound[run[w]].deleted = deleted
        /\ bound[run[w]].version <= version
    BY <1>1, <2>1 DEF Switch, MaySwitch, Authorised, NothingAhead
  <2> QED BY <1>1, <2>2 DEF Switch, Replaced, ledgerVars, jobVars
<1>2. CASE Recover(w)
  <2>1. shown' = shown \/ shown' = Published(shown.epoch + 1, version, deleted)
    BY <1>2, RecoverEffect
  <2> QED BY <1>0, <1>2, <2>1, RecoverEffect DEF Published, deletionVars, jobVars
<1>3. CASE ActivateFacts(w)
  BY <1>0, <1>3 DEF ActivateFacts, Published, deletionVars, jobVars, stageVars
<1> QED BY <1>1, <1>2, <1>3

\* A commit moves the ledger and what is pending.
LEMMA CommitEffect ==
    ASSUME TypeOK, NEW w, NEW replaced, CommitFacts(w, replaced)
    PROVE  /\ version' = version + 1 /\ revision' = version + 1
           /\ pending'.version = version + 1 /\ pending'.expected = shown.epoch
           /\ UNCHANGED <<deleted, erased, shown, bound, built, expected, base>>
BY DEF CommitFacts, deletionVars, jobVars, stageVars

\* The numbers in the state.
LEMMA NumbersTyped ==
    ASSUME TypeOK
    PROVE  /\ version \in Nat /\ revision \in Nat /\ deleted \in Nat
           /\ shown.epoch \in Nat /\ shown.version \in Nat /\ shown.deleted \in Nat
           /\ shown.by \in Job \cup {None} /\ shown.built \in Seq(Nat)
           /\ pending # None => pending.version \in Nat /\ pending.expected \in Nat
           /\ \A j \in Job : /\ bound[j].version \in Nat /\ bound[j].revision \in Nat
                             /\ bound[j].deleted \in Nat
                             /\ expected[j].epoch \in Nat /\ base[j] \in Nat
                             /\ built[j] \in Seq(Nat)
                             /\ \A i \in DOMAIN built[j] : built[j][i] \in Nat
           /\ \A j \in DeletionJob : erased[j] \in Nat
<1>1. /\ version \in Nat /\ revision \in Nat /\ deleted \in Nat
      /\ \A j \in DeletionJob : erased[j] \in Nat
  BY DEF TypeOK
<1>2. /\ shown.epoch \in Nat /\ shown.version \in Nat /\ shown.deleted \in Nat
      /\ shown.by \in Job \cup {None} /\ shown.built \in Seq(Nat)
  <2>1. shown \in Closure
    BY DEF TypeOK
  <2> QED BY <2>1 DEF Closure
<1>3. pending # None => pending.version \in Nat /\ pending.expected \in Nat
  <2>1. pending \in [version : Nat, deleted : Nat, expected : Nat] \cup {None}
    BY DEF TypeOK
  <2> QED BY <2>1
<1>4. ASSUME NEW j \in Job
      PROVE  /\ bound[j].version \in Nat /\ bound[j].revision \in Nat
             /\ bound[j].deleted \in Nat
             /\ expected[j].epoch \in Nat /\ base[j] \in Nat
             /\ built[j] \in Seq(Nat)
             /\ \A i \in DOMAIN built[j] : built[j][i] \in Nat
  <2>1. bound[j] \in Authority /\ expected[j] \in Closure /\ base[j] \in Nat
    BY DEF TypeOK
  <2>2. built[j] \in Seq(Nat)
    BY DEF TypeOK
  <2>3. \A i \in DOMAIN built[j] : built[j][i] \in Nat
    BY <2>2
  <2> QED BY <2>1, <2>2, <2>3 DEF Authority, Closure
<1> QED BY <1>1, <1>2, <1>3, <1>4

\* Versions and epochs only grow, and are copied from what is.
LEMMA AheadStep ==
    ASSUME TypeOK, DrainsOnTrack, StagesOnTrack, NothingAhead, [Next]_vars
    PROVE  NothingAhead'
<1> DEFINE Past(j) ==
             /\ bound[j].revision <= bound[j].version
             /\ bound[j].version <= version
             /\ expected[j].epoch <= shown.epoch
             /\ base[j] <= version
             /\ \A i \in DOMAIN built[j] : base[j] <= built[j][i] /\ built[j][i] <= version
<1>0. /\ version \in Nat /\ revision \in Nat /\ deleted \in Nat /\ shown.epoch \in Nat
      /\ shown.version \in Nat
      /\ pending # None => pending.version \in Nat /\ pending.expected \in Nat
      /\ \A j \in Job : /\ bound[j].version \in Nat /\ bound[j].revision \in Nat
                        /\ expected[j].epoch \in Nat /\ base[j] \in Nat
                        /\ built[j] \in Seq(Nat)
                        /\ \A i \in DOMAIN built[j] : built[j][i] \in Nat
      /\ \A j \in DeletionJob : erased[j] \in Nat
  BY NumbersTyped
<1>1. CASE UNCHANGED valueVars
  BY <1>1 DEF valueVars, NothingAhead
<1>2. ASSUME NEW w \in Worker, Begin(w)
      PROVE  NothingAhead'
  <2>1. /\ run[w] \in Job
        /\ built[run[w]] = <<>>
        /\ expected' = [expected EXCEPT ![run[w]] = shown]
        /\ base' = [base EXCEPT ![run[w]] = version]
        /\ UNCHANGED <<version, revision, pending, deleted, erased, shown, bound, built>>
    BY <1>2, RunIsJob DEF Begin, StagesOnTrack, ledgerVars, deletionVars, jobVars
  <2>2. ASSUME NEW j \in Job
        PROVE  Past(j)'
    <3>1. CASE j = run[w]
      BY <1>0, <2>1, <3>1, EmptyDomain DEF TypeOK, NothingAhead
    <3>2. CASE j # run[w]
      BY <2>1, <3>2 DEF TypeOK, NothingAhead
    <3> QED BY <3>1, <3>2
  <2> QED BY <2>1, <2>2 DEF NothingAhead
<1>3. ASSUME NEW w \in Worker, Build(w)
      PROVE  NothingAhead'
  <2>0. run[w] \in Job
    BY <1>3, RunIsJob DEF Build
  <2>1. /\ run[w] \in Job
        /\ built' = [built EXCEPT ![run[w]] = Append(built[run[w]], version)]
        /\ UNCHANGED <<version, revision, pending, deleted, erased, shown, bound,
                       expected, base>>
    BY <1>3, <2>0 DEF Build, ledgerVars, deletionVars, jobVars
  <2>2. ASSUME NEW j \in Job
        PROVE  Past(j)'
    <3>1. CASE j = run[w]
      <4>1. built'[j] = Append(built[j], version)
        BY <2>1, <3>1 DEF TypeOK
      <4>2. ASSUME NEW i \in DOMAIN built'[j]
            PROVE  base[j] <= built'[j][i] /\ built'[j][i] <= version
        <5>1. base[j] <= version
          BY DEF NothingAhead
        <5>2. CASE built'[j][i] = version
          BY <1>0, <5>1, <5>2
        <5>3. CASE i \in DOMAIN built[j] /\ built'[j][i] = built[j][i]
          BY <5>3 DEF NothingAhead
        <5> QED BY <1>0, <4>1, <4>2, <5>2, <5>3, AppendElements
      <4> QED BY <2>1, <4>2 DEF NothingAhead
    <3>2. CASE j # run[w]
      BY <2>1, <3>2 DEF TypeOK, NothingAhead
    <3> QED BY <3>1, <3>2
  <2> QED BY <2>1, <2>2 DEF NothingAhead
<1>4. ASSUME NEW w \in Worker, Switch(w) \/ Recover(w) \/ ActivateFacts(w)
      PROVE  NothingAhead'
  <2>1. /\ shown' = shown \/ /\ shown'.epoch = shown.epoch + 1
                             /\ shown'.version <= version
        /\ UNCHANGED <<version, revision, deleted, erased, bound, built, expected, base>>
        /\ pending' \in {pending, None}
    BY <1>4, ShownEffect
  <2>2. /\ shown.epoch <= shown'.epoch /\ shown'.epoch \in Nat
        /\ shown'.version <= version
    BY <1>0, <2>1 DEF NothingAhead
  <2>3. ASSUME NEW j \in Job
        PROVE  Past(j)'
    <3>1. Past(j)
      BY DEF NothingAhead
    <3>2. expected[j].epoch <= shown'.epoch
      BY <1>0, <2>2, <3>1
    <3> QED BY <2>1, <3>1, <3>2
  <2>4. ASSUME pending' # None
        PROVE  pending'.version <= version /\ pending'.expected <= shown'.epoch
    <3>1. pending' = pending
      BY <2>1, <2>4
    <3>2. pending.version <= version /\ pending.expected <= shown.epoch
      BY <2>4, <3>1 DEF NothingAhead
    <3>3. pending.expected <= shown'.epoch
      <4>1. pending.expected \in Nat /\ shown.epoch \in Nat
        BY <1>0, <2>4, <3>1
      <4> QED BY <2>2, <3>2, <4>1
    <3> QED BY <3>1, <3>2, <3>3
  <2>5. revision <= version /\ \A j \in DeletionJob : erased[j] <= deleted
    BY DEF NothingAhead
  <2> QED BY <2>1, <2>2, <2>3, <2>4, <2>5 DEF NothingAhead
<1>5. ASSUME NEW w \in Worker, NEW replaced \in SUBSET RollbackJob, CommitFacts(w, replaced)
      PROVE  NothingAhead'
  <2>1. /\ version' = version + 1 /\ revision' = version'
        /\ pending'.version = version' /\ pending'.expected = shown.epoch
        /\ UNCHANGED <<deleted, erased, shown, bound, built, expected, base>>
    BY <1>5, CommitEffect
  <2>2. ASSUME NEW j \in Job
        PROVE  Past(j)'
    <3>1. Past(j)
      BY DEF NothingAhead
    <3>2. bound[j].version <= version' /\ base[j] <= version'
      BY <1>0, <2>1, <3>1
    <3>3. ASSUME NEW i \in DOMAIN built[j]
          PROVE  base[j] <= built[j][i] /\ built[j][i] <= version'
      BY <1>0, <2>1, <3>1, <3>3
    <3> QED BY <2>1, <3>1, <3>2, <3>3
  <2>3. /\ revision' <= version' /\ shown.version <= version'
        /\ pending'.version <= version' /\ pending'.expected <= shown.epoch
        /\ \A j \in DeletionJob : erased[j] <= deleted
    BY <1>0, <2>1 DEF NothingAhead
  <2> QED BY <2>1, <2>2, <2>3 DEF NothingAhead
<1>6. ASSUME NEW w \in Worker, NEW j \in DeletionJob, Delete(w, j)
      PROVE  NothingAhead'
  <2>1. /\ \A k \in DeletionJob : erased'[k] <= deleted'
        /\ UNCHANGED <<version, revision, pending, shown, bound, built, expected, base>>
    BY <1>0, <1>6 DEF TypeOK, NothingAhead, Delete, ledgerVars, jobVars, stageVars
  <2> QED BY <2>1 DEF NothingAhead
<1>7. ASSUME NEW w \in Worker, NEW j \in Job,
             \/ Enqueue(w, j)
             \/ j \in RollbackJob /\ \E replaced \in SUBSET RollbackJob : Rollback(w, j, replaced)
      PROVE  NothingAhead'
  <2>1. /\ version' \in {version, version + 1}
        /\ UNCHANGED <<revision, pending, deleted, erased, shown, stageVars>>
        /\ bound'[j].version = version' /\ bound'[j].revision = revision'
        /\ \A k \in Job : k # j => bound'[k] = bound[k]
    <3>1. CASE Enqueue(w, j)
      BY <3>1, BoundEffect
    <3>2. CASE /\ j \in RollbackJob
               /\ \E replaced \in SUBSET RollbackJob : Rollback(w, j, replaced)
      BY <3>2, BoundEffect
    <3> QED BY <1>7, <3>1, <3>2
  <2>2. version <= version' /\ version' \in Nat
    BY <1>0, <2>1
  <2>3. ASSUME NEW k \in Job
        PROVE  Past(k)'
    <3>1. /\ bound'[k].revision <= bound'[k].version
          /\ bound'[k].version <= version'
      <4>1. CASE k = j
        BY <1>0, <2>1, <2>2, <4>1 DEF NothingAhead
      <4>2. CASE k # j
        BY <1>0, <2>1, <2>2, <4>2 DEF NothingAhead
      <4> QED BY <4>1, <4>2
    <3>2. /\ expected'[k].epoch <= shown'.epoch /\ base'[k] <= version'
          /\ \A i \in DOMAIN built'[k] : base'[k] <= built'[k][i] /\ built'[k][i] <= version'
      BY <1>0, <2>1, <2>2 DEF NothingAhead, stageVars
    <3> QED BY <3>1, <3>2
  <2> QED BY <1>0, <2>1, <2>2, <2>3 DEF NothingAhead
<1> QED
  BY <1>1, <1>2, <1>3, <1>4, <1>5, <1>6, <1>7, ValueSteps, KindsAreDisjoint
    DEF ValueStep

\* What waits for the present epoch holds its facts: a builder compares the
\* revision its job is bound to, an activation makes every other expectation late.
LEMMA ReplacementStep ==
    ASSUME TypeOK, DrainsOnTrack, StagesOnTrack, NothingAhead, ReplacementsHoldMore,
           [Next]_vars
    PROVE  ReplacementsHoldMore'
<1> DEFINE Waits == pending # None /\ pending.expected = shown.epoch =>
                        shown.version <= pending.version
           Holds(j) == /\ built[j] # <<>> /\ expected[j].epoch = shown.epoch =>
                              shown.version <= bound[j].version
                       /\ \A i \in DOMAIN built[j] : built[j][i] = bound[j].version
<1>0. /\ version \in Nat /\ revision \in Nat /\ shown.epoch \in Nat /\ shown.version \in Nat
      /\ pending # None => pending.version \in Nat /\ pending.expected \in Nat
      /\ \A j \in Job : /\ bound[j].version \in Nat /\ bound[j].revision \in Nat
                        /\ expected[j].epoch \in Nat /\ built[j] \in Seq(Nat)
  BY NumbersTyped
<1>1. CASE UNCHANGED valueVars
  BY <1>1 DEF valueVars, ReplacementsHoldMore
<1>2. ASSUME NEW w \in Worker, Begin(w)
      PROVE  ReplacementsHoldMore'
  <2>1. /\ run[w] \in Job
        /\ built[run[w]] = <<>>
        /\ expected' = [expected EXCEPT ![run[w]] = shown]
        /\ UNCHANGED <<pending, shown, bound, built>>
    BY <1>2, RunIsJob DEF Begin, StagesOnTrack, ledgerVars, jobVars
  <2>2. ASSUME NEW j \in Job \ RollbackJob
        PROVE  Holds(j)'
    <3>1. CASE j = run[w]
      BY <2>1, <3>1, EmptyDomain
    <3>2. CASE j # run[w]
      BY <2>1, <3>2 DEF TypeOK, ReplacementsHoldMore
    <3> QED BY <3>1, <3>2
  <2>3. Waits'
    BY <2>1 DEF ReplacementsHoldMore
  <2> QED BY <2>2, <2>3 DEF ReplacementsHoldMore
<1>3. ASSUME NEW w \in Worker, Build(w)
      PROVE  ReplacementsHoldMore'
  <2>1. run[w] \in Job
    BY <1>3, RunIsJob DEF Build
  <2>2. /\ built' = [built EXCEPT ![run[w]] = Append(built[run[w]], version)]
        /\ run[w] \notin RollbackJob => bound[run[w]].revision = version
        /\ UNCHANGED <<version, pending, shown, bound, expected>>
    BY <1>3, <2>1 DEF Build, Buildable, ledgerVars, jobVars
  <2>3. ASSUME NEW j \in Job \ RollbackJob
        PROVE  Holds(j)'
    <3>1. CASE j = run[w]
      <4>1. built'[j] = Append(built[j], version)
        BY <2>1, <2>2, <3>1 DEF TypeOK
      <4>2. bound[j].version = version
        BY <1>0, <2>2, <3>1 DEF NothingAhead
      <4>3. shown.version <= version
        BY DEF NothingAhead
      <4>4. ASSUME NEW i \in DOMAIN built'[j]
            PROVE  built'[j][i] = bound[j].version
        BY <1>0, <4>1, <4>2, <4>4, AppendElements DEF ReplacementsHoldMore
      <4> QED BY <2>2, <4>2, <4>3, <4>4
    <3>2. CASE j # run[w]
      BY <2>2, <3>2 DEF TypeOK, ReplacementsHoldMore
    <3> QED BY <3>1, <3>2
  <2>4. Waits'
    BY <2>2 DEF ReplacementsHoldMore
  <2> QED BY <2>3, <2>4 DEF ReplacementsHoldMore
<1>4. ASSUME NEW w \in Worker, Switch(w) \/ Recover(w) \/ ActivateFacts(w)
      PROVE  ReplacementsHoldMore'
  <2>1. /\ shown' = shown \/ shown'.epoch = shown.epoch + 1
        /\ UNCHANGED <<bound, built, expected>>
        /\ pending' \in {pending, None}
    BY <1>4, ShownEffect
  <2>2. CASE shown' = shown
    BY <2>1, <2>2 DEF ReplacementsHoldMore
  <2>3. CASE shown'.epoch = shown.epoch + 1
    <3>1. /\ \A j \in Job : expected[j].epoch # shown'.epoch
          /\ pending # None => pending.expected # shown'.epoch
      BY <1>0, <2>3 DEF NothingAhead
    <3> QED BY <2>1, <3>1 DEF ReplacementsHoldMore
  <2> QED BY <2>1, <2>2, <2>3
<1>5. ASSUME NEW w \in Worker, NEW replaced \in SUBSET RollbackJob, CommitFacts(w, replaced)
      PROVE  ReplacementsHoldMore'
  <2>1. /\ pending'.version = version + 1
        /\ UNCHANGED <<shown, bound, built, expected>>
    BY <1>5, CommitEffect
  <2>2. Waits'
    BY <1>0, <2>1 DEF NothingAhead
  <2> QED BY <2>1, <2>2 DEF ReplacementsHoldMore
<1>6. ASSUME NEW w \in Worker, NEW j \in DeletionJob, Delete(w, j)
      PROVE  ReplacementsHoldMore'
  BY <1>6 DEF ReplacementsHoldMore, Delete, ledgerVars, jobVars, stageVars
<1>7. ASSUME NEW w \in Worker, NEW j \in Job,
             \/ Enqueue(w, j)
             \/ j \in RollbackJob /\ \E replaced \in SUBSET RollbackJob : Rollback(w, j, replaced)
      PROVE  ReplacementsHoldMore'
  <2>1. /\ jobState[j] = "absent"
        /\ UNCHANGED <<pending, shown, stageVars>>
        /\ \A k \in Job : k # j => bound'[k] = bound[k]
    <3>1. CASE Enqueue(w, j)
      BY <3>1, BoundEffect
    <3>2. CASE /\ j \in RollbackJob
               /\ \E replaced \in SUBSET RollbackJob : Rollback(w, j, replaced)
      BY <3>2, BoundEffect
    <3> QED BY <1>7, <3>1, <3>2
  <2>2. built'[j] = <<>>
    BY <2>1, NothingBuilt DEF stageVars
  <2>3. ASSUME NEW k \in Job \ RollbackJob
        PROVE  Holds(k)'
    <3>1. CASE k = j
      BY <2>2, <3>1, EmptyDomain
    <3>2. CASE k # j
      BY <2>1, <3>2 DEF ReplacementsHoldMore, stageVars
    <3> QED BY <3>1, <3>2
  <2>4. Waits'
    BY <2>1 DEF ReplacementsHoldMore
  <2> QED BY <2>3, <2>4 DEF ReplacementsHoldMore
<1> QED
  BY <1>1, <1>2, <1>3, <1>4, <1>5, <1>6, <1>7, ValueSteps, KindsAreDisjoint
    DEF ValueStep

\* A publication's artifacts.
LEMMA PairElements ==
    ASSUME NEW v \in Nat
    PROVE  \A i \in DOMAIN <<v, v>> : <<v, v>>[i] = v
OBVIOUS

\* Nothing builds or binds again what is active.
LEMMA ShownStep ==
    ASSUME TypeOK, DrainsOnTrack, StagesOnTrack, NothingAhead, OutcomeIsTrue, ShownAsBuilt,
           [Next]_vars
    PROVE  ShownAsBuilt'
<1>0. /\ version \in Nat /\ deleted \in Nat /\ shown.by \in Job \cup {None}
      /\ \A j \in Job : stage[j] = "ACTIVE" => stage'[j] = "ACTIVE"
  BY NumbersTyped, ActiveStays
<1>1. ASSUME shown' = shown,
             shown.by # None => /\ bound'[shown.by] = bound[shown.by]
                                /\ built'[shown.by] = built[shown.by]
      PROVE  ShownAsBuilt'
  <2>1. CASE shown.by = None
    BY <1>1, <2>1 DEF ShownAsBuilt
  <2>2. CASE shown.by # None
    BY <1>0, <1>1, <2>2 DEF ShownAsBuilt
  <2> QED BY <2>1, <2>2
<1>2. ASSUME NEW n, NEW v \in Nat, NEW d, shown' = Published(n, v, d)
      PROVE  ShownAsBuilt'
  <2>1. /\ shown'.by = None /\ shown'.version = v /\ shown'.built = <<v, v>>
    BY <1>2 DEF Published
  <2> QED BY <2>1, PairElements DEF ShownAsBuilt
<1>3. CASE UNCHANGED valueVars
  BY <1>1, <1>3 DEF valueVars
<1>4. ASSUME NEW w \in Worker, Begin(w)
      PROVE  ShownAsBuilt'
  BY <1>1, <1>4 DEF Begin, jobVars
<1>5. ASSUME NEW w \in Worker, Build(w)
      PROVE  ShownAsBuilt'
  <2>1. run[w] \in Job
    BY <1>5, RunIsJob DEF Build
  <2>2. stage[run[w]] # "ACTIVE"
    BY <1>5, <2>1 DEF Build, DrainsOnTrack, OnTrack, OutcomeIsTrue
  <2>3. shown.by # None => shown.by # run[w]
    BY <2>2 DEF ShownAsBuilt
  <2>4. /\ built' = [built EXCEPT ![run[w]] = Append(built[run[w]], version)]
        /\ UNCHANGED <<shown, bound>>
    BY <1>5 DEF Build, jobVars
  <2>5. shown.by # None => built'[shown.by] = built[shown.by]
    BY <1>0, <2>3, <2>4 DEF TypeOK
  <2> QED BY <1>1, <2>4, <2>5
<1>6. ASSUME NEW w \in Worker, Switch(w)
      PROVE  ShownAsBuilt'
  <2>1. run[w] \in Job
    BY <1>6, RunIsJob DEF Switch
  <2>2. /\ shown'.by = run[w] /\ shown'.version = bound[run[w]].version
        /\ shown'.built = built[run[w]]
        /\ stage' = [stage EXCEPT ![run[w]] = "ACTIVE"]
        /\ UNCHANGED <<bound, built>>
    BY <1>6 DEF Switch, Replaced, SetStage, jobVars
  <2>3. stage'[run[w]] = "ACTIVE" /\ run[w] # None
    BY <2>1, <2>2, NoneIsNoJob DEF TypeOK
  <2> QED BY <2>2, <2>3 DEF ShownAsBuilt
<1>7. ASSUME NEW w \in Worker, Recover(w)
      PROVE  ShownAsBuilt'
  <2>1. /\ shown' = shown \/ shown' = Published(shown.epoch + 1, version, deleted)
        /\ UNCHANGED <<bound, built>>
    BY <1>7, RecoverEffect DEF jobVars
  <2> QED BY <1>0, <1>1, <1>2, <2>1
<1>8. ASSUME NEW w \in Worker, ActivateFacts(w)
      PROVE  ShownAsBuilt'
  <2>1. /\ shown' = Published(shown.epoch + 1, pending.version, pending.deleted)
        /\ pending.version \in Nat
    BY <1>8, NumbersTyped DEF ActivateFacts
  <2> QED BY <1>2, <2>1
<1>9. ASSUME NEW w \in Worker, NEW replaced \in SUBSET RollbackJob, CommitFacts(w, replaced)
      PROVE  ShownAsBuilt'
  BY <1>1, <1>9, CommitEffect
<1>10. ASSUME NEW w \in Worker, NEW j \in DeletionJob, Delete(w, j)
       PROVE  ShownAsBuilt'
  BY <1>1, <1>10 DEF Delete, jobVars, stageVars
<1>11. ASSUME NEW w \in Worker, NEW j \in Job,
              \/ Enqueue(w, j)
              \/ j \in RollbackJob /\ \E replaced \in SUBSET RollbackJob : Rollback(w, j, replaced)
       PROVE  ShownAsBuilt'
  <2>1. /\ jobState[j] = "absent"
        /\ UNCHANGED <<shown, stageVars>>
        /\ \A k \in Job : k # j => bound'[k] = bound[k]
    <3>1. CASE Enqueue(w, j)
      BY <3>1, BoundEffect
    <3>2. CASE /\ j \in RollbackJob
               /\ \E replaced \in SUBSET RollbackJob : Rollback(w, j, replaced)
      BY <3>2, BoundEffect
    <3> QED BY <1>11, <3>1, <3>2
  <2>2. stage[j] # "ACTIVE"
    BY <2>1 DEF OutcomeIsTrue
  <2>3. shown.by # None => shown.by # j
    BY <2>2 DEF ShownAsBuilt
  <2> QED BY <1>0, <1>1, <2>1, <2>3 DEF stageVars
<1> QED
  BY <1>3, <1>4, <1>5, <1>6, <1>7, <1>8, <1>9, <1>10, <1>11, ValueSteps,
     KindsAreDisjoint
  DEF ValueStep

\* A new epoch is made of all that is deleted; an intent is acknowledged with it.
LEMMA DeletionStep ==
    ASSUME TypeOK, DrainsOnTrack, StagesOnTrack, NothingAhead, IntentIsTrue, IntentIsTrue',
           DeletionIsEffective, [Next]_vars
    PROVE  DeletionIsEffective'
<1>0. /\ deleted \in Nat /\ shown.deleted \in Nat
      /\ \A j \in DeletionJob : erased[j] \in Nat /\ erased[j] <= deleted
      /\ \A j \in DeletionJob : j \in Job
  BY NumbersTyped, KindsAreDisjoint DEF NothingAhead
<1>1. ASSUME NEW w \in Worker, Switch(w)
      PROVE  DeletionIsEffective'
  <2>1. shown'.deleted = deleted /\ erased' = erased
    BY <1>1 DEF Switch, MaySwitch, Authorised, Replaced
  <2> QED BY <1>0, <2>1 DEF DeletionIsEffective
<1>2. ASSUME \A j \in Job : stage'[j] = "ACTIVE" => stage[j] = "ACTIVE"
      PROVE  DeletionIsEffective'
  <2> SUFFICES ASSUME NEW d \in DeletionJob, intent'[d] = "SUCCEEDED"
               PROVE  shown'.deleted >= erased'[d]
    BY DEF DeletionIsEffective
  <2>1. intent[d] = "SUCCEEDED"
    BY <1>0, <1>2 DEF IntentIsTrue
  <2>2. shown.deleted >= erased[d]
    BY <2>1 DEF DeletionIsEffective
  <2>3. CASE shown' = shown /\ erased'[d] = erased[d]
    BY <2>2, <2>3
  <2>4. CASE UNCHANGED valueVars
    BY <2>3, <2>4 DEF valueVars
  <2>5. ASSUME NEW w \in Worker, Begin(w) \/ Build(w)
        PROVE  shown' = shown /\ erased' = erased
    BY <2>5 DEF Begin, Build, deletionVars
  <2>6. ASSUME NEW w \in Worker, Switch(w) \/ Recover(w) \/ ActivateFacts(w)
        PROVE  shown'.deleted >= erased'[d]
    <3>1. /\ shown' = shown \/ shown'.deleted = deleted
          /\ erased' = erased
      BY <2>6, ShownEffect
    <3> QED BY <1>0, <2>2, <3>1
  <2>7. ASSUME NEW w \in Worker, NEW replaced \in SUBSET RollbackJob, CommitFacts(w, replaced)
        PROVE  shown' = shown /\ erased' = erased
    BY <2>7, CommitEffect
  <2>8. ASSUME NEW w \in Worker, NEW j \in DeletionJob, Delete(w, j)
        PROVE  shown' = shown /\ erased'[d] = erased[d]
    <3>1. j # d
      BY <2>1, <2>8 DEF Delete
    <3> QED BY <2>8, <3>1 DEF Delete, TypeOK
  <2>9. ASSUME NEW w \in Worker, NEW j \in Job,
               \/ Enqueue(w, j)
               \/ j \in RollbackJob /\ \E replaced \in SUBSET RollbackJob : Rollback(w, j, replaced)
        PROVE  shown' = shown /\ erased' = erased
    <3>1. CASE Enqueue(w, j)
      BY <3>1, BoundEffect
    <3>2. CASE /\ j \in RollbackJob
               /\ \E replaced \in SUBSET RollbackJob : Rollback(w, j, replaced)
      BY <3>2, BoundEffect
    <3> QED BY <2>9, <3>1, <3>2
  <2> QED
    BY <2>3, <2>4, <2>5, <2>6, <2>7, <2>8, <2>9, ValueSteps, KindsAreDisjoint
      DEF ValueStep
<1> QED BY <1>1, <1>2, ActiveStays

\* A complete stage is not empty.
LEMMA TwoAreSome == ASSUME NEW s, Len(s) = 2 PROVE s # <<>>
OBVIOUS

\* Only a rollback replaces an epoch by one with fewer facts.
LEMMA KeepsFactsStep ==
    ASSUME TypeOK, DrainsOnTrack, StagesOnTrack, NothingAhead, ReplacementsHoldMore,
           [Next]_vars
    PROVE  shown'.by \notin RollbackJob => shown'.version >= shown.version
<1>0. /\ version \in Nat /\ shown.version \in Nat /\ shown.version <= version
      /\ pending # None => pending.version \in Nat
      /\ \A j \in Job : bound[j].version \in Nat
  BY NumbersTyped DEF NothingAhead
<1>1. CASE shown' = shown
  BY <1>0, <1>1
<1>2. ASSUME NEW w \in Worker, Switch(w), shown'.by \notin RollbackJob
      PROVE  shown'.version >= shown.version
  <2>1. run[w] \in Job
    BY <1>2, RunIsJob DEF Switch
  <2>2. /\ shown'.by = run[w] /\ shown'.version = bound[run[w]].version
        /\ stage[run[w]] = "VERIFIED" /\ expected[run[w]].epoch = shown.epoch
    BY <1>2 DEF Switch, MaySwitch, Replaced
  <2>3. built[run[w]] # <<>>
    BY <2>1, <2>2, TwoAreSome DEF StagesOnTrack
  <2>4. shown.version <= bound[run[w]].version
    BY <1>2, <2>1, <2>2, <2>3 DEF ReplacementsHoldMore
  <2> QED BY <1>0, <2>1, <2>2, <2>4
<1>3. ASSUME NEW w \in Worker, Recover(w)
      PROVE  shown'.version >= shown.version
  <2>1. shown' = shown \/ shown' = Published(shown.epoch + 1, version, deleted)
    BY <1>3, RecoverEffect
  <2> QED BY <1>0, <2>1 DEF Published
<1>4. ASSUME NEW w \in Worker, ActivateFacts(w)
      PROVE  shown'.version >= shown.version
  BY <1>0, <1>4 DEF ActivateFacts, Published, ReplacementsHoldMore
<1>5. ASSUME NEW w \in Worker, Begin(w) \/ Build(w)
      PROVE  shown' = shown
  BY <1>5 DEF Begin, Build
<1>6. ASSUME NEW w \in Worker, NEW replaced \in SUBSET RollbackJob, CommitFacts(w, replaced)
      PROVE  shown' = shown
  BY <1>6 DEF CommitFacts
<1>7. ASSUME NEW w \in Worker, NEW j \in DeletionJob, Delete(w, j)
      PROVE  shown' = shown
  BY <1>7 DEF Delete
<1>8. ASSUME NEW w \in Worker, NEW j \in Job, Enqueue(w, j)
      PROVE  shown' = shown
  BY <1>8 DEF Enqueue
<1>9. ASSUME NEW w \in Worker, NEW j \in RollbackJob, NEW replaced \in SUBSET RollbackJob,
             Rollback(w, j, replaced)
      PROVE  shown' = shown
  BY <1>9 DEF Rollback
<1>10. UNCHANGED valueVars => shown' = shown
  BY DEF valueVars
<1> QED
  BY <1>1, <1>2, <1>3, <1>4, <1>5, <1>6, <1>7, <1>8, <1>9, <1>10, ValueSteps
    DEF ValueStep

-----------------------------------------------------------------------------
(* The invariant holds, and what follows from it.                          *)

\* A client with its closure, or one that lost it.
LEMMA InitRebuildInv ==
    ASSUME Init
    PROVE  RebuildInv
<1>1. Lost \in Closure /\ Published(1, 1, 0) \in Closure
  <2>1. <<>> \in Seq(Nat) /\ <<1, 1>> \in Seq(Nat)
    OBVIOUS
  <2> QED BY <2>1 DEF Lost, Published, Closure
<1>2. shown \in Closure
  BY <1>1 DEF Init
<1>3. \A j \in Job : Len(built[j]) = 0 /\ built[j] = <<>> /\ built[j] \in Seq(Nat)
  BY DEF Init
<1>4. built \in [Job -> Seq(Nat)] /\ \A j \in Job : Len(built[j]) <= 2
  BY <1>3 DEF Init
<1>5. /\ bound \in [Job -> Authority] /\ expected \in [Job -> Closure] /\ base \in [Job -> Nat]
      /\ pending \in [version : Nat, deleted : Nat, expected : Nat] \cup {None}
  BY <1>1 DEF Init, Authority
<1>6. TypeOK
  BY <1>2, <1>4, <1>5 DEF Init, TypeOK, JobState
<1>7. DrainsOnTrack /\ OneBuilder /\ OneJobInFlight
  BY
    DEF Init, DrainsOnTrack, OnTrack, OneBuilder, OneJobInFlight, BuildStep,
        ActivationStep
<1>8. StagesOnTrack
  BY <1>3 DEF Init, StagesOnTrack
<1>9. OutcomeIsTrue /\ IntentIsTrue /\ DeletionIsEffective
  BY KindsAreDisjoint DEF Init, OutcomeIsTrue, IntentIsTrue, DeletionIsEffective
<1>10. shown.version \in {0, 1} /\ shown.epoch \in {0, 1} /\ shown.by = None
  BY DEF Init, Published, Lost
<1>11. NothingAhead
  BY <1>3, <1>10, EmptyDomain DEF Init, NothingAhead, Lost
<1>12. ReplacementsHoldMore
  BY <1>3, EmptyDomain DEF Init, ReplacementsHoldMore
<1>13. \A i \in DOMAIN shown.built : shown.built[i] = shown.version
  <2>1. CASE shown = Published(1, 1, 0)
    <3>1. shown.built = <<1, 1>> /\ shown.version = 1
      BY <2>1 DEF Published
    <3> QED BY <3>1, PairElements
  <2>2. CASE shown = Lost
    BY <2>2, EmptyDomain DEF Lost
  <2> QED BY <2>1, <2>2 DEF Init
<1>14. ShownAsBuilt
  BY <1>10, <1>13 DEF ShownAsBuilt
<1> QED BY <1>6, <1>7, <1>8, <1>9, <1>11, <1>12, <1>14 DEF RebuildInv

\* Every step keeps the invariant.
LEMMA NextRebuildInv ==
    ASSUME RebuildInv, [Next]_vars
    PROVE  RebuildInv'
<1>0. /\ TypeOK /\ DrainsOnTrack /\ OneBuilder /\ OneJobInFlight /\ StagesOnTrack
      /\ OutcomeIsTrue /\ IntentIsTrue /\ DeletionIsEffective
      /\ NothingAhead /\ ReplacementsHoldMore /\ ShownAsBuilt
  BY DEF RebuildInv
<1>1. TypeOK' /\ DrainsOnTrack' /\ OneBuilder' /\ OneJobInFlight'
  BY <1>0, TypesStep, DrainsStep, BuilderStep, FlightStep
<1>2. StagesOnTrack' /\ OutcomeIsTrue' /\ IntentIsTrue'
  BY <1>0, StagesStep, OutcomeStep, IntentStep
<1>3. NothingAhead' /\ ReplacementsHoldMore' /\ ShownAsBuilt'
  BY <1>0, AheadStep, ReplacementStep, ShownStep
<1>4. DeletionIsEffective'
  BY <1>0, <1>2, DeletionStep
<1> QED BY <1>1, <1>2, <1>3, <1>4 DEF RebuildInv

\* Whatever the steps of drains, starts, calls and ends, the drains are on
\* track, the stages follow them and nothing that is waiting to replace the
\* published facts holds fewer.
THEOREM RebuildInvariant == Spec => []RebuildInv
<1>1. Init => RebuildInv
  BY InitRebuildInv
<1>2. RebuildInv /\ [Next]_vars => RebuildInv'
  BY NextRebuildInv
<1> QED BY <1>1, <1>2, PTL DEF Spec

\* The queue and its stages keep their types, for any jobs and workers.
THEOREM RebuildTypes == Spec => []TypeOK
<1>1. RebuildInv => TypeOK
  BY DEF RebuildInv
<1> QED BY <1>1, RebuildInvariant, PTL

\* run_next and the guards of the job states let one job run at a time,
\* however many processes drain the queue.
THEOREM JobsRunOneByOne == Spec => []OneJobInFlight
<1>1. RebuildInv => OneJobInFlight
  BY DEF RebuildInv
<1> QED BY <1>1, RebuildInvariant, PTL

\* _run_build of a job is run by the drain that claimed it and by no other.
THEOREM JobsHaveOneBuilder == Spec => []OneBuilder
<1>1. RebuildInv => OneBuilder
  BY DEF RebuildInv
<1> QED BY <1>1, RebuildInvariant, PTL

\* A job that succeeded is active, and what is active was not cancelled and did
\* not fail, although mark_succeeded follows the switch of the epoch in a
\* transaction of its own.
THEOREM JobsTellTheTruth == Spec => []OutcomeIsTrue
<1>1. RebuildInv => OutcomeIsTrue
  BY DEF RebuildInv
<1> QED BY <1>1, RebuildInvariant, PTL

\* The intent of a deletion is acknowledged with the switch of the epoch.
THEOREM IntentsTellTheTruth == Spec => []IntentIsTrue
<1>1. RebuildInv => IntentIsTrue
  BY DEF RebuildInv
<1> QED BY <1>1, RebuildInvariant, PTL

\* An erased fact stays erased: every epoch after the acknowledgement is made
\* under the tombstones of that deletion or later ones.
THEOREM DeletionsStayEffective == Spec => []DeletionIsEffective
<1>1. RebuildInv => DeletionIsEffective
  BY DEF RebuildInv
<1> QED BY <1>1, RebuildInvariant, PTL

\* The builders' comparison of the profile revision with the ledger labels the
\* artifacts of a job that is no rollback's with the facts they were made of.
THEOREM ClosuresAreLabelled == Spec => []LabelsAreTrue
<1>1. RebuildInv => LabelsAreTrue
  <2> SUFFICES ASSUME RebuildInv, shown.by \notin RollbackJob, NEW i \in DOMAIN shown.built
               PROVE  shown.built[i] = shown.version
    BY DEF LabelsAreTrue
  <2>0. shown.by \in Job \cup {None}
    BY NumbersTyped DEF RebuildInv
  <2>1. CASE shown.by = None
    BY <2>1 DEF RebuildInv, ShownAsBuilt
  <2>2. CASE shown.by # None
    <3>1. /\ shown.by \in Job \ RollbackJob
          /\ shown.version = bound[shown.by].version
          /\ shown.built = built[shown.by]
      BY <2>0, <2>2 DEF RebuildInv, ShownAsBuilt
    <3> QED BY <3>1 DEF RebuildInv, ReplacementsHoldMore
  <2> QED BY <2>1, <2>2
<1> QED BY <1>1, RebuildInvariant, PTL

\* The evidence of a rollback binds the version its stage was opened at to the
\* ledger, so what recovery calls ready holds every committed fact, also when
\* publications were committed while the rollback was built.
THEOREM WhatIsServedIsComplete == Spec => []ReadyIsComplete
<1>1. RebuildInv => ReadyIsComplete
  <2> SUFFICES ASSUME RebuildInv, QueryReady, shown.deleted = deleted,
                      NEW i \in DOMAIN shown.built
               PROVE  shown.version = version /\ shown.built[i] = version
    BY DEF ReadyIsComplete
  <2>0. /\ shown.by \in Job \cup {None} /\ shown.version \in Nat /\ version \in Nat
        /\ \A j \in Job : /\ base[j] \in Nat
                          /\ \A k \in DOMAIN built[j] : built[j][k] \in Nat
    BY NumbersTyped DEF RebuildInv
  <2>1. ~IsLost(shown)
    BY EmptyDomain DEF IsLost
  <2>2. CASE shown.by = None /\ shown.version = version
    BY <2>2 DEF RebuildInv, ShownAsBuilt
  <2>3. CASE shown.by # None /\ Current(shown.by)
    <3>1. /\ shown.by \in Job
          /\ base[shown.by] = version /\ bound[shown.by].version = version
      BY <2>0, <2>3 DEF Current, Proven
    <3>2. shown.version = bound[shown.by].version /\ shown.built = built[shown.by]
      BY <2>3 DEF RebuildInv, ShownAsBuilt
    <3>3. base[shown.by] <= built[shown.by][i] /\ built[shown.by][i] <= version
      BY <3>1, <3>2 DEF RebuildInv, NothingAhead
    <3> QED BY <2>0, <3>1, <3>2, <3>3
  <2> QED BY <2>1, <2>2, <2>3 DEF QueryReady
<1> QED BY <1>1, RebuildInvariant, PTL

\* A rebuild may be overtaken by publications, but the epoch it expects makes
\* it fail then: unless a rollback ordered it, it takes no fact away.
THEOREM RebuildsTakeNothingAway == Spec => RebuildKeepsFacts
<1>1. RebuildInv /\ [Next]_vars =>
          [shown'.by \notin RollbackJob => shown'.version >= shown.version]_vars
  BY KeepsFactsStep DEF RebuildInv
<1> QED BY <1>1, RebuildInvariant, PTL DEF Spec, RebuildKeepsFacts

-----------------------------------------------------------------------------
(* What a dead process leaves behind.                                      *)

\* A job whose drain is gone, before the point of no return.
Abandoned(j) ==
    /\ jobState[j] \in {"running", "verifying"}
    /\ \A w \in Worker : run[w] # j

\* A drain takes on what is activating, or what is queued when nothing is under
\* way; otherwise it keeps its job or leaves it.
LEMMA RunStep ==
    ASSUME TypeOK, [Next]_vars
    PROVE  \A w \in Worker :
               \/ run'[w] \in {run[w], None}
               \/ jobState[run'[w]] = "activating"
               \/ ~Busy
<1> DEFINE Kept == \A w \in Worker : run'[w] \in {run[w], None}
<1>1. CASE run' = run
  BY <1>1
<1>2. ASSUME NEW w \in Worker, run' = [run EXCEPT ![w] = None]
      PROVE  Kept
  BY <1>2 DEF TypeOK
<1>3. ASSUME NEW w \in Worker, NEW j \in Job, ClaimActivating(w, j)
      PROVE  \A v \in Worker : run'[v] = run[v] \/ jobState[run'[v]] = "activating"
  BY <1>3 DEF ClaimActivating, Take, TypeOK
<1>4. ASSUME NEW w \in Worker, NEW j \in Job, ClaimQueued(w, j)
      PROVE  ~Busy
  BY <1>4 DEF ClaimQueued
<1>5. ASSUME NEW w \in Worker, Poll(w) \/ Handle(w) \/ MarkFailed(w) \/ Reject(w)
      PROVE  Kept
  <2>1. CASE Poll(w)
    BY <1>2, <2>1, PollEffect DEF Left
  <2>2. CASE Handle(w)
    BY <1>2, <2>2, HandleEffect DEF Left
  <2>3. CASE MarkFailed(w)
    BY <1>2, <2>3, MarkFailedEffect DEF Left, Raise
  <2>4. CASE Reject(w)
    BY <1>2, <2>4, RejectEffect DEF Raise
  <2> QED BY <1>5, <2>1, <2>2, <2>3, <2>4
<1>6. ASSUME NEW w \in Worker, MarkSucceeded(w) \/ Exit(w)
      PROVE  Kept
  BY <1>2, <1>6 DEF MarkSucceeded, Done, Exit
<1>7. ASSUME NEW w \in Worker,
             \/ DrainEnds(w) \/ Read(w) \/ Begin(w) \/ Build(w) \/ MarkVerifying(w)
             \/ VerifyStage(w) \/ Recheck(w) \/ MarkActivating(w) \/ ResumeStage(w)
             \/ Load(w) \/ Switch(w) \/ Acknowledge(w)
      PROVE  run' = run
  BY <1>7 DEF DrainEnds, Read, Begin, Build, MarkVerifying, VerifyStage, Recheck,
     MarkActivating, ResumeStage, Load, Switch, Acknowledge
<1>8. ASSUME NEW w \in Worker, StartStep(w) \/ CallStep(w)
      PROVE  run' = run
  BY <1>8 DEF StartStep, CallStep, Start, RecoverStopped, Recover, CommitFacts,
     ActivateFacts, Delete, Enqueue, Cancel, Rollback, processVars
<1>9. CASE UNCHANGED vars
  BY <1>1, <1>9 DEF vars, processVars
<1> QED BY <1>1, <1>3, <1>4, <1>5, <1>6, <1>7, <1>8, <1>9 DEF Next, RunnerStep

\* A queued job is claimed when nothing is under way, or cancelled; a job under
\* way is moved by the drain that has it, or cancelled unless it was ordered by
\* a deletion or a rollback.
Cancellable(j) == j \notin DeletionJob \cup RollbackJob

Moved(j) ==
    \/ jobState'[j] = jobState[j]
    \/ jobState[j] = "absent"
    \/ jobState[j] = "queued" /\ ~Busy
    \/ \E w \in Worker : run[w] = j /\ at[w] \notin {"idle", "claim"}
    \/ Cancellable(j) /\ jobState'[j] = "cancelled"

LEMMA JobStep ==
    ASSUME TypeOK, DrainsOnTrack, [Next]_vars
    PROVE  \A j \in Job : Moved(j)
<1>1. CASE UNCHANGED jobState
  BY <1>1 DEF Moved
<1>2. ASSUME NEW w \in Worker, at[w] \notin {"idle", "claim"}, NEW s,
             jobState' = [jobState EXCEPT ![run[w]] = s]
      PROVE  \A j \in Job : Moved(j)
  BY <1>2 DEF Moved, TypeOK
<1>3. ASSUME NEW w \in Worker, NEW j \in Job, ClaimQueued(w, j)
      PROVE  \A k \in Job : Moved(k)
  BY <1>3 DEF ClaimQueued, SetJob, Moved, TypeOK
<1>4. ASSUME NEW w \in Worker, MarkFailed(w)
      PROVE  \A j \in Job : Moved(j)
  BY <1>1, <1>2, <1>4, MarkFailedEffect
<1>5. ASSUME NEW w \in Worker, MarkVerifying(w) \/ MarkActivating(w) \/ MarkSucceeded(w)
      PROVE  \A j \in Job : Moved(j)
  <2>1. at[w] \notin {"idle", "claim"}
    BY <1>5 DEF MarkVerifying, MarkActivating, MarkSucceeded
  <2>2. UNCHANGED jobState \/ \E s \in JobState : jobState' = [jobState EXCEPT ![run[w]] = s]
    BY <1>5 DEF MarkVerifying, MarkActivating, MarkSucceeded, SetJob, JobState
  <2> QED BY <1>1, <1>2, <2>1, <2>2
<1>6. ASSUME NEW w \in Worker, NEW j \in Job, Enqueue(w, j)
      PROVE  \A k \in Job : Moved(k)
  BY <1>6 DEF Enqueue, SetJob, Moved, TypeOK
<1>7. ASSUME NEW w \in Worker, NEW j \in RollbackJob, NEW replaced, Rollback(w, j, replaced)
      PROVE  \A k \in Job : Moved(k)
  BY <1>7 DEF Rollback, SetJob, Moved, TypeOK
<1>8. ASSUME NEW w \in Worker, NEW j \in Job, Cancel(w, j)
      PROVE  \A k \in Job : Moved(k)
  BY <1>8 DEF Cancel, SetJob, Moved, Cancellable, TypeOK
<1>9. ASSUME NEW w \in Worker,
             \/ \E j \in Job : ClaimActivating(w, j)
             \/ DrainEnds(w) \/ Read(w) \/ Begin(w) \/ Build(w) \/ Poll(w)
             \/ VerifyStage(w) \/ Recheck(w) \/ ResumeStage(w) \/ Load(w)
             \/ Switch(w) \/ Acknowledge(w) \/ Reject(w) \/ Handle(w)
      PROVE  UNCHANGED jobState
  BY <1>9 DEF ClaimActivating, DrainEnds, Read, Begin, Build, Poll, VerifyStage,
     Recheck, ResumeStage, Load, Switch, Acknowledge, Reject, Handle, jobVars
<1>10. ASSUME NEW w \in Worker,
              \/ StartStep(w) \/ Exit(w)
              \/ \E replaced \in SUBSET RollbackJob : CommitFacts(w, replaced)
              \/ ActivateFacts(w)
              \/ \E j \in DeletionJob : Delete(w, j)
       PROVE  UNCHANGED jobState
  BY <1>10 DEF StartStep, Start, RecoverStopped, Recover, Exit, CommitFacts,
     ActivateFacts, Delete, jobVars
<1>11. CASE UNCHANGED vars
  BY <1>1, <1>11 DEF vars, jobVars
<1> QED BY <1>1, <1>3, <1>4, <1>5, <1>6, <1>7, <1>8, <1>9, <1>10, <1>11
        DEF Next, RunnerStep, CallStep

\* What rebuild_stuck shows has no remedy: once its drain is gone, a job that a
\* deletion or a rollback ordered is under way for ever, any other until it is
\* cancelled, and meanwhile no queued job is claimed, whoever starts or drains
\* (claim_next).
THEOREM AbandonedJobsBlock ==
    Spec => [][\A j \in Job :
                 Abandoned(j) =>
                   /\ Abandoned(j)' \/ (Cancellable(j) /\ jobState'[j] = "cancelled")
                   /\ \A k \in Job :
                        jobState[k] = "queued" => jobState'[k] \in {"queued", "cancelled"}]_vars
<1>1. ASSUME RebuildInv, [Next]_vars, NEW j \in Job, Abandoned(j)
      PROVE  /\ Abandoned(j)' \/ (Cancellable(j) /\ jobState'[j] = "cancelled")
             /\ \A k \in Job :
                  jobState[k] = "queued" => jobState'[k] \in {"queued", "cancelled"}
  <2>1. TypeOK /\ DrainsOnTrack
    BY <1>1 DEF RebuildInv
  <2>2. /\ jobState[j] \in {"running", "verifying"}
        /\ \A w \in Worker : run[w] # j
        /\ Busy
    BY <1>1 DEF Abandoned, Busy
  <2>3. \A w \in Worker : run'[w] # j
    BY <2>1, <2>2, <1>1, RunStep, NoneIsNoJob
  <2>4. Moved(j)
    BY <2>1, <1>1, JobStep
  <2>5. jobState'[j] = jobState[j] \/ (Cancellable(j) /\ jobState'[j] = "cancelled")
    BY <2>2, <2>4 DEF Moved
  <2>6. ASSUME NEW k \in Job, jobState[k] = "queued"
        PROVE  jobState'[k] \in {"queued", "cancelled"}
    <3>1. \A w \in Worker : run[w] = k => at[w] \in {"idle", "claim"}
      BY <2>1, <2>6 DEF DrainsOnTrack, OnTrack, BuildStep, ActivationStep, TypeOK
    <3>2. Moved(k)
      BY <2>1, <1>1, JobStep
    <3> QED BY <2>2, <2>6, <3>1, <3>2 DEF Moved
  <2> QED BY <2>2, <2>3, <2>5, <2>6 DEF Abandoned
<1>2. ASSUME RebuildInv, [Next]_vars
      PROVE  [\A j \in Job :
                Abandoned(j) =>
                  /\ Abandoned(j)' \/ (Cancellable(j) /\ jobState'[j] = "cancelled")
                  /\ \A k \in Job :
                       jobState[k] = "queued" => jobState'[k] \in {"queued", "cancelled"}]_vars
  BY <1>1, <1>2
<1> QED BY <1>2, RebuildInvariant, PTL DEF Spec
=============================================================================
