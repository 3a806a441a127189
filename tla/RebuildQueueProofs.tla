------------------------- MODULE RebuildQueueProofs -------------------------
(***************************************************************************)
(* The rebuild queue of RebuildJobs implements RebuildQueue, for any sets  *)
(* of jobs and workers: each step of a drain, a start, a call or an end is *)
(* one step of the queue or none.                                          *)
(***************************************************************************)
EXTENDS RebuildJobsProofs

-----------------------------------------------------------------------------
(* The invariant.                                                          *)

\* A deletion has an intent from the moment it erases something, and before
\* there is a job for it.
IntentsRecorded ==
    \A d \in DeletionJob :
        /\ intent[d] = "none" <=> erased[d] = 0
        /\ jobState[d] # "absent" => intent[d] # "none"

\* What is served was made under the tombstones of now or of the past.
ServedIsPast == shown.deleted <= deleted

QueueInv == RebuildInv /\ IntentsRecorded /\ ServedIsPast

-----------------------------------------------------------------------------
(* What steps do to the jobs.                                              *)

Waiting == {"queued", "running", "verifying"}
GivenUp == {"failed", "cancelled"}

SameFate(j) ==
    \/ jobState'[j] = jobState[j]
    \/ jobState[j] \in Waiting /\ jobState'[j] \in Waiting
    \/ jobState[j] \in GivenUp /\ jobState'[j] \in GivenUp

Served == <<erased, shown>>

\* A job gets further, and no other job does.
Ordered(j) ==
    /\ jobState[j] = "absent"
    /\ j \in DeletionJob => intent[j] # "none"
    /\ jobState' = [jobState EXCEPT ![j] = "queued"]
    /\ UNCHANGED Served

Dropped(j) ==
    /\ jobState[j] \in Waiting
    /\ \E s \in GivenUp : jobState' = [jobState EXCEPT ![j] = s]
    /\ UNCHANGED Served

Committed(j) ==
    /\ jobState[j] = "verifying"
    /\ jobState' = [jobState EXCEPT ![j] = "activating"]
    /\ UNCHANGED Served

Finished(j) ==
    /\ jobState[j] = "activating" /\ stage[j] = "ACTIVE"
    /\ jobState' = [jobState EXCEPT ![j] = "succeeded"]
    /\ UNCHANGED Served

\* A step takes one job further, or none.
JobsMove ==
    \/ \A j \in Job : SameFate(j)
    \/ \E j \in Job : Ordered(j) \/ Dropped(j) \/ Committed(j) \/ Finished(j)

\* A rollback orders a job of its own, which is not a deletion's.
LEMMA OrderedByRollback ==
    ASSUME NEW w, NEW j \in RollbackJob, NEW replaced, Rollback(w, j, replaced)
    PROVE  Ordered(j)
BY KindsAreDisjoint DEF Rollback, Ordered, SetJob, Served, deletionVars

\* Each step takes at most one job further, and then leaves what is served alone.
LEMMA JobsMoveStep ==
    ASSUME TypeOK, DrainsOnTrack, StagesOnTrack, [Next]_vars
    PROVE  JobsMove
<1>0. jobState' = jobState => JobsMove
  BY DEF JobsMove, SameFate
<1>1. ASSUME NEW w \in Worker, NEW j \in Job, ClaimActivating(w, j)
      PROVE  JobsMove
  BY <1>0, <1>1 DEF ClaimActivating, jobVars
<1>2. ASSUME NEW w \in Worker, NEW j \in Job, ClaimQueued(w, j)
      PROVE  JobsMove
  BY <1>2 DEF ClaimQueued, SetJob, JobsMove, SameFate, Waiting, TypeOK
<1>3. ASSUME NEW w \in Worker, DrainEnds(w)
      PROVE  JobsMove
  BY <1>0, <1>3 DEF DrainEnds, jobVars
<1>4. ASSUME NEW w \in Worker, Read(w)
      PROVE  JobsMove
  BY <1>0, <1>4 DEF Read, jobVars
<1>5. ASSUME NEW w \in Worker, Begin(w)
      PROVE  JobsMove
  BY <1>0, <1>5 DEF Begin, jobVars
<1>6. ASSUME NEW w \in Worker, Build(w)
      PROVE  JobsMove
  BY <1>0, <1>6 DEF Build, jobVars
<1>7. ASSUME NEW w \in Worker, Poll(w)
      PROVE  JobsMove
  BY <1>0, <1>7, PollEffect DEF jobVars
<1>8. ASSUME NEW w \in Worker, MarkVerifying(w)
      PROVE  JobsMove
  <2>1. run[w] \in Job
    BY <1>8, RunIsJob DEF MarkVerifying
  <2> QED BY <1>8, <2>1 DEF MarkVerifying, SetJob, JobsMove, SameFate, Waiting, TypeOK
<1>9. ASSUME NEW w \in Worker, VerifyStage(w)
      PROVE  JobsMove
  BY <1>0, <1>9 DEF VerifyStage, jobVars
<1>10. ASSUME NEW w \in Worker, Recheck(w)
      PROVE  JobsMove
  BY <1>0, <1>10 DEF Recheck, jobVars
<1>11. ASSUME NEW w \in Worker, MarkActivating(w)
      PROVE  JobsMove
  <2>1. run[w] \in Job
    BY <1>11, RunIsJob DEF MarkActivating
  <2>2. Committed(run[w])
    BY <1>11 DEF MarkActivating, SetJob, Committed, Served, deletionVars
  <2> QED BY <2>1, <2>2 DEF JobsMove
<1>12. ASSUME NEW w \in Worker, ResumeStage(w)
      PROVE  JobsMove
  BY <1>0, <1>12 DEF ResumeStage, jobVars
<1>13. ASSUME NEW w \in Worker, Load(w)
      PROVE  JobsMove
  BY <1>0, <1>13 DEF Load, jobVars
<1>14. ASSUME NEW w \in Worker, Switch(w)
      PROVE  JobsMove
  BY <1>0, <1>14 DEF Switch, jobVars
<1>15. ASSUME NEW w \in Worker, Acknowledge(w)
      PROVE  JobsMove
  BY <1>0, <1>15 DEF Acknowledge, jobVars
<1>16. ASSUME NEW w \in Worker, MarkSucceeded(w)
      PROVE  JobsMove
  <2>1. run[w] \in Job /\ stage[run[w]] = "ACTIVE"
    BY <1>16, RunIsJob DEF MarkSucceeded, StagesOnTrack
  <2>2. CASE jobState' = jobState
    BY <1>0, <2>2
  <2>3. CASE jobState' # jobState
    <3>1. Finished(run[w])
      BY <1>16, <2>1, <2>3 DEF MarkSucceeded, SetJob, Finished, Served, deletionVars
    <3> QED BY <2>1, <3>1 DEF JobsMove
  <2> QED BY <2>2, <2>3
<1>17. ASSUME NEW w \in Worker, Reject(w)
      PROVE  JobsMove
  BY <1>0, <1>17, RejectEffect DEF jobVars
<1>18. ASSUME NEW w \in Worker, Handle(w)
      PROVE  JobsMove
  BY <1>0, <1>18, HandleEffect DEF jobVars
<1>19. ASSUME NEW w \in Worker, MarkFailed(w)
      PROVE  JobsMove
  <2>1. run[w] \in Job
    BY <1>19, MarkFailedEffect, RunIsJob
  <2>2. CASE jobState' = jobState
    BY <1>0, <2>2
  <2>3. CASE jobState' # jobState
    <3>1. Dropped(run[w])
      BY <1>19, <2>3, MarkFailedEffect DEF Dropped, Waiting, GivenUp, Served
    <3> QED BY <2>1, <3>1 DEF JobsMove
  <2> QED BY <2>2, <2>3
<1>20. ASSUME NEW w \in Worker, Start(w)
      PROVE  JobsMove
  BY <1>0, <1>20 DEF Start, jobVars
<1>21. ASSUME NEW w \in Worker, RecoverStopped(w)
      PROVE  JobsMove
  BY <1>0, <1>21 DEF RecoverStopped, jobVars
<1>22. ASSUME NEW w \in Worker, Recover(w)
      PROVE  JobsMove
  BY <1>0, <1>22 DEF Recover, jobVars
<1>23. ASSUME NEW w \in Worker, NEW replaced \in SUBSET RollbackJob, CommitFacts(w, replaced)
      PROVE  JobsMove
  BY <1>0, <1>23 DEF CommitFacts, jobVars
<1>24. ASSUME NEW w \in Worker, ActivateFacts(w)
      PROVE  JobsMove
  BY <1>0, <1>24 DEF ActivateFacts, jobVars
<1>25. ASSUME NEW w \in Worker, NEW j \in DeletionJob, Delete(w, j)
      PROVE  JobsMove
  BY <1>0, <1>25 DEF Delete, jobVars
<1>26. ASSUME NEW w \in Worker, NEW j \in Job, Enqueue(w, j)
      PROVE  JobsMove
  <2>1. Ordered(j)
    BY <1>26 DEF Enqueue, SetJob, Ordered, Served, deletionVars
  <2> QED BY <2>1 DEF JobsMove
<1>27. ASSUME NEW w \in Worker, NEW j \in Job, Cancel(w, j)
      PROVE  JobsMove
  <2>1. CASE jobState[j] \in Waiting
    <3>1. Dropped(j)
      BY <1>27, <2>1 DEF Cancel, SetJob, Dropped, GivenUp, Served, deletionVars
    <3> QED BY <3>1 DEF JobsMove
  <2>2. CASE jobState[j] = "failed"
    BY <1>27, <2>2 DEF Cancel, SetJob, JobsMove, SameFate, GivenUp, TypeOK
  <2> QED BY <1>27, <2>1, <2>2 DEF Cancel, Waiting
<1>28. ASSUME NEW w \in Worker, NEW j \in RollbackJob, NEW replaced \in SUBSET RollbackJob,
             Rollback(w, j, replaced)
      PROVE  JobsMove
  BY <1>28, OrderedByRollback, KindsAreDisjoint DEF JobsMove
<1>29. ASSUME NEW w \in Worker, Exit(w)
      PROVE  JobsMove
  BY <1>0, <1>29 DEF Exit, jobVars
<1>30. CASE UNCHANGED vars
  BY <1>0, <1>30 DEF vars, jobVars
<1> QED
  BY <1>1, <1>2, <1>3, <1>4, <1>5, <1>6, <1>7, <1>8, <1>9, <1>10, <1>11, <1>12, <1>13, <1>14, <1>15, <1>16, <1>17, <1>18, <1>19, <1>20, <1>21, <1>22, <1>23, <1>24, <1>25, <1>26, <1>27, <1>28, <1>29, <1>30
  DEF Next, RunnerStep, StartStep, CallStep

-----------------------------------------------------------------------------
(* What steps do to the deletions.                                         *)

SameRequests ==
    /\ \A d \in DeletionJob : intent'[d] = "none" <=> intent[d] = "none"
    /\ erased' = erased

NewRequest(d) ==
    /\ intent[d] = "none"
    /\ intent' = [intent EXCEPT ![d] = "PENDING"]
    /\ erased' = [erased EXCEPT ![d] = deleted + 1]
    /\ UNCHANGED <<shown, jobState, stage>>

\* Setting the intent of a job that was ordered asks for nothing new.
LEMMA IntentStays ==
    ASSUME TypeOK, IntentsRecorded, NEW j \in Job, jobState[j] # "absent",
           NEW s \in {"CLAIMED", "FAILED", "SUCCEEDED"},
           intent' = intent \/ intent' = [intent EXCEPT ![j] = s]
    PROVE  \A d \in DeletionJob : intent'[d] = "none" <=> intent[d] = "none"
BY DEF TypeOK, IntentsRecorded

\* A step requests one deletion, or none.
LEMMA RequestsStep ==
    ASSUME TypeOK, DrainsOnTrack, IntentsRecorded, [Next]_vars
    PROVE  SameRequests \/ \E d \in DeletionJob : NewRequest(d)
<1>0. UNCHANGED <<intent, erased>> => SameRequests
  BY DEF SameRequests
<1>1. ASSUME NEW w \in Worker, NEW j \in Job, ClaimQueued(w, j)
      PROVE  SameRequests
  <2>1. jobState[j] # "absent" /\ (intent' = intent \/ intent' = [intent EXCEPT ![j] = "CLAIMED"])
    BY <1>1, IntentEffect DEF ClaimQueued
  <2> QED BY <1>1, <2>1, IntentStays DEF ClaimQueued, SameRequests
<1>2. ASSUME NEW w \in Worker, Switch(w) \/ Acknowledge(w)
      PROVE  SameRequests
  <2>1. /\ run[w] \in Job /\ jobState[run[w]] \in {"activating", "succeeded"}
        /\ erased' = erased /\ SetIntent(run[w], "SUCCEEDED")
    BY <1>2, RunIsJob DEF Switch, Acknowledge, DrainsOnTrack, OnTrack, ActivationStep
  <2>2. intent' = intent \/ intent' = [intent EXCEPT ![run[w]] = "SUCCEEDED"]
    BY <2>1, IntentEffect
  <2> QED BY <2>1, <2>2, IntentStays DEF SameRequests
<1>3. ASSUME NEW w \in Worker, MarkFailed(w)
      PROVE  SameRequests
  <2>1. /\ run[w] \in Job /\ erased' = erased
        /\ \/ intent' = intent
           \/ /\ jobState[run[w]] # "absent"
              /\ intent' = [intent EXCEPT ![run[w]] = "FAILED"]
    BY <1>3, MarkFailedEffect, RunIsJob
  <2> QED BY <1>0, <2>1, IntentStays DEF SameRequests
<1>4. ASSUME NEW w \in Worker, NEW j \in DeletionJob, Delete(w, j)
      PROVE  NewRequest(j)
  BY <1>4 DEF Delete, NewRequest, jobVars, stageVars
<1>5. ASSUME NEW w \in Worker, NEW j \in Job, ClaimActivating(w, j)
      PROVE  SameRequests
  BY <1>0, <1>5 DEF ClaimActivating, deletionVars
<1>6. ASSUME NEW w \in Worker, DrainEnds(w)
      PROVE  SameRequests
  BY <1>0, <1>6 DEF DrainEnds, deletionVars
<1>7. ASSUME NEW w \in Worker, Read(w)
      PROVE  SameRequests
  BY <1>0, <1>7 DEF Read, deletionVars
<1>8. ASSUME NEW w \in Worker, Begin(w)
      PROVE  SameRequests
  BY <1>0, <1>8 DEF Begin, deletionVars
<1>9. ASSUME NEW w \in Worker, Build(w)
      PROVE  SameRequests
  BY <1>0, <1>9 DEF Build, deletionVars
<1>10. ASSUME NEW w \in Worker, MarkVerifying(w)
      PROVE  SameRequests
  BY <1>0, <1>10 DEF MarkVerifying, deletionVars
<1>11. ASSUME NEW w \in Worker, VerifyStage(w)
      PROVE  SameRequests
  BY <1>0, <1>11 DEF VerifyStage, deletionVars
<1>12. ASSUME NEW w \in Worker, Recheck(w)
      PROVE  SameRequests
  BY <1>0, <1>12 DEF Recheck, deletionVars
<1>13. ASSUME NEW w \in Worker, MarkActivating(w)
      PROVE  SameRequests
  BY <1>0, <1>13 DEF MarkActivating, deletionVars
<1>14. ASSUME NEW w \in Worker, ResumeStage(w)
      PROVE  SameRequests
  BY <1>0, <1>14 DEF ResumeStage, deletionVars
<1>15. ASSUME NEW w \in Worker, Load(w)
      PROVE  SameRequests
  BY <1>0, <1>15 DEF Load, deletionVars
<1>16. ASSUME NEW w \in Worker, MarkSucceeded(w)
      PROVE  SameRequests
  BY <1>0, <1>16 DEF MarkSucceeded, deletionVars
<1>17. ASSUME NEW w \in Worker, Start(w)
      PROVE  SameRequests
  BY <1>0, <1>17 DEF Start, deletionVars
<1>18. ASSUME NEW w \in Worker, RecoverStopped(w)
      PROVE  SameRequests
  BY <1>0, <1>18 DEF RecoverStopped, deletionVars
<1>19. ASSUME NEW w \in Worker, Recover(w)
      PROVE  SameRequests
  BY <1>0, <1>19 DEF Recover, deletionVars
<1>20. ASSUME NEW w \in Worker, NEW replaced \in SUBSET RollbackJob, CommitFacts(w, replaced)
      PROVE  SameRequests
  BY <1>0, <1>20 DEF CommitFacts, deletionVars
<1>21. ASSUME NEW w \in Worker, ActivateFacts(w)
      PROVE  SameRequests
  BY <1>0, <1>21 DEF ActivateFacts, deletionVars
<1>22. ASSUME NEW w \in Worker, NEW j \in Job, Enqueue(w, j)
      PROVE  SameRequests
  BY <1>0, <1>22 DEF Enqueue, deletionVars
<1>23. ASSUME NEW w \in Worker, NEW j \in Job, Cancel(w, j)
      PROVE  SameRequests
  BY <1>0, <1>23 DEF Cancel, deletionVars
<1>24. ASSUME NEW w \in Worker, Exit(w)
      PROVE  SameRequests
  BY <1>0, <1>24 DEF Exit, deletionVars
<1>25. ASSUME NEW w \in Worker, Poll(w)
      PROVE  SameRequests
  BY <1>0, <1>25, PollEffect DEF deletionVars
<1>26. ASSUME NEW w \in Worker, Reject(w)
      PROVE  SameRequests
  BY <1>0, <1>26, RejectEffect DEF deletionVars
<1>27. ASSUME NEW w \in Worker, Handle(w)
      PROVE  SameRequests
  BY <1>0, <1>27, HandleEffect DEF deletionVars
<1>28. ASSUME NEW w \in Worker, NEW j \in RollbackJob, NEW replaced \in SUBSET RollbackJob,
             Rollback(w, j, replaced)
      PROVE  SameRequests
  BY <1>0, <1>28 DEF Rollback, deletionVars
<1>29. CASE UNCHANGED vars
  BY <1>0, <1>29 DEF vars, deletionVars
<1> QED
  BY <1>1, <1>2, <1>3, <1>4, <1>5, <1>6, <1>7, <1>8, <1>9, <1>10, <1>11, <1>12, <1>13, <1>14, <1>15, <1>16, <1>17, <1>18, <1>19, <1>20, <1>21, <1>22, <1>23, <1>24, <1>25, <1>26, <1>27, <1>28, <1>29
  DEF Next, RunnerStep, StartStep, CallStep

\* Every step keeps requests and intents together.
LEMMA IntentsRecordedStep ==
    ASSUME TypeOK, DrainsOnTrack, StagesOnTrack, IntentsRecorded, [Next]_vars
    PROVE  IntentsRecorded'
<1>0. \A d \in DeletionJob : d \in Job
  BY KindsAreDisjoint
<1>1. JobsMove
  BY JobsMoveStep
<1>2. \A d \in DeletionJob : jobState'[d] # "absent" => jobState[d] # "absent" \/ intent[d] # "none"
  <2>1. CASE \A j \in Job : SameFate(j)
    BY <1>0, <2>1 DEF SameFate, Waiting, GivenUp
  <2>2. ASSUME NEW j \in Job, Ordered(j) \/ Dropped(j) \/ Committed(j) \/ Finished(j),
               NEW d \in DeletionJob, jobState'[d] # "absent"
        PROVE  jobState[d] # "absent" \/ intent[d] # "none"
    BY <1>0, <2>2 DEF Ordered, Dropped, Committed, Finished, Waiting, TypeOK
  <2> QED BY <1>1, <2>1, <2>2 DEF JobsMove
<1>3. CASE SameRequests
  BY <1>2, <1>3 DEF SameRequests, IntentsRecorded
<1>4. ASSUME NEW d \in DeletionJob, NewRequest(d)
      PROVE  IntentsRecorded'
  <2>1. deleted + 1 # 0
    BY NumbersTyped
  <2> QED BY <1>0, <1>4, <2>1 DEF NewRequest, IntentsRecorded, TypeOK
<1> QED BY <1>3, <1>4, RequestsStep

\* Tombstones are only added, and an epoch is made under those of the moment.
LEMMA ServedIsPastStep ==
    ASSUME TypeOK, DrainsOnTrack, NothingAhead, ServedIsPast, [Next]_vars
    PROVE  ServedIsPast'
<1>0. deleted \in Nat /\ shown.deleted \in Nat
  BY NumbersTyped
<1>1. CASE UNCHANGED valueVars
  BY <1>1 DEF valueVars, ServedIsPast
<1>2. ASSUME NEW w \in Worker, Begin(w) \/ Build(w)
      PROVE  ServedIsPast'
  BY <1>2 DEF Begin, Build, deletionVars, ServedIsPast
<1>3. ASSUME NEW w \in Worker, Switch(w) \/ Recover(w) \/ ActivateFacts(w)
      PROVE  ServedIsPast'
  <2>1. (shown' = shown \/ shown'.deleted = deleted) /\ deleted' = deleted
    BY <1>3, ShownEffect
  <2> QED BY <1>0, <2>1 DEF ServedIsPast
<1>4. ASSUME NEW w \in Worker, NEW replaced \in SUBSET RollbackJob, CommitFacts(w, replaced)
      PROVE  ServedIsPast'
  BY <1>4 DEF CommitFacts, deletionVars, ServedIsPast
<1>5. ASSUME NEW w \in Worker, NEW d \in DeletionJob, Delete(w, d)
      PROVE  ServedIsPast'
  BY <1>0, <1>5 DEF Delete, ServedIsPast
<1>6. ASSUME NEW w \in Worker, NEW j \in Job, Enqueue(w, j)
      PROVE  ServedIsPast'
  BY <1>6 DEF Enqueue, deletionVars, ServedIsPast
<1>7. ASSUME NEW w \in Worker, NEW j \in RollbackJob, NEW replaced \in SUBSET RollbackJob,
             Rollback(w, j, replaced)
      PROVE  ServedIsPast'
  BY <1>7 DEF Rollback, deletionVars, ServedIsPast
<1> QED
  BY <1>1, <1>2, <1>3, <1>4, <1>5, <1>6, <1>7, ValueSteps DEF ValueStep

\* The queue and its requests hold together in every reachable state.
THEOREM QueueInvariant == Spec => []QueueInv
<1>1. Init => IntentsRecorded /\ ServedIsPast
  BY KindsAreDisjoint DEF Init, IntentsRecorded, ServedIsPast, Published, Lost
<1>2. RebuildInv /\ IntentsRecorded /\ ServedIsPast /\ [Next]_vars =>
          IntentsRecorded' /\ ServedIsPast'
  BY IntentsRecordedStep, ServedIsPastStep DEF RebuildInv
<1> QED BY <1>1, <1>2, RebuildInvariant, PTL DEF Spec, QueueInv

-----------------------------------------------------------------------------
(* The refinement.                                                         *)

\* The fate of a job in each of its states.
LEMMA Fates ==
    ASSUME NEW t
    PROVE  /\ FateOf("absent", t) = "none"
           /\ \A s \in Waiting : FateOf(s, t) = "ordered"
           /\ t # "ACTIVE" => FateOf("activating", t) = "committed"
           /\ t = "ACTIVE" => FateOf("activating", t) = "applied"
           /\ FateOf("succeeded", t) = "done"
           /\ \A s \in GivenUp : FateOf(s, t) = "dropped"
BY DEF FateOf, Waiting, GivenUp

\* It depends on a stage only in that it is active.
LEMMA FateOfStage ==
    ASSUME NEW s \in JobState, NEW t, NEW u, t = "ACTIVE" <=> u = "ACTIVE"
    PROVE  FateOf(s, t) = FateOf(s, u)
BY Fates DEF JobState, Waiting, GivenUp

ActiveSame == \A j \in Job : stage'[j] = "ACTIVE" <=> stage[j] = "ACTIVE"

\* Jobs that stay as far as they are.
LEMMA FateKept ==
    ASSUME TypeOK, ActiveSame, \A j \in Job : SameFate(j)
    PROVE  Fate' = Fate
<1> SUFFICES ASSUME NEW j \in Job
             PROVE  FateOf(jobState'[j], stage'[j]) = FateOf(jobState[j], stage[j])
  BY DEF Fate
<1>1. jobState[j] \in JobState /\ SameFate(j)
  BY DEF TypeOK
<1>2. CASE jobState'[j] = jobState[j]
  BY <1>1, <1>2, FateOfStage DEF ActiveSame
<1>3. CASE jobState[j] \in Waiting /\ jobState'[j] \in Waiting
  BY <1>3, Fates
<1>4. CASE jobState[j] \in GivenUp /\ jobState'[j] \in GivenUp
  BY <1>4, Fates
<1> QED BY <1>1, <1>2, <1>3, <1>4 DEF SameFate

\* A job that gets further, alone.
LEMMA FateMoves ==
    ASSUME TypeOK, ActiveSame, NEW j \in Job, NEW s \in JobState,
           jobState' = [jobState EXCEPT ![j] = s]
    PROVE  Queue!Moves(j, FateOf(jobState[j], stage[j]), FateOf(s, stage[j]))
<1>1. Fate[j] = FateOf(jobState[j], stage[j])
  BY DEF Fate
<1>2. ASSUME NEW k \in Job
      PROVE  FateOf(jobState'[k], stage'[k]) =
                 IF k = j THEN FateOf(s, stage[j]) ELSE FateOf(jobState[k], stage[k])
  <2>1. jobState[k] \in JobState /\ jobState'[k] = IF k = j THEN s ELSE jobState[k]
    BY DEF TypeOK
  <2> QED BY <2>1, FateOfStage DEF ActiveSame
<1>3. Fate' = [Fate EXCEPT ![j] = FateOf(s, stage[j])]
  BY <1>2 DEF Fate
<1> QED BY <1>1, <1>3 DEF Queue!Moves

\* Deletions are acknowledged by the switch of their stage.
LEMMA AcknowledgedKept ==
    ASSUME IntentIsTrue, IntentIsTrue', ActiveSame
    PROVE  Acknowledged' = Acknowledged
BY KindsAreDisjoint DEF IntentIsTrue, ActiveSame, Acknowledged

\* An epoch made of all that is deleted carries out every request.
LEMMA ReplacedIsClean ==
    ASSUME TypeOK, NothingAhead, shown'.deleted = deleted, erased' = erased
    PROVE  Clean' = Requested /\ Requested' = Requested
BY DEF NothingAhead, Clean, Requested

\* A step leaves what is served alone, requests a deletion, switches a job or
\* publishes.
LEMMA ServedStep ==
    ASSUME RebuildInv, IntentsRecorded, [Next]_vars, ActiveSame
    PROVE  \/ UNCHANGED Served
           \/ \E d \in DeletionJob : NewRequest(d)
           \/ /\ jobState' = jobState /\ erased' = erased
              /\ shown'.by = None /\ shown'.deleted = deleted
              /\ shown'.version \in Nat /\ shown'.version >= shown.version
<1> DEFINE Publishes ==
              /\ jobState' = jobState /\ erased' = erased
              /\ shown'.by = None /\ shown'.deleted = deleted
              /\ shown'.version \in Nat /\ shown'.version >= shown.version
<1>0. /\ TypeOK /\ DrainsOnTrack /\ NothingAhead /\ ReplacementsHoldMore
      /\ version \in Nat /\ shown.version <= version
      /\ pending # None => pending.version \in Nat
  BY NumbersTyped DEF RebuildInv, NothingAhead
<1>1. UNCHANGED valueVars => UNCHANGED Served
  BY DEF valueVars, Served
<1>2. ASSUME NEW w \in Worker, Begin(w) \/ Build(w)
      PROVE  UNCHANGED Served
  BY <1>2 DEF Begin, Build, Served, deletionVars
<1>3. ASSUME NEW w \in Worker, Switch(w)
      PROVE  FALSE
  <2>1. run[w] \in Job /\ stage[run[w]] = "VERIFIED"
    BY <1>0, <1>3, RunIsJob DEF Switch, MaySwitch
  <2>2. stage'[run[w]] = "ACTIVE"
    BY <1>0, <1>3, <2>1 DEF Switch, SetStage, TypeOK
  <2> QED BY <2>1, <2>2 DEF ActiveSame
<1>4. ASSUME NEW w \in Worker, Recover(w)
      PROVE  UNCHANGED Served \/ Publishes
  <2>1. /\ shown' = shown \/ shown' = Published(shown.epoch + 1, version, deleted)
        /\ jobState' = jobState /\ erased' = erased
    BY <1>4, RecoverEffect DEF jobVars, deletionVars
  <2> QED BY <1>0, <2>1 DEF Published, Served
<1>5. ASSUME NEW w \in Worker, ActivateFacts(w)
      PROVE  Publishes
  BY <1>0, <1>5 DEF ActivateFacts, Published, ReplacementsHoldMore, jobVars, deletionVars
<1>6. ASSUME NEW w \in Worker, NEW replaced \in SUBSET RollbackJob, CommitFacts(w, replaced)
      PROVE  UNCHANGED Served
  BY <1>6 DEF CommitFacts, Served, deletionVars
<1>7. ASSUME NEW w \in Worker, NEW d \in DeletionJob, Delete(w, d)
      PROVE  NewRequest(d)
  BY <1>7 DEF Delete, NewRequest, jobVars, stageVars
<1>8. ASSUME NEW w \in Worker, NEW j \in Job, Enqueue(w, j)
      PROVE  UNCHANGED Served
  BY <1>8 DEF Enqueue, Served, deletionVars
<1>9. ASSUME NEW w \in Worker, NEW j \in RollbackJob, NEW replaced \in SUBSET RollbackJob,
             Rollback(w, j, replaced)
      PROVE  UNCHANGED Served
  BY <1>9 DEF Rollback, Served, deletionVars
<1> QED
  BY <1>0, <1>1, <1>2, <1>3, <1>4, <1>5, <1>6, <1>7, <1>8, <1>9, ValueSteps
    DEF ValueStep

\* What is seen of the queue when nothing is served anew.
LEMMA UnservedStep ==
    ASSUME UNCHANGED Served, Acknowledged' = Acknowledged
    PROVE  UNCHANGED <<Queue!servedVars, Requested, Acknowledged>>
BY DEF Served, Queue!servedVars, Clean, Requested

\* A step that takes a job further: it is ordered, dropped, committed or finished.
LEMMA MoveRefines ==
    ASSUME QueueInv, ActiveSame, Acknowledged' = Acknowledged, NEW j \in Job,
           Ordered(j) \/ Dropped(j) \/ Committed(j) \/ Finished(j)
    PROVE  Queue!Next
<1>0. TypeOK /\ OneJobInFlight /\ OutcomeIsTrue /\ IntentsRecorded
  BY DEF QueueInv, RebuildInv
<1>1. UNCHANGED Served
  BY DEF Ordered, Dropped, Committed, Finished
<1>2. UNCHANGED <<Queue!servedVars, Requested, Acknowledged>>
  BY <1>1, UnservedStep
<1>3. CASE Ordered(j)
  <2>1. Queue!Moves(j, "none", "ordered")
    BY <1>0, <1>3, Fates, FateMoves DEF Ordered, Waiting, JobState
  <2>2. j \in DeletionJob => j \in Requested
    BY <1>0, <1>3 DEF Ordered, IntentsRecorded, Requested
  <2> QED BY <1>2, <2>1, <2>2 DEF Queue!Order, Queue!Next
<1>4. CASE Dropped(j)
  <2>1. PICK s \in GivenUp : jobState' = [jobState EXCEPT ![j] = s]
    BY <1>4 DEF Dropped
  <2>2. FateOf(jobState[j], stage[j]) = "ordered" /\ FateOf(s, stage[j]) = "dropped"
    BY <1>4, <2>1, Fates DEF Dropped
  <2>3. Queue!Moves(j, "ordered", "dropped")
    BY <1>0, <2>1, <2>2, FateMoves DEF GivenUp, JobState
  <2> QED BY <1>2, <2>3 DEF Queue!Drop, Queue!Next
<1>5. CASE Committed(j)
  <2>1. stage[j] # "ACTIVE"
    BY <1>0, <1>5 DEF Committed, OutcomeIsTrue
  <2>2. Queue!Moves(j, "ordered", "committed")
    BY <1>0, <1>5, <2>1, Fates, FateMoves DEF Committed, Waiting, JobState
  <2>3. ASSUME NEW k \in Job
        PROVE  Fate[k] \notin {"committed", "applied"}
    <3>1. jobState[k] # "activating" /\ jobState[k] \in JobState
      BY <1>0, <1>5 DEF Committed, OneJobInFlight, TypeOK
    <3> QED BY <3>1, Fates DEF Fate, JobState, Waiting, GivenUp
  <2> QED BY <1>2, <2>2, <2>3 DEF Queue!Commit, Queue!Next
<1>6. CASE Finished(j)
  <2>1. Queue!Moves(j, "applied", "done")
    BY <1>0, <1>6, Fates, FateMoves DEF Finished, JobState
  <2> QED BY <1>2, <2>1 DEF Queue!Finish, Queue!Next
<1> QED BY <1>3, <1>4, <1>5, <1>6

\* A switch applies the job that was committed.
LEMMA SwitchRefines ==
    ASSUME QueueInv, IntentIsTrue', [Next]_vars, NEW w \in Worker, Switch(w)
    PROVE  Queue!Apply(run[w])
<1>0. /\ TypeOK /\ DrainsOnTrack /\ StagesOnTrack /\ NothingAhead /\ ReplacementsHoldMore
      /\ IntentIsTrue
  BY DEF QueueInv, RebuildInv
<1>1. run[w] \in Job
  BY <1>0, RunIsJob DEF Switch
<1>2. /\ jobState[run[w]] = "activating" /\ stage[run[w]] = "VERIFIED"
      /\ jobState' = jobState /\ erased' = erased
      /\ stage' = [stage EXCEPT ![run[w]] = "ACTIVE"]
      /\ shown' = Replaced(run[w]) /\ bound[run[w]].deleted = deleted
  BY DEF Switch, MaySwitch, Authorised, SetStage, jobVars
<1>3. Queue!Moves(run[w], "committed", "applied")
  <2>1. Fate[run[w]] = "committed"
    BY <1>1, <1>2, Fates DEF Fate
  <2>2. ASSUME NEW k \in Job
        PROVE  FateOf(jobState'[k], stage'[k]) =
                   IF k = run[w] THEN "applied" ELSE FateOf(jobState[k], stage[k])
    <3>1. stage'[k] = IF k = run[w] THEN "ACTIVE" ELSE stage[k]
      BY <1>0, <1>2 DEF TypeOK
    <3> QED BY <1>2, <3>1, Fates
  <2>3. Fate' = [Fate EXCEPT ![run[w]] = "applied"]
    BY <2>2 DEF Fate
  <2> QED BY <2>1, <2>3 DEF Queue!Moves
<1>4. shown'.by = run[w] /\ shown'.version = bound[run[w]].version /\ shown'.deleted = deleted
  BY <1>2 DEF Replaced
<1>5. Clean' = Requested /\ Requested' = Requested
  BY <1>0, <1>2, <1>4, ReplacedIsClean
<1>6. Queue!Replace(run[w])
  <2>1. shown'.version \in Nat
    BY <1>0, <1>1, <1>4, NumbersTyped
  <2>2. run[w] \notin RollbackJob => shown'.version >= shown.version
    BY <1>0, <1>4, KeepsFactsStep
  <2> QED BY <1>4, <1>5, <2>1, <2>2 DEF Queue!Replace
<1>7. Acknowledged' = Acknowledged \cup ({run[w]} \cap DeletionJob)
  <2>1. \A d \in DeletionJob : d \in Job
    BY KindsAreDisjoint
  <2>2. \A d \in DeletionJob :
            intent'[d] = "SUCCEEDED" <=> intent[d] = "SUCCEEDED" \/ d = run[w]
    BY <1>0, <1>2, <2>1 DEF TypeOK, IntentIsTrue
  <2> QED BY <2>2 DEF Acknowledged
<1> QED BY <1>3, <1>5, <1>6, <1>7 DEF Queue!Apply

\* The initial queue is empty.
LEMMA QueueStarts ==
    ASSUME Init
    PROVE  Queue!Init
<1>1. Fate = [j \in Job |-> "none"]
  BY Fates DEF Init, Fate
<1>2. shown.version \in Nat /\ shown.by = None
  BY DEF Init, Published, Lost
<1>3. Requested = {} /\ Clean = {} /\ Acknowledged = {}
  BY DEF Init, Requested, Clean, Acknowledged
<1> QED BY <1>1, <1>2, <1>3 DEF Queue!Init

\* Every step is one of the queue, or none.
LEMMA QueueRefines ==
    ASSUME QueueInv, QueueInv', [Next]_vars
    PROVE  [Queue!Next]_(Queue!vars)
<1>0. /\ TypeOK /\ DrainsOnTrack /\ StagesOnTrack /\ NothingAhead
      /\ IntentIsTrue /\ IntentIsTrue' /\ IntentsRecorded /\ RebuildInv
      /\ shown.deleted <= deleted
  BY DEF QueueInv, RebuildInv, ServedIsPast
<1>1. ASSUME NEW w \in Worker, Switch(w)
      PROVE  Queue!Next
  <2>1. run[w] \in Job
    BY <1>0, <1>1, RunIsJob DEF Switch
  <2> QED BY <1>0, <1>1, <2>1, SwitchRefines DEF Queue!Next
<1>2. CASE ActiveSame
  <2>1. Acknowledged' = Acknowledged
    BY <1>0, <1>2, AcknowledgedKept
  <2>2. CASE \E j \in Job : Ordered(j) \/ Dropped(j) \/ Committed(j) \/ Finished(j)
    BY <1>2, <2>1, <2>2, MoveRefines
  <2>3. CASE \A j \in Job : SameFate(j)
    <3>1. Fate' = Fate
      BY <1>0, <1>2, <2>3, FateKept
    <3>2. CASE UNCHANGED Served
      BY <2>1, <3>1, <3>2, UnservedStep DEF Queue!vars
    <3>3. ASSUME NEW d \in DeletionJob, NewRequest(d)
          PROVE  Queue!Next
      <4>1. /\ erased[d] = 0 /\ shown' = shown /\ deleted \in Nat /\ shown.deleted \in Nat
            /\ erased' = [erased EXCEPT ![d] = deleted + 1] /\ erased \in [DeletionJob -> Nat]
        BY <1>0, <3>3, NumbersTyped DEF NewRequest, IntentsRecorded, TypeOK
      <4>2. d \notin Requested /\ Requested' = Requested \cup {d}
        BY <4>1 DEF Requested
      <4>3. Clean' = Clean
        BY <1>0, <4>1 DEF Clean, Requested
      <4>4. Queue!Request(d)
        BY <2>1, <3>1, <4>1, <4>2, <4>3 DEF Queue!Request, Queue!servedVars
      <4> QED BY <4>4 DEF Queue!Next
    <3>4. CASE /\ jobState' = jobState /\ erased' = erased
               /\ shown'.by = None /\ shown'.deleted = deleted
               /\ shown'.version \in Nat /\ shown'.version >= shown.version
      <4>1. Clean' = Requested /\ Requested' = Requested
        BY <1>0, <3>4, ReplacedIsClean
      <4>2. Queue!Publish
        BY <2>1, <3>1, <3>4, <4>1 DEF Queue!Publish, Queue!Replace
      <4> QED BY <4>2 DEF Queue!Next
    <3> QED BY <1>0, <1>2, <3>2, <3>3, <3>4, ServedStep
  <2> QED BY <1>0, <2>2, <2>3, JobsMoveStep DEF JobsMove
<1> QED BY <1>0, <1>1, <1>2, ActiveStays DEF ActiveSame

\* Whoever drains the queue and wherever the drains stop: a job that was ordered
\* is dropped, or it passes the point of no return alone, replaces what is
\* served once and is done then; and whatever replaces it carries out every
\* deletion.
THEOREM QueueRefinement == Spec => ImplementsRebuildQueue
<1>1. Init => Queue!Init
  BY QueueStarts
<1>2. QueueInv /\ QueueInv' /\ [Next]_vars => [Queue!Next]_(Queue!vars)
  BY QueueRefines
<1> QED BY <1>1, <1>2, QueueInvariant, PTL DEF Spec, Queue!Spec, ImplementsRebuildQueue

=============================================================================
