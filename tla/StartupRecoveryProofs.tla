------------------------ MODULE StartupRecoveryProofs ------------------------
(***************************************************************************)
(* The safety properties of StartupRecovery, and what they leave standing  *)
(* of those of ClientPublication, for any numbers of workers, operations   *)
(* and crashes.                                                            *)
(***************************************************************************)
EXTENDS StartupRecovery, ClientPublicationProofs

-----------------------------------------------------------------------------
(* The inductive invariant.                                                *)

\* What justifies that a publication is retired.
Cause(o) ==
    \/ factVersion[o] < authority
    \/ boundTombs[o] # tombstones
    \/ ~Visible(o)

\* The process of a recovering worker does nothing else, and what it applies
\* is what it decided.
RecoveriesOnTrack ==
    \A w \in Worker :
        /\ stage[w] # "out" => phase[w] = "down"
        /\ stage[w] \in Applying =>
               /\ current[w] \in Decision
               /\ pubState[current[w].op] # "none"
               /\ current[w].action =
                      IF stage[w] = "retiring" THEN "retire" ELSE "activate"
        /\ stage[w] = "retiring" => Cause(current[w].op)
        /\ \A d \in todo[w] : d.action = "rebuild" => pubState[d.op] = "active"

\* A publication was bound to tombstones that are still there, so what made
\* it stale keeps it stale.
BoundEarlier == \A o \in Operation : boundTombs[o] \subseteq tombstones

RecoveryInv ==
    /\ TypeOK
    /\ ClientInv
    /\ RecoveriesOnTrack
    /\ BoundEarlier
    /\ JournalIsTrue
    /\ RetiredForCause

\* What every step owes to the publications already there.
Monotone ==
    \A o \in Operation :
        /\ pubState[o] \in {"active", "failed"} => pubState'[o] = pubState[o]
        /\ pubState[o] # "none" => pubState'[o] # "none"
        /\ pubState[o] # "none" /\ Cause(o) => Cause(o)'

-----------------------------------------------------------------------------
(* The steps of publishing workers.                                        *)

\* A publication changes its state only.
LEMMA StateStepMonotone ==
    ASSUME ClientInv, NEW o \in Operation,
           NEW next \in {"verified", "active", "failed"},
           pubState[o] \in {"prepared", "verified"},
           pubState' = [pubState EXCEPT ![o] = next],
           UNCHANGED <<ledgerVars, closure, boundTombs, tombstones>>
    PROVE  Monotone
<1>1. pubState \in [Operation -> PubState]
  BY DEF ClientInv, DataInv, ClientTypeOK
<1>2. \A p \in Operation : Cause(p)' = Cause(p)
  BY DEF Cause, Visible, Lineage, ledgerVars
<1> QED BY <1>1, <1>2 DEF Monotone

LEMMA QuietMonotone ==
    ASSUME ClientInv, UNCHANGED <<ledgerVars, pubState, closure, boundTombs, tombstones>>
    PROVE  Monotone
BY DEF Monotone, Cause, Visible, Lineage, ledgerVars

LEMMA CommitMonotone ==
    ASSUME ClientInv, NEW w \in Worker, CommitFacts(w)
    PROVE  Monotone
<1> DEFINE o == job[w]
<1>1. /\ o \in Operation
      /\ pubState[o] = "none"
      /\ factVersion \in [Operation -> Nat]
      /\ pubState \in [Operation -> PubState]
      /\ closure \in [Operation -> SUBSET Operation]
      /\ boundTombs \in [Operation -> SUBSET Source]
      /\ authority \in Nat
  BY CommitFactsReady DEF ClientInv, DataInv, ClientTypeOK
<1>2. authority' = authority + 1
  BY CommitFactsReady DEF CommitFacts, AppendFacts, InsertPrepared, NextVersion
<1>3. ASSUME NEW p \in Operation, p # o
      PROVE  /\ pubState'[p] = pubState[p]
             /\ Cause(p) => Cause(p)'
  <2>1. /\ pubState'[p] = pubState[p]
        /\ factVersion'[p] = factVersion[p]
        /\ closure'[p] = closure[p]
        /\ boundTombs'[p] = boundTombs[p]
        /\ tombstones' = tombstones
    BY <1>1, <1>3 DEF CommitFacts, AppendFacts, InsertPrepared
  <2> QED BY <2>1, <1>1, <1>2 DEF Cause, Visible, Lineage
<1> QED BY <1>1, <1>3 DEF Monotone

LEMMA DeleteMonotone ==
    ASSUME ClientInv, BoundEarlier, NEW s \in Deletable, Delete(s)
    PROVE  Monotone
BY DEF Delete, BoundEarlier, Monotone, Cause, Visible, Lineage, ledgerVars, pubVars

\* Publishing workers fail no publication and touch no recovering worker.
LEMMA ClientSteps ==
    ASSUME ClientInv, BoundEarlier, [ClientNext]_clientVars
    PROVE  /\ Monotone
           /\ BoundEarlier'
           /\ \A o \in Operation : pubState'[o] = "failed" => pubState[o] = "failed"
           /\ \A w \in Worker : phase[w] = "down" => phase'[w] = "down"
<1> DEFINE Kept ==
             /\ Monotone
             /\ BoundEarlier'
             /\ \A o \in Operation : pubState'[o] = "failed" => pubState[o] = "failed"
             /\ \A w \in Worker : phase[w] = "down" => phase'[w] = "down"
<1>1. /\ phase \in [Worker -> ClientPhase]
      /\ pubState \in [Operation -> PubState]
      /\ boundTombs \in [Operation -> SUBSET Source]
  BY DEF ClientInv, DataInv, ClientTypeOK
<1>2. ASSUME NEW w \in Worker, WorkerStep(w) \/ Crash(w)
      PROVE  Kept
  <2>1. CASE CommitFacts(w)
    <3>1. /\ job[w] \in Operation
          /\ phase[w] # "down"
          /\ phase' = [phase EXCEPT ![w] = "applied"]
          /\ pubState' = [pubState EXCEPT ![job[w]] = "prepared"]
          /\ boundTombs' = [boundTombs EXCEPT ![job[w]] = tombstones]
          /\ tombstones' = tombstones
      BY <2>1, CommitFactsReady DEF CommitFacts, AppendFacts, InsertPrepared, GoTo
    <3> QED BY <2>1, <3>1, <1>1, CommitMonotone DEF BoundEarlier
  <2>2. CASE Verify(w)
    <3>1. /\ job[w] \in Operation
          /\ phase[w] # "down"
          /\ phase' = [phase EXCEPT ![w] = "verified"]
          /\ pubState[job[w]] = "prepared"
          /\ pubState' = [pubState EXCEPT ![job[w]] = "verified"]
          /\ UNCHANGED <<ledgerVars, closure, boundTombs, tombstones>>
      BY <2>2
         DEF Verify, MarkVerified, GoTo, ClientInv, WorkersOnTrack, Executing
    <3> QED BY <3>1, <1>1, StateStepMonotone DEF BoundEarlier
  <2>3. CASE Activate(w)
    <3>1. /\ job[w] \in Operation
          /\ phase[w] # "down"
          /\ phase' = [phase EXCEPT ![w] = "published"]
          /\ pubState[job[w]] = "verified"
          /\ pubState' = [pubState EXCEPT ![job[w]] = "active"]
          /\ UNCHANGED <<ledgerVars, closure, boundTombs, tombstones>>
      BY <2>3
         DEF Activate, ActivateExpected, MayActivate, GoTo, ClientInv,
             WorkersOnTrack, Executing
    <3> QED BY <3>1, <1>1, StateStepMonotone DEF BoundEarlier
  <2>4. CASE \/ RegisterPreview(w) \/ BeginVerify(w) \/ BeginActivate(w)
             \/ FindCommitted(w) \/ Return(w) \/ Raise(w) \/ Crash(w)
    <3>1. /\ UNCHANGED <<ledgerVars, pubVars, tombstones>>
          /\ phase[w] # "down"
          /\ \E there \in ClientPhase : phase' = [phase EXCEPT ![w] = there]
      BY <2>4
         DEF RegisterPreview, FindCommitted, BeginVerify, BeginActivate, Return, Raise,
             Crash, Stop, GoTo, ClientPhase
    <3> QED BY <3>1, <1>1, QuietMonotone DEF BoundEarlier, pubVars
  <2> QED BY <1>2, <2>1, <2>2, <2>3, <2>4 DEF WorkerStep
<1>3. ASSUME NEW w \in Worker, NEW o \in Operation,
             BeginPreview(w, o) \/ Plan(w, o) \/ RecoverApplied(w, o)
      PROVE  Kept
  <2>1. /\ UNCHANGED <<ledgerVars, pubVars, tombstones>>
        /\ \A v \in Worker : phase[v] = "down" => phase'[v] = "down"
    BY <1>1, <1>3 DEF BeginPreview, Plan, RecoverApplied, GoTo, workerVars
  <2> QED BY <2>1, QuietMonotone DEF BoundEarlier, pubVars
<1>4. ASSUME NEW o \in Operation, Approve(o)
      PROVE  Kept
  BY <1>4, QuietMonotone DEF Approve, BoundEarlier, pubVars, workerVars
<1>5. ASSUME NEW s \in Deletable, Delete(s)
      PROVE  Kept
  BY <1>5, DeleteMonotone DEF Delete, BoundEarlier, pubVars, workerVars
<1>6. ASSUME UNCHANGED clientVars
      PROVE  Kept
  BY <1>6, QuietMonotone DEF clientVars, BoundEarlier, pubVars, workerVars
<1>7. Kept
  <2>1. CASE ClientNext
    BY <2>1, <1>2, <1>3, <1>4, <1>5 DEF ClientNext
  <2> QED BY <2>1, <1>6
<1> QED BY <1>7

LEMMA ClientStepRecoveryInv ==
    ASSUME RecoveryInv, [ClientNext]_clientVars, UNCHANGED <<localVars, journal>>,
           crashes' \in Nat
    PROVE  RecoveryInv' /\ Monotone
<1>1. ClientInv'
  BY ClientNextInv DEF RecoveryInv
<1>2. /\ Monotone
      /\ BoundEarlier'
      /\ \A o \in Operation : pubState'[o] = "failed" => pubState[o] = "failed"
      /\ \A w \in Worker : phase[w] = "down" => phase'[w] = "down"
  BY ClientSteps DEF RecoveryInv
<1>3. TypeOK'
  BY <1>1 DEF RecoveryInv, TypeOK, ClientInv, DataInv, localVars
<1>4. RecoveriesOnTrack'
  BY <1>2
     DEF RecoveryInv, RecoveriesOnTrack, TypeOK, Decision, Monotone, localVars,
         Applying
<1>5. JournalIsTrue'
  BY <1>2 DEF RecoveryInv, JournalIsTrue, TypeOK, Decision, Monotone
<1>6. RetiredForCause'
  BY <1>2 DEF RecoveryInv, RetiredForCause, Monotone, Cause
<1> QED BY <1>1, <1>2, <1>3, <1>4, <1>5, <1>6 DEF RecoveryInv

-----------------------------------------------------------------------------
(* Recovery steps that read or journal only.                               *)

LEMMA RecoveryLocalInv ==
    ASSUME RecoveryInv, UNCHANGED clientVars, TypeOK', RecoveriesOnTrack',
           JournalIsTrue'
    PROVE  RecoveryInv' /\ Monotone
<1>1. ClientInv'
  BY ClientStutterInv DEF RecoveryInv
<1>2. Monotone
  BY QuietMonotone DEF RecoveryInv, clientVars, pubVars
<1>3. BoundEarlier' /\ RetiredForCause'
  BY DEF RecoveryInv, BoundEarlier, RetiredForCause, Visible, Lineage, clientVars,
         pubVars, ledgerVars
<1> QED BY <1>1, <1>2, <1>3 DEF RecoveryInv

LEMMA ClientTypesUnchanged ==
    ASSUME ClientTypeOK, UNCHANGED clientVars
    PROVE  ClientTypeOK'
BY DEF ClientTypeOK, ApprovalTypeOK, clientVars, approvalVars, ledgerVars, pubVars,
       workerVars

LEMMA DecideTyped ==
    ASSUME ClientTypeOK, NEW o \in Operation, NEW p \in Purpose
    PROVE  /\ Decide(o, p) \in Decision
           /\ Decide(o, p).op = o
           /\ Decide(o, p).purpose = p
           /\ Decide(o, p).action = "rebuild" <=> pubState[o] = "active"
           /\ Decide(o, p).action = "retire" => Stale(o) \/ ~Visible(o)
BY DEF Decide, Decision, ClientTypeOK

LEMMA ScanInv ==
    ASSUME RecoveryInv, NEW w \in Worker, Scan(w)
    PROVE  RecoveryInv' /\ Monotone
<1> DEFINE decisions ==
               {Decide(o, p) : o \in {q \in Operation : Actionable(q)}, p \in Purpose}
<1>1. /\ phase[w] = "down"
      /\ stage[w] = "out"
      /\ stage' = [stage EXCEPT ![w] = "scanned"]
      /\ todo' = [todo EXCEPT ![w] = decisions]
      /\ healthy' = [healthy EXCEPT ![w] = \A d \in decisions : d.action # "rebuild"]
      /\ UNCHANGED <<clientVars, current, lock, journal, crashes>>
  BY DEF Scan
<1>2. \A d \in decisions : /\ d \in Decision
                           /\ d.action = "rebuild" => pubState[d.op] = "active"
  BY DecideTyped DEF RecoveryInv, TypeOK
<1>3. TypeOK'
  <2>1. ClientTypeOK'
    BY <1>1, ClientTypesUnchanged DEF RecoveryInv, TypeOK
  <2>2. todo' \in [Worker -> SUBSET Decision]
    BY <1>1, <1>2 DEF RecoveryInv, TypeOK
  <2>3. (\A d \in decisions : d.action # "rebuild") \in BOOLEAN
    OBVIOUS
  <2>4. healthy' \in [Worker -> BOOLEAN]
    <3> HIDE DEF decisions
    <3> QED BY <1>1, <2>3 DEF RecoveryInv, TypeOK
  <2> QED BY <1>1, <2>1, <2>2, <2>4 DEF RecoveryInv, TypeOK, Stage
<1>4. RecoveriesOnTrack'
  <2> HIDE DEF decisions
  <2>1. UNCHANGED <<phase, pubState>> /\ \A o : Cause(o)' = Cause(o)
    BY <1>1
       DEF clientVars, workerVars, pubVars, ledgerVars, Cause, Visible, Lineage
  <2> QED
    BY <1>1, <1>2, <2>1 DEF RecoveryInv, RecoveriesOnTrack, TypeOK, Applying
<1>5. JournalIsTrue'
  BY <1>1 DEF RecoveryInv, JournalIsTrue, clientVars, pubVars
<1> QED BY <1>1, <1>3, <1>4, <1>5, RecoveryLocalInv

\* The facts about the client that the other recovery steps leave alone.
LEMMA ClientUnchanged ==
    ASSUME UNCHANGED clientVars
    PROVE  UNCHANGED <<phase, pubState>> /\ \A o \in Operation : Cause(o)' = Cause(o)
BY DEF clientVars, workerVars, pubVars, ledgerVars, Cause, Visible, Lineage

\* A lock belongs to a worker or to nobody.
LEMMA ReleasedTyped ==
    ASSUME TypeOK, NEW w
    PROVE  Released(w) \in [Purpose -> Worker \cup {None}]
BY DEF TypeOK, Released

LEMMA LockInv ==
    ASSUME RecoveryInv, NEW w \in Worker, Lock(w) \/ Unlock(w)
    PROVE  RecoveryInv' /\ Monotone
<1>1. /\ UNCHANGED <<clientVars, todo, healthy, current, journal, crashes>>
      /\ stage[w] \in {"scanned", "locked"}
      /\ \E next \in {"scanned", "locked"} : stage' = [stage EXCEPT ![w] = next]
      /\ \/ lock' = [lock EXCEPT ![Group(w)] = w]
         \/ lock' = Released(w)
  BY DEF Lock, Unlock
<1>2. UNCHANGED <<phase, pubState>> /\ \A o \in Operation : Cause(o)' = Cause(o)
  BY <1>1, ClientUnchanged
<1>3. TypeOK'
  <2>1. lock' \in [Purpose -> Worker \cup {None}]
    BY <1>1, ReleasedTyped DEF RecoveryInv, TypeOK
  <2> QED BY <1>1, <2>1, ClientTypesUnchanged DEF RecoveryInv, TypeOK, Stage
<1>4. RecoveriesOnTrack'
  BY <1>1, <1>2 DEF RecoveryInv, RecoveriesOnTrack, TypeOK, Applying, Decision
<1>5. JournalIsTrue'
  BY <1>1, <1>2 DEF RecoveryInv, JournalIsTrue
<1> QED BY <1>1, <1>3, <1>4, <1>5, RecoveryLocalInv

LEMMA ReplayInv ==
    ASSUME RecoveryInv, NEW w \in Worker, NEW d \in todo[w], Replay(w, d)
    PROVE  RecoveryInv' /\ Monotone
<1> USE DEF Replay, Due
<1>1. UNCHANGED <<phase, pubState>> /\ \A o \in Operation : Cause(o)' = Cause(o)
  BY ClientUnchanged
<1>2. TypeOK'
  BY ClientTypesUnchanged DEF RecoveryInv, TypeOK
<1>3. RecoveriesOnTrack'
  BY <1>1 DEF RecoveryInv, RecoveriesOnTrack, TypeOK, Applying, Decision
<1>4. JournalIsTrue'
  BY <1>1 DEF RecoveryInv, JournalIsTrue
<1> QED BY <1>2, <1>3, <1>4, RecoveryLocalInv

LEMMA RecordRebuildInv ==
    ASSUME RecoveryInv, NEW w \in Worker, NEW d \in todo[w], RecordRebuild(w, d)
    PROVE  RecoveryInv' /\ Monotone
<1> USE DEF RecordRebuild, Due
<1>1. UNCHANGED <<phase, pubState>> /\ \A o \in Operation : Cause(o)' = Cause(o)
  BY ClientUnchanged
<1>2. TypeOK'
  BY ClientTypesUnchanged DEF RecoveryInv, TypeOK
<1>3. RecoveriesOnTrack'
  BY <1>1 DEF RecoveryInv, RecoveriesOnTrack, TypeOK, Applying, Decision
<1>4. JournalIsTrue'
  BY <1>1 DEF RecoveryInv, RecoveriesOnTrack, JournalIsTrue
<1> QED BY <1>2, <1>3, <1>4, RecoveryLocalInv

\* The decision is computed again: what it retires has a cause now.
LEMMA BeginApplyInv ==
    ASSUME RecoveryInv, NEW w \in Worker, NEW d \in todo[w], BeginApply(w, d)
    PROVE  RecoveryInv' /\ Monotone
<1>1. UNCHANGED <<phase, pubState>> /\ \A o \in Operation : Cause(o)' = Cause(o)
  BY ClientUnchanged DEF BeginApply
<1>2. /\ d \in Decision
      /\ d.op \in Operation
      /\ d.purpose \in Purpose
      /\ Decide(d.op, d.purpose) = d
      /\ pubState[d.op] \in {"prepared", "verified"}
      /\ d.action # "rebuild"
  BY DEF RecoveryInv, TypeOK, Decision, BeginApply, StillDecided, Unfinished
<1>3. d.action = "retire" => Cause(d.op)
  <2>1. d.action = "retire" => Stale(d.op) \/ ~Visible(d.op)
    BY <1>2, DecideTyped DEF RecoveryInv, TypeOK
  <2>2. /\ factVersion[d.op] \in Nat
        /\ authority \in Nat
        /\ factVersion[d.op] <= authority
    BY <1>2 DEF RecoveryInv, ClientInv, DataInv, ClientTypeOK, LedgerIsDense
  <2> QED BY <2>1, <2>2 DEF Stale, Cause
<1>4. d.action \in {"retire", "activate"}
  BY <1>2 DEF Decision
<1>5. /\ stage[w] = "locked"
      /\ stage' = [stage EXCEPT ![w] =
                       IF d.action = "retire" THEN "retiring" ELSE "resuming"]
      /\ current' = [current EXCEPT ![w] = d]
      /\ UNCHANGED <<clientVars, todo, healthy, lock, journal, crashes>>
  BY DEF BeginApply
<1>6. TypeOK'
  BY <1>2, <1>5, ClientTypesUnchanged DEF RecoveryInv, TypeOK, Stage
<1>7. RecoveriesOnTrack'
  BY <1>1, <1>2, <1>3, <1>4, <1>5
     DEF RecoveryInv, RecoveriesOnTrack, TypeOK, Applying, Decision
<1>8. JournalIsTrue'
  BY <1>1, <1>5 DEF RecoveryInv, JournalIsTrue
<1> QED BY <1>5, <1>6, <1>7, <1>8, RecoveryLocalInv

LEMMA ResumeInv ==
    ASSUME RecoveryInv, NEW w \in Worker, Resume(w)
    PROVE  RecoveryInv' /\ Monotone
<1>1. /\ stage[w] = "resuming"
      /\ \E next \in {"verifying", "activating"} : stage' = [stage EXCEPT ![w] = next]
      /\ UNCHANGED <<clientVars, todo, healthy, current, lock, journal, crashes>>
  BY DEF Resume
<1>2. UNCHANGED <<phase, pubState>> /\ \A o \in Operation : Cause(o)' = Cause(o)
  BY <1>1, ClientUnchanged
<1>3. TypeOK'
  BY <1>1, ClientTypesUnchanged DEF RecoveryInv, TypeOK, Stage
<1>4. RecoveriesOnTrack'
  BY <1>1, <1>2 DEF RecoveryInv, RecoveriesOnTrack, TypeOK, Applying, Decision
<1>5. JournalIsTrue'
  BY <1>1, <1>2 DEF RecoveryInv, JournalIsTrue
<1> QED BY <1>1, <1>3, <1>4, <1>5, RecoveryLocalInv

\* Leaving recovery gives up the lock and every decision.
LEMMA LeaveTracks ==
    ASSUME RecoveryInv, NEW w \in Worker, Leave(w), UNCHANGED <<pubState, journal>>,
           \A o \in Operation : Cause(o)' = Cause(o),
           \A v \in Worker \ {w} : phase'[v] = phase[v]
    PROVE  RecoveriesOnTrack' /\ JournalIsTrue'
<1>1. RecoveriesOnTrack'
  BY DEF RecoveryInv, RecoveriesOnTrack, TypeOK, Leave, Applying, Decision
<1>2. JournalIsTrue'
  BY DEF RecoveryInv, JournalIsTrue
<1> QED BY <1>1, <1>2

LEMMA LeaveInv ==
    ASSUME RecoveryInv, NEW w \in Worker, Leave(w), UNCHANGED <<clientVars, healthy, journal>>,
           crashes' \in Nat
    PROVE  RecoveryInv' /\ Monotone
<1>1. UNCHANGED <<phase, pubState>> /\ \A o \in Operation : Cause(o)' = Cause(o)
  BY ClientUnchanged
<1>2. TypeOK'
  BY ClientTypesUnchanged, ReleasedTyped DEF RecoveryInv, TypeOK, Stage, Leave
<1>3. RecoveriesOnTrack' /\ JournalIsTrue'
  BY <1>1, LeaveTracks
<1> QED BY <1>2, <1>3, RecoveryLocalInv

LEMMA FinishInv ==
    ASSUME RecoveryInv, NEW w \in Worker, Finish(w)
    PROVE  RecoveryInv' /\ Monotone
<1>1. /\ stage[w] # "out"
      /\ Leave(w)
      /\ UNCHANGED <<dataVars, job, seen, healthy, journal, crashes>>
      /\ phase' = [phase EXCEPT ![w] = "idle"] \/ phase' = phase
  BY DEF Finish, GoTo, dataVars
<1>2. phase[w] = "down"
  BY <1>1 DEF RecoveryInv, RecoveriesOnTrack
<1>3. phase \in [Worker -> ClientPhase]
  BY DEF RecoveryInv, TypeOK, ClientTypeOK
<1>4. ClientInv'
  <2>1. phase' \in [Worker -> ClientPhase]
    BY <1>1, <1>3 DEF ClientPhase
  <2>2. DataInv'
    BY <1>1, <2>1, DataUnchanged DEF RecoveryInv, ClientInv, TypeOK, ClientTypeOK
  <2>3. WorkersOnTrack'
    BY <1>1, <1>3
       DEF RecoveryInv, ClientInv, WorkersOnTrack, Executing, dataVars, approvalVars,
           pubVars, ActiveEpoch
  <2> QED BY <2>2, <2>3 DEF ClientInv
<1>5. Monotone
  BY <1>1, QuietMonotone DEF RecoveryInv, dataVars, pubVars
<1>6. UNCHANGED pubState /\ \A o \in Operation : Cause(o)' = Cause(o)
  BY <1>1 DEF dataVars, pubVars, ledgerVars, Cause, Visible, Lineage
<1>7. RecoveriesOnTrack' /\ JournalIsTrue'
  BY <1>1, <1>3, <1>6, LeaveTracks
<1>8. TypeOK'
  BY <1>1, <1>4, ReleasedTyped DEF RecoveryInv, TypeOK, ClientInv, DataInv, Stage, Leave
<1>9. BoundEarlier' /\ RetiredForCause'
  BY <1>1
     DEF RecoveryInv, BoundEarlier, RetiredForCause, Visible, Lineage, dataVars,
         pubVars, ledgerVars
<1> QED BY <1>4, <1>5, <1>7, <1>8, <1>9 DEF RecoveryInv

-----------------------------------------------------------------------------
(* Recovery steps that change a publication.                               *)

\* The siblings of a decision differ from it in their purpose only.
LEMMA SiblingsDecide ==
    ASSUME NEW d \in Decision
    PROVE  \A e \in Siblings(d) :
               /\ e \in Decision
               /\ e = [d EXCEPT !.purpose = e.purpose]
               /\ e.op = d.op
               /\ e.action = d.action
               /\ e.authority = d.authority
               /\ e.tombstones = d.tombstones
               /\ Siblings(e) = Siblings(d)
<1> SUFFICES ASSUME NEW e \in Siblings(d)
             PROVE  /\ e \in Decision
                    /\ e = [d EXCEPT !.purpose = e.purpose]
                    /\ e.op = d.op
                    /\ e.action = d.action
                    /\ e.authority = d.authority
                    /\ e.tombstones = d.tombstones
                    /\ Siblings(e) = Siblings(d)
  OBVIOUS
<1>1. PICK p \in Purpose : e = [d EXCEPT !.purpose = p]
  BY DEF Siblings
<1>2. /\ e \in Decision
      /\ e.purpose = p
      /\ e.op = d.op
      /\ e.action = d.action
      /\ e.authority = d.authority
      /\ e.tombstones = d.tombstones
  BY <1>1 DEF Decision
<1>3. ASSUME NEW q \in Purpose
      PROVE  [e EXCEPT !.purpose = q] = [d EXCEPT !.purpose = q]
  BY <1>1, <1>2 DEF Decision
<1>4. Siblings(e) = Siblings(d)
  BY <1>3 DEF Siblings
<1> QED BY <1>1, <1>2, <1>4

\* What holds after the decision of w is applied, given what the decision
\* has made of its publication.
LEMMA AppliedTracks ==
    ASSUME RecoveryInv, NEW w \in Worker, stage[w] \in Applying, Applied(w), Monotone,
           pubState'[current[w].op] =
               IF current[w].action = "retire" THEN "failed" ELSE "active"
    PROVE  RecoveriesOnTrack' /\ JournalIsTrue'
<1>1. current[w] \in Decision
  BY DEF RecoveryInv, RecoveriesOnTrack
<1>2. RecoveriesOnTrack'
  BY <1>1
     DEF RecoveryInv, RecoveriesOnTrack, TypeOK, Applied, Applying, Decision, Monotone,
         workerVars
<1>3. \A d \in Siblings(current[w]) : d.op = current[w].op /\ d.action = current[w].action
  BY <1>1, SiblingsDecide
<1>4. JournalIsTrue'
  BY <1>1, <1>3 DEF RecoveryInv, JournalIsTrue, TypeOK, Applied, Decision, Monotone
<1> QED BY <1>2, <1>4

LEMMA AppliedTyped ==
    ASSUME RecoveryInv, NEW w \in Worker, stage[w] \in Applying, Applied(w), ClientTypeOK'
    PROVE  TypeOK'
<1>1. Siblings(current[w]) \subseteq Decision
  BY SiblingsDecide DEF RecoveryInv, RecoveriesOnTrack
<1> QED BY <1>1 DEF RecoveryInv, RecoveriesOnTrack, TypeOK, Applied, Stage

\* Retiring keeps the data invariant: a failed publication stays what it was.
LEMMA MarkFailedInv ==
    ASSUME DataInv, NEW o \in Operation, pubState[o] \in {"prepared", "verified"},
           pubState' = [pubState EXCEPT ![o] = "failed"], WorkerTypes',
           UNCHANGED <<closure, boundTombs, active, epochOf, approvalVars, draft,
                       ledgerVars, tombstones>>
    PROVE  DataInv' /\ ActiveEpoch' = ActiveEpoch
<1>1. pubState \in [Operation -> PubState]
  BY DEF DataInv, ClientTypeOK
<1>2. ApprovalInv'
  BY ApprovalStutterInv DEF DataInv
<1>3. ClientTypeOK'
  BY <1>1, <1>2
     DEF DataInv, ClientTypeOK, ApprovalInv, PubState, ledgerVars, WorkerTypes
<1>4. ActiveEpoch' = ActiveEpoch
  BY DEF ActiveEpoch
<1>5. \A p \in Operation :
          /\ pubState'[p] # "none" <=> pubState[p] # "none"
          /\ pubState'[p] = "active" <=> pubState[p] = "active"
  BY <1>1
<1>6. /\ RequestsAreDrafted'
      /\ CommittedTogether'
      /\ LedgerIsDense'
      /\ AcknowledgedIsPublished'
  BY <1>5
     DEF DataInv, RequestsAreDrafted, CommittedTogether, NextVersion,
         LedgerIsDense, AcknowledgedIsPublished, approvalVars, ledgerVars
<1>7. EpochsAreLinear'
  BY <1>4, <1>5 DEF DataInv, ClientTypeOK, EpochsAreLinear
<1>8. DraftsSeeEpochs' /\ CompleteOrLate'
  BY <1>4, <1>5 DEF DataInv, DraftsSeeEpochs, CompleteOrLate, FactsUpTo, ledgerVars
<1> QED BY <1>2, <1>3, <1>4, <1>6, <1>7, <1>8 DEF DataInv

\* A recovering worker's publication step disturbs no other worker.
LEMMA RecoveryStepTracks ==
    ASSUME ClientInv, UNCHANGED <<approvalVars, draft, workerVars>>,
           ActiveEpoch' \in Nat, ActiveEpoch' >= ActiveEpoch
    PROVE  WorkersOnTrack' /\ WorkerTypes'
<1>1. ActiveEpoch \in Nat
  BY EpochsAreNaturals DEF ClientInv, DataInv
<1>2. WorkersOnTrack'
  <2>1. \A w \in Worker : phase[w] = "drafting" => seen[w].runtime <= ActiveEpoch' + 1
    BY <1>1 DEF ClientInv, WorkersOnTrack, Draft
  <2> QED BY <2>1 DEF ClientInv, WorkersOnTrack, workerVars, approvalVars
<1>3. WorkerTypes'
  BY DEF ClientInv, DataInv, ClientTypeOK, WorkerTypes, workerVars
<1> QED BY <1>2, <1>3

LEMMA RetireInv ==
    ASSUME RecoveryInv, NEW w \in Worker, Retire(w)
    PROVE  RecoveryInv' /\ Monotone
<1> DEFINE o == current[w].op
<1>1. /\ stage[w] = "retiring"
      /\ stage[w] \in Applying
      /\ current[w] \in Decision
      /\ o \in Operation
      /\ current[w].action = "retire"
      /\ Cause(o)
  BY DEF Retire, RecoveryInv, RecoveriesOnTrack, Applying, Decision
<1>2. /\ pubState[o] \in {"prepared", "verified"}
      /\ pubState' = [pubState EXCEPT ![o] = "failed"]
      /\ UNCHANGED <<closure, boundTombs, active, epochOf, approvalVars, draft,
                     ledgerVars, tombstones, workerVars, crashes>>
      /\ Applied(w)
  BY DEF Retire, Unfinished, Applied
<1>3. pubState \in [Operation -> PubState] /\ ClientInv
  BY DEF RecoveryInv, TypeOK, ClientTypeOK
<1>4. ActiveEpoch' = ActiveEpoch /\ ActiveEpoch \in Nat
  BY <1>2, EpochsAreNaturals DEF ActiveEpoch, RecoveryInv, TypeOK
<1>5. WorkersOnTrack' /\ WorkerTypes'
  BY <1>2, <1>3, <1>4, RecoveryStepTracks
<1>6. DataInv'
  BY <1>1, <1>2, <1>3, <1>5, MarkFailedInv DEF ClientInv
<1>7. Monotone
  BY <1>1, <1>2, <1>3, StateStepMonotone
<1>8. RecoveriesOnTrack' /\ JournalIsTrue'
  BY <1>1, <1>2, <1>3, <1>7, AppliedTracks
<1>9. TypeOK'
  BY <1>1, <1>2, <1>6, AppliedTyped DEF DataInv
<1>10. BoundEarlier'
  BY <1>2 DEF RecoveryInv, BoundEarlier
<1>11. RetiredForCause'
  <2>1. \A p \in Operation : pubState'[p] = "failed" => pubState[p] = "failed" \/ p = o
    BY <1>2, <1>3
  <2> QED
    BY <1>1, <1>2, <1>7, <2>1 DEF RecoveryInv, RetiredForCause, Monotone, Cause
<1> QED BY <1>5, <1>6, <1>7, <1>8, <1>9, <1>10, <1>11 DEF RecoveryInv, ClientInv

LEMMA ResumeVerifyInv ==
    ASSUME RecoveryInv, NEW w \in Worker, ResumeVerify(w)
    PROVE  RecoveryInv' /\ Monotone
<1> DEFINE o == current[w].op
<1>1. /\ stage[w] = "verifying"
      /\ stage[w] \in Applying
      /\ current[w] \in Decision
      /\ o \in Operation
  BY DEF ResumeVerify, RecoveryInv, RecoveriesOnTrack, Applying, Decision
<1>2. /\ MarkVerified(o)
      /\ pubState[o] = "prepared"
      /\ pubState' = [pubState EXCEPT ![o] = "verified"]
      /\ stage' = [stage EXCEPT ![w] = "activating"]
      /\ UNCHANGED <<closure, boundTombs, active, epochOf, approvalVars, draft,
                     ledgerVars, tombstones, workerVars, todo, healthy, current, lock,
                     journal, crashes>>
  BY DEF ResumeVerify, MarkVerified
<1>3. pubState \in [Operation -> PubState] /\ ClientInv
  BY DEF RecoveryInv, TypeOK, ClientTypeOK
<1>4. ActiveEpoch' = ActiveEpoch /\ ActiveEpoch \in Nat
  BY <1>2, EpochsAreNaturals DEF ActiveEpoch, RecoveryInv, TypeOK
<1>5. WorkersOnTrack' /\ WorkerTypes'
  BY <1>2, <1>3, <1>4, RecoveryStepTracks
<1>6. DataInv'
  BY <1>1, <1>2, <1>3, <1>5, MarkVerifiedInv DEF ClientInv
<1>7. Monotone
  BY <1>1, <1>2, <1>3, StateStepMonotone
<1>8. RecoveriesOnTrack'
  BY <1>1, <1>2, <1>7
     DEF RecoveryInv, RecoveriesOnTrack, TypeOK, Applying, Decision, Monotone,
         workerVars
<1>9. JournalIsTrue'
  BY <1>2, <1>7 DEF RecoveryInv, JournalIsTrue, TypeOK, Decision, Monotone
<1>10. TypeOK'
  BY <1>2, <1>6 DEF RecoveryInv, TypeOK, DataInv, Stage
<1>11. BoundEarlier'
  BY <1>2 DEF RecoveryInv, BoundEarlier
<1>12. RetiredForCause'
  <2>1. \A p \in Operation : pubState'[p] = "failed" => pubState[p] = "failed"
    BY <1>2, <1>3
  <2> QED BY <1>7, <2>1 DEF RecoveryInv, RetiredForCause, Monotone, Cause
<1> QED
  BY <1>5, <1>6, <1>7, <1>8, <1>9, <1>10, <1>11, <1>12 DEF RecoveryInv, ClientInv

LEMMA ResumeActivateInv ==
    ASSUME RecoveryInv, NEW w \in Worker, ResumeActivate(w)
    PROVE  RecoveryInv' /\ Monotone
<1> DEFINE o == current[w].op
<1>1. /\ stage[w] = "activating"
      /\ stage[w] \in Applying
      /\ current[w] \in Decision
      /\ o \in Operation
      /\ current[w].action = "activate"
      /\ Applied(w)
  BY DEF ResumeActivate, RecoveryInv, RecoveriesOnTrack, Applying, Decision
<1>2. UNCHANGED <<approvalVars, draft, ledgerVars, tombstones, workerVars, crashes>>
  BY <1>1 DEF Applied
<1>3. pubState \in [Operation -> PubState] /\ ClientInv
  BY DEF RecoveryInv, TypeOK, ClientTypeOK
<1>4. CASE ActivateExpected(o)
  <2>1. /\ pubState[o] = "verified"
        /\ pubState' = [pubState EXCEPT ![o] = "active"]
        /\ UNCHANGED <<closure, boundTombs>>
    BY <1>4 DEF ActivateExpected, MayActivate
  <2>2. ActiveEpoch' = ActiveEpoch + 1 /\ ActiveEpoch \in Nat
    BY <1>1, <1>3, <1>4, ActivationAllocates DEF ClientInv
  <2>3. WorkersOnTrack' /\ WorkerTypes'
    BY <1>2, <1>3, <2>2, RecoveryStepTracks
  <2>4. DataInv'
    BY <1>1, <1>2, <1>3, <1>4, <2>3, ActivateExpectedInv DEF ClientInv
  <2>5. Monotone
    BY <1>1, <1>2, <1>3, <2>1, StateStepMonotone
  <2>6. RecoveriesOnTrack' /\ JournalIsTrue'
    BY <1>1, <1>3, <2>1, <2>5, AppliedTracks
  <2>7. TypeOK'
    BY <1>1, <2>4, AppliedTyped DEF DataInv
  <2>8. BoundEarlier'
    BY <1>2, <2>1 DEF RecoveryInv, BoundEarlier
  <2>9. RetiredForCause'
    <3>1. \A p \in Operation : pubState'[p] = "failed" => pubState[p] = "failed"
      BY <1>3, <2>1
    <3> QED BY <2>5, <3>1 DEF RecoveryInv, RetiredForCause, Monotone, Cause
  <2> QED
    BY <2>3, <2>4, <2>5, <2>6, <2>7, <2>8, <2>9 DEF RecoveryInv, ClientInv
<1>5. CASE pubState[o] = "active" /\ UNCHANGED pubVars
  <2>1. UNCHANGED clientVars
    BY <1>2, <1>5 DEF clientVars
  <2>2. Monotone
    BY <1>2, <1>3, <1>5, QuietMonotone DEF pubVars
  <2>3. RecoveriesOnTrack' /\ JournalIsTrue'
    BY <1>1, <1>5, <2>2, AppliedTracks DEF pubVars
  <2>4. TypeOK'
    BY <1>1, <2>1, AppliedTyped, ClientTypesUnchanged DEF RecoveryInv, TypeOK
  <2> QED BY <2>1, <2>3, <2>4, RecoveryLocalInv
<1> QED BY <1>4, <1>5 DEF ResumeActivate

-----------------------------------------------------------------------------
(* The theorems.                                                           *)

LEMMA RecoveryInitInv == Init => RecoveryInv
<1> SUFFICES ASSUME Init PROVE RecoveryInv
  OBVIOUS
<1>1. ClientInv
  BY ClientInitInv DEF Init
<1>2. TypeOK
  BY <1>1 DEF Init, TypeOK, ClientInv, DataInv, Stage
<1>3. RecoveriesOnTrack /\ JournalIsTrue
  BY DEF Init, RecoveriesOnTrack, JournalIsTrue, Applying
<1>4. BoundEarlier /\ RetiredForCause
  BY DEF Init, ClientInit, BoundEarlier, RetiredForCause
<1> QED BY <1>1, <1>2, <1>3, <1>4 DEF RecoveryInv

LEMMA FailInv ==
    ASSUME RecoveryInv, NEW w \in Worker, Fail(w)
    PROVE  RecoveryInv' /\ Monotone
<1>1. Leave(w) /\ UNCHANGED <<clientVars, healthy, journal, crashes>>
  BY DEF Fail
<1>2. crashes' \in Nat
  BY <1>1 DEF RecoveryInv, TypeOK
<1> QED BY <1>1, <1>2, LeaveInv

LEMMA DieInv ==
    ASSUME RecoveryInv, NEW w \in Worker, Die(w)
    PROVE  RecoveryInv' /\ Monotone
<1>1. crashes' \in Nat
  BY DEF Die, RecoveryInv, TypeOK
<1>2. CASE Crash(w) /\ UNCHANGED <<localVars, journal>>
  BY <1>1, <1>2, ClientStepRecoveryInv DEF ClientNext
<1>3. CASE Leave(w) /\ UNCHANGED <<clientVars, healthy, journal>>
  BY <1>1, <1>3, LeaveInv
<1> QED BY <1>2, <1>3 DEF Die

LEMMA ClientStepIsNext == ClientStep => ClientNext /\ UNCHANGED recoveryVars
BY DEF ClientStep, ClientNext

LEMMA RecoveryNextInv ==
    ASSUME RecoveryInv, [Next]_vars
    PROVE  RecoveryInv' /\ Monotone
<1>1. ASSUME NEW w \in Worker, RecoveryStep(w)
      PROVE  RecoveryInv' /\ Monotone
  <2>1. ASSUME NEW d \in todo[w], Replay(w, d) \/ RecordRebuild(w, d) \/ BeginApply(w, d)
        PROVE  RecoveryInv' /\ Monotone
    BY <2>1, ReplayInv, RecordRebuildInv, BeginApplyInv
  <2> QED
    BY <1>1, <2>1, ScanInv, LockInv, RetireInv, ResumeInv, ResumeVerifyInv,
       ResumeActivateInv, FailInv, FinishInv DEF RecoveryStep
<1>2. ASSUME NEW w \in Worker, Die(w)
      PROVE  RecoveryInv' /\ Monotone
  BY <1>2, DieInv
<1>3. ASSUME ClientStep \/ UNCHANGED vars
      PROVE  RecoveryInv' /\ Monotone
  <2>1. [ClientNext]_clientVars /\ UNCHANGED recoveryVars
    BY <1>3, ClientStepIsNext DEF vars
  <2>2. UNCHANGED <<localVars, journal>> /\ crashes' \in Nat
    BY <2>1 DEF recoveryVars, localVars, RecoveryInv, TypeOK
  <2> QED BY <2>1, <2>2, ClientStepRecoveryInv
<1> QED BY <1>1, <1>2, <1>3 DEF Next

\* The invariant of publication and recovery together.
THEOREM RecoveryInvariant == Spec => []RecoveryInv
<1>1. RecoveryInv /\ [Next]_vars => RecoveryInv'
  BY RecoveryNextInv
<1> QED BY <1>1, RecoveryInitInv, PTL DEF Spec

\* Every variable keeps its type, whatever dies.
THEOREM RecoveryTypes == Spec => []TypeOK
<1>1. RecoveryInv => TypeOK
  BY DEF RecoveryInv
<1> QED BY <1>1, RecoveryInvariant, PTL

\* A decision in recovery_decision_journal was carried out and still stands.
THEOREM JournalStaysTrue == Spec => []JournalIsTrue
<1>1. RecoveryInv => JournalIsTrue
  BY DEF RecoveryInv
<1> QED BY <1>1, RecoveryInvariant, PTL

\* _retire_invalid_prepared fails stale or deleted publications only, although
\* it acts on a decision that was made earlier.
THEOREM RetirementIsJustified == Spec => []RetiredForCause
<1>1. RecoveryInv => RetiredForCause
  BY DEF RecoveryInv
<1> QED BY <1>1, RecoveryInvariant, PTL

\* Neither a worker nor a recovery undoes what the other has concluded.
THEOREM OutcomesAreFinal == Spec => OutcomeIsFinal
<1>1. ASSUME RecoveryInv, [Next]_vars
      PROVE  [\A o \in Operation :
                  pubState[o] \in {"active", "failed"} => pubState'[o] = pubState[o]]_vars
  BY <1>1, RecoveryNextInv DEF Monotone
<1> QED BY <1>1, RecoveryInvariant, PTL DEF Spec, OutcomeIsFinal

\* What the publication protocol promises by itself it also promises when any
\* process may die at any step and the next one completes or retires what it
\* left, beside the workers that go on publishing.
THEOREM RecoveryKeepsPromises ==
    Spec => [](/\ LedgerIsDense
               /\ EpochsAsPlanned
               /\ ActiveClosureComplete
               /\ ProjectionNeverRegresses
               /\ AcknowledgedIsPublished)
<1>1. RecoveryInv =>
          /\ LedgerIsDense
          /\ EpochsAsPlanned
          /\ ActiveClosureComplete
          /\ ProjectionNeverRegresses
          /\ AcknowledgedIsPublished
  BY EpochsFollowPlans, ActivatedAreComplete, LaterEpochsShowMore
     DEF RecoveryInv, ClientInv, DataInv
<1> QED BY <1>1, RecoveryInvariant, PTL

-----------------------------------------------------------------------------
(* Two recoveries beside each other.                                       *)

\* The groups are taken in order, and each manifest of an operation that was
\* not journaled yet still has its decision: so what is left to the later group
\* of a purpose was journaled by the earlier one.
GroupsOnTrack ==
    /\ \A d \in journal : d.action # "rebuild" => Siblings(d) \subseteq journal
    /\ \A w \in Worker :
           /\ stage[w] \in {"out", "scanned"} => \A p \in Purpose : lock[p] # w
           /\ lock["profile"] = w => \A d \in todo[w] : d.purpose = "profile"
           /\ \A d \in todo[w] :
                  d.action # "rebuild" => Siblings(d) \subseteq todo[w] \cup journal
           /\ stage[w] \in Applying => lock["graph"] = w

LEMMA GroupsInitially == Init => GroupsOnTrack
BY NoneIsNoWorker DEF Init, GroupsOnTrack, Purpose, Applying

\* A step that takes a decision off the list of w finds or puts it in the journal.
LEMMA GroupsProgress ==
    ASSUME TypeOK, GroupsOnTrack, NEW w \in Worker, UNCHANGED lock,
           stage[w] \notin {"out", "scanned"},
           NEW next \in Stage, next \notin {"out", "scanned"},
           stage' = [stage EXCEPT ![w] = next],
           next \in Applying => lock["graph"] = w,
           NEW d, todo' = [todo EXCEPT ![w] = @ \ {d}],
           d \in journal', journal \subseteq journal',
           \A e \in journal' \ journal : e.action # "rebuild" => Siblings(e) \subseteq journal'
    PROVE  GroupsOnTrack'
<1>1. \A e : Siblings(e)' = Siblings(e)
  BY DEF Siblings
<1>2. ASSUME NEW v \in Worker
      PROVE  /\ todo'[v] \subseteq todo[v]
             /\ todo[v] \cup journal \subseteq todo'[v] \cup journal'
             /\ stage'[v] = IF v = w THEN next ELSE stage[v]
  BY DEF TypeOK
<1> QED BY <1>1, <1>2 DEF GroupsOnTrack

\* A recovery that ends, or that is done with a group, gives its locks back.
LEMMA GroupsReleased ==
    ASSUME TypeOK, GroupsOnTrack, NEW w \in Worker, UNCHANGED journal,
           lock' = Released(w),
           NEW next \in {"out", "scanned"}, stage' = [stage EXCEPT ![w] = next],
           todo' = todo \/ todo' = [todo EXCEPT ![w] = {}]
    PROVE  GroupsOnTrack'
<1>1. \A d : Siblings(d)' = Siblings(d)
  BY DEF Siblings
<1>2. ASSUME NEW p \in Purpose, NEW v \in Worker
      PROVE  lock'[p] = v <=> (lock[p] = v /\ v # w)
  BY NoneIsNoWorker DEF Released
<1>3. ASSUME NEW v \in Worker
      PROVE  /\ stage'[v] = IF v = w THEN next ELSE stage[v]
             /\ todo'[v] = todo[v] \/ todo'[v] = {}
  BY DEF TypeOK
<1> QED BY <1>1, <1>2, <1>3 DEF GroupsOnTrack, Purpose, Applying

LEMMA GroupsLock ==
    ASSUME TypeOK, GroupsOnTrack, NEW w \in Worker, Lock(w)
    PROVE  GroupsOnTrack'
<1>1. \A d : Siblings(d)' = Siblings(d)
  BY DEF Siblings
<1>2. Group(w) \in Purpose /\ (Group(w) = "profile" => \A d \in todo[w] : d.purpose # "graph")
  BY DEF Group, Purpose
<1>3. \A d \in todo[w] : d.purpose \in {"graph", "profile"}
  BY DEF TypeOK, Decision, Purpose
<1>4. /\ stage[w] = "scanned"
      /\ lock[Group(w)] = None
      /\ lock' = [lock EXCEPT ![Group(w)] = w]
      /\ stage' = [stage EXCEPT ![w] = "locked"]
      /\ UNCHANGED <<todo, journal>>
  BY DEF Lock
<1>5. ASSUME NEW p \in Purpose, NEW v \in Worker
      PROVE  lock'[p] = v <=> lock[p] = v \/ (p = Group(w) /\ v = w)
  BY <1>2, <1>4, NoneIsNoWorker DEF TypeOK
<1>6. \A v \in Worker : stage'[v] = IF v = w THEN "locked" ELSE stage[v]
  BY <1>4 DEF TypeOK
<1>7. "graph" \in Purpose /\ "profile" \in Purpose
  BY DEF Purpose
<1> QED BY <1>1, <1>2, <1>3, <1>4, <1>5, <1>6, <1>7 DEF GroupsOnTrack, Applying

LEMMA GroupsScan ==
    ASSUME TypeOK, GroupsOnTrack, NEW w \in Worker, Scan(w)
    PROVE  GroupsOnTrack'
<1> DEFINE decisions ==
               {Decide(o, p) : o \in {q \in Operation : Actionable(q)}, p \in Purpose}
<1>1. \A d : Siblings(d)' = Siblings(d)
  BY DEF Siblings
<1>2. ASSUME NEW d \in decisions
      PROVE  Siblings(d) \subseteq decisions
  <2>1. PICK o \in {q \in Operation : Actionable(q)}, p \in Purpose : d = Decide(o, p)
    BY <1>2
  <2>2. \A q \in Purpose : [d EXCEPT !.purpose = q] = Decide(o, q)
    BY <2>1 DEF Decide
  <2> QED BY <2>1, <2>2 DEF Siblings
<1>3. /\ stage[w] = "out"
      /\ stage' = [stage EXCEPT ![w] = "scanned"]
      /\ todo' = [todo EXCEPT ![w] = decisions]
      /\ UNCHANGED <<lock, journal>>
  BY DEF Scan
<1>4. "profile" \in Purpose
  BY DEF Purpose
<1> HIDE DEF decisions
<1> QED BY <1>1, <1>2, <1>3, <1>4 DEF GroupsOnTrack, TypeOK, Applying

\* Only the first group finds something to apply.
LEMMA GroupsBegin ==
    ASSUME TypeOK, GroupsOnTrack, NEW w \in Worker, NEW d \in todo[w], BeginApply(w, d)
    PROVE  GroupsOnTrack'
<1> DEFINE first == [d EXCEPT !.purpose = "graph"]
<1>1. /\ d \in Decision
      /\ d \notin journal
      /\ d.action # "rebuild"
      /\ lock[d.purpose] = w
  BY DEF BeginApply, Due, TypeOK
<1>2. d.purpose = "graph"
  <2> SUFFICES ASSUME d.purpose # "graph" PROVE FALSE
    OBVIOUS
  <2>1. d.purpose = "profile"
    BY <1>1 DEF Decision, Purpose
  <2>2. first \in Siblings(d) /\ first.purpose = "graph"
    BY <1>1 DEF Siblings, Purpose, Decision
  <2>3. first \in journal
    BY <1>1, <2>1, <2>2 DEF GroupsOnTrack
  <2>4. first.action # "rebuild" /\ Siblings(first) = Siblings(d)
    BY <1>1, <2>2, SiblingsDecide
  <2>5. d \in Siblings(d)
    BY <1>1 DEF Siblings, Decision
  <2> QED BY <1>1, <2>3, <2>4, <2>5 DEF GroupsOnTrack
<1>3. /\ stage[w] = "locked"
      /\ stage' = [stage EXCEPT ![w] =
                       IF d.action = "retire" THEN "retiring" ELSE "resuming"]
      /\ UNCHANGED <<todo, lock, journal>>
  BY DEF BeginApply
<1>4. \A e : Siblings(e)' = Siblings(e)
  BY DEF Siblings
<1> QED BY <1>1, <1>2, <1>3, <1>4 DEF GroupsOnTrack, TypeOK

LEMMA GroupsApplied ==
    ASSUME RecoveryInv, GroupsOnTrack, NEW w \in Worker, stage[w] \in Applying, Applied(w)
    PROVE  GroupsOnTrack'
<1>1. TypeOK /\ current[w] \in Decision
  BY DEF RecoveryInv, RecoveriesOnTrack
<1>2. current[w] \in Siblings(current[w])
  BY <1>1 DEF Siblings, Decision
<1>3. \A d \in Siblings(current[w]) : Siblings(d) = Siblings(current[w])
  BY <1>1, SiblingsDecide
<1>4. /\ journal' = journal \cup Siblings(current[w])
      /\ todo' = [todo EXCEPT ![w] = @ \ {current[w]}]
      /\ stage' = [stage EXCEPT ![w] = "locked"]
      /\ UNCHANGED lock
  BY DEF Applied
<1>5. stage[w] \notin {"out", "scanned"} /\ "locked" \in Stage /\ "locked" \notin Applying
  BY DEF Applying, Stage
<1> QED BY <1>1, <1>2, <1>3, <1>4, <1>5, GroupsProgress

\* The stages of an application.
LEMMA GroupsAdvance ==
    ASSUME TypeOK, GroupsOnTrack, NEW w \in Worker, stage[w] \in Applying,
           NEW next \in Applying, stage' = [stage EXCEPT ![w] = next],
           UNCHANGED <<todo, lock, journal>>
    PROVE  GroupsOnTrack'
<1>1. \A d : Siblings(d)' = Siblings(d)
  BY DEF Siblings
<1> QED BY <1>1 DEF GroupsOnTrack, TypeOK, Applying

LEMMA GroupsStutter ==
    ASSUME GroupsOnTrack, UNCHANGED <<stage, todo, lock, journal>>
    PROVE  GroupsOnTrack'
<1>1. \A d : Siblings(d)' = Siblings(d)
  BY DEF Siblings
<1> QED BY <1>1 DEF GroupsOnTrack

LEMMA GroupsNext ==
    ASSUME RecoveryInv, GroupsOnTrack, [Next]_vars
    PROVE  GroupsOnTrack'
<1>1. TypeOK
  BY DEF RecoveryInv
<1>2. ASSUME NEW w \in Worker, Leave(w), UNCHANGED journal
      PROVE  GroupsOnTrack'
  BY <1>1, <1>2, GroupsReleased DEF Leave
<1>3. ASSUME NEW w \in Worker, RecoveryStep(w)
      PROVE  GroupsOnTrack'
  <2>1. ASSUME NEW d \in todo[w], Replay(w, d) \/ RecordRebuild(w, d)
        PROVE  GroupsOnTrack'
    <3>1. /\ stage[w] = "locked"
          /\ todo' = [todo EXCEPT ![w] = @ \ {d}]
          /\ journal' \in {journal, journal \cup {d}}
          /\ d \in journal'
          /\ d \in journal \/ d.action = "rebuild"
          /\ UNCHANGED <<stage, lock>>
      BY <2>1 DEF Replay, RecordRebuild
    <3>2. /\ stage' = [stage EXCEPT ![w] = "locked"]
          /\ "locked" \in Stage
          /\ "locked" \notin Applying
      BY <1>1, <3>1 DEF TypeOK, Stage, Applying
    <3> QED BY <1>1, <3>1, <3>2, GroupsProgress
  <2>2. CASE Unlock(w)
    BY <1>1, <2>2, GroupsReleased DEF Unlock
  <2>3. CASE Resume(w) \/ ResumeVerify(w)
    BY <1>1, <2>3, GroupsAdvance DEF Resume, ResumeVerify, Applying
  <2>4. CASE Retire(w) \/ ResumeActivate(w)
    BY <2>4, GroupsApplied DEF Retire, ResumeActivate, Applying
  <2>5. CASE Fail(w) \/ Finish(w)
    BY <1>2, <2>5 DEF Fail, Finish
  <2> QED
    BY <1>1, <1>3, <2>1, <2>2, <2>3, <2>4, <2>5, GroupsLock, GroupsScan, GroupsBegin
       DEF RecoveryStep
<1>4. ASSUME NEW w \in Worker, Die(w)
      PROVE  GroupsOnTrack'
  <2>1. CASE UNCHANGED <<localVars, journal>>
    BY <2>1, GroupsStutter DEF localVars
  <2> QED BY <1>2, <1>4, <2>1 DEF Die
<1>5. ASSUME ClientStep \/ UNCHANGED vars
      PROVE  GroupsOnTrack'
  <2>1. UNCHANGED recoveryVars
    BY <1>5, ClientStepIsNext DEF vars
  <2> QED BY <2>1, GroupsStutter DEF recoveryVars
<1> QED BY <1>3, <1>4, <1>5 DEF Next

\* Recoveries lock one purpose after the other (RecoveryCoordinator.recover) and
\* may overlap, but at most one of them completes or retires publications: the
\* lock that counts is that of the first group.
THEOREM RecoveriesExclude == Spec => []OneApplierAtATime
<1>1. Init => GroupsOnTrack
  BY GroupsInitially
<1>2. RecoveryInv /\ GroupsOnTrack /\ [Next]_vars => GroupsOnTrack'
  BY GroupsNext
<1>3. GroupsOnTrack => OneApplierAtATime
  BY DEF GroupsOnTrack, OneApplierAtATime
<1> QED BY <1>1, <1>2, <1>3, RecoveryInvariant, PTL DEF Spec

-----------------------------------------------------------------------------
LEMMA OnlyActivationsSwitch ==
    ASSUME [Next]_vars, active' # active
    PROVE  \E o \in {job[w] : w \in Worker} \cup {current[w].op : w \in Worker} :
               ActivateExpected(o)
<1>1. ASSUME NEW w \in Worker, RecoveryStep(w)
      PROVE  ActivateExpected(current[w].op)
  BY <1>1
     DEF RecoveryStep, Scan, Lock, Unlock, Replay, RecordRebuild, BeginApply, Retire,
         Resume, ResumeVerify, MarkVerified, ResumeActivate, Applied, Fail, Finish, clientVars,
         pubVars
<1>2. ASSUME NEW w \in Worker, Die(w)
      PROVE  FALSE
  BY <1>2 DEF Die, Crash, Stop, clientVars, pubVars
<1>3. ASSUME ClientStep
      PROVE  \E w \in Worker : Activate(w)
  BY <1>3
     DEF ClientStep, WorkerStep, pubVars, RegisterPreview, CommitFacts, InsertPrepared,
         FindCommitted, BeginVerify, Verify, MarkVerified, BeginActivate, Return, Raise, Stop,
         BeginPreview, Plan, RecoverApplied, Approve, Delete
<1>4. ~UNCHANGED vars
  BY DEF vars, clientVars, pubVars
<1> QED BY <1>1, <1>2, <1>3, <1>4 DEF Next, Activate

\* A recovery that completes what a dead process left switches to nothing that
\* was deleted meanwhile either, although it decided before the deletion.
THEOREM RecoveryHidesDeleted == Spec => NeverActivatesDeleted
<1>1. ASSUME [Next]_vars
      PROVE  [active' # active =>
                  \A p \in closure[active'] : SourceOf[p] \notin tombstones]_clientVars
  BY <1>1, OnlyActivationsSwitch DEF ActivateExpected, MayActivate, Visible, Lineage
<1> QED BY <1>1, PTL DEF Spec, NeverActivatesDeleted

-----------------------------------------------------------------------------
(* What recovery does to a publication is a step of the abstract ledger.   *)

LEMMA RecoveryStepRefines ==
    ASSUME RecoveryInv, ProjectionNeverRegresses', NEW w \in Worker, RecoveryStep(w)
    PROVE  Facts!FactsNext \/ UNCHANGED ledgerView
<1>1. ClientInv /\ pubState \in [Operation -> PubState]
  BY DEF RecoveryInv, TypeOK, ClientTypeOK
<1>2. CASE ResumeActivate(w)
  <2>1. PICK o \in Operation : o = current[w].op
    BY <1>2
       DEF ResumeActivate, RecoveryInv, RecoveriesOnTrack, Applying, Decision
  <2>2. UNCHANGED <<approvalVars, draft, ledgerVars, tombstones>>
    BY <1>2 DEF ResumeActivate, Applied
  <2>3. CASE ActivateExpected(o)
    <3>1. Facts!Publish(o)
      BY <1>1, <2>2, <2>3, ActivatePublishes
    <3> QED BY <3>1 DEF Facts!FactsNext
  <2>4. CASE UNCHANGED pubVars
    BY <1>1, <2>2, <2>4, InvisibleSteps DEF pubVars, ledgerVars, approvalVars
  <2> QED BY <1>2, <2>1, <2>3, <2>4 DEF ResumeActivate
<1>3. CASE Retire(w) \/ ResumeVerify(w)
  <2>1. /\ UNCHANGED <<factVersion, authority, tombstones, active, request>>
        /\ \E o, next : /\ pubState[o] # "active"
                        /\ next # "active"
                        /\ pubState' = [pubState EXCEPT ![o] = next]
    BY <1>3
       DEF Retire, Unfinished, ResumeVerify, MarkVerified, Applied, ledgerVars,
           approvalVars
  <2> QED BY <1>1, <2>1, InvisibleSteps
<1>4. CASE \/ Scan(w) \/ Lock(w) \/ Unlock(w) \/ Resume(w) \/ Fail(w) \/ Finish(w)
           \/ \E d \in todo[w] : Replay(w, d) \/ RecordRebuild(w, d) \/ BeginApply(w, d)
  <2>1. UNCHANGED <<factVersion, authority, tombstones, active, pubState, request>>
    BY <1>4
       DEF Scan, Lock, Unlock, Resume, Fail, Finish, Replay, RecordRebuild, BeginApply,
           clientVars, approvalVars, ledgerVars, pubVars
  <2> QED BY <1>1, <2>1, InvisibleSteps
<1> QED BY <1>2, <1>3, <1>4 DEF RecoveryStep

\* With recovery, crashes and restarts the protocol still implements the
\* abstract ledger: recovery publishes only complete, visible prefixes.
THEOREM RecoveryRefinesFacts == Spec => ImplementsPublishedFacts
<1>1. RecoveryInv => ProjectionNeverRegresses
  BY LaterEpochsShowMore DEF RecoveryInv
<1>2. ASSUME RecoveryInv, ProjectionNeverRegresses', [Next]_vars
      PROVE  [Facts!FactsNext]_(Facts!factVars)
  <2>1. ASSUME [ClientNext]_clientVars
        PROVE  [Facts!FactsNext]_(Facts!factVars)
    BY <1>2, <2>1, StepsRefine DEF RecoveryInv
  <2>2. ASSUME NEW w \in Worker, RecoveryStep(w)
        PROVE  [Facts!FactsNext]_(Facts!factVars)
    <3>1. Facts!FactsNext \/ UNCHANGED ledgerView
      BY <1>2, <2>2, RecoveryStepRefines
    <3> QED BY <3>1 DEF Facts!factVars, ledgerView, Shown, Published, Reported
  <2>3. ASSUME ClientStep \/ (\E w \in Worker : Die(w)) \/ UNCHANGED vars
        PROVE  [ClientNext]_clientVars
    BY <2>3, ClientStepIsNext DEF Die, ClientNext, vars
  <2> QED BY <1>2, <2>1, <2>2, <2>3 DEF Next
<1>3. Init => Facts!FactsInit
  BY FactsInitially DEF Init
<1> QED
  BY <1>1, <1>2, <1>3, RecoveryInvariant, PTL
     DEF Spec, ImplementsPublishedFacts, Facts!FactsSpec

-----------------------------------------------------------------------------
(* What two workers can leave behind.                                      *)

\* The publication was committed, and the epoch it expects has passed.
Late(o) == pubState[o] \notin {"none", "active"} /\ ExpectedEpoch(o) < ActiveEpoch

LEMMA EpochSteps ==
    ASSUME RecoveryInv, [Next]_vars
    PROVE  \/ \E o \in Operation : ActivateExpected(o)
           \/ /\ UNCHANGED <<active, epochOf>>
              /\ \A o \in Operation : pubState'[o] = "active" => pubState[o] = "active"
<1> DEFINE Still ==
             /\ UNCHANGED <<active, epochOf>>
             /\ \A o \in Operation : pubState'[o] = "active" => pubState[o] = "active"
<1>1. pubState \in [Operation -> PubState]
  BY DEF RecoveryInv, TypeOK, ClientTypeOK
<1>2. ASSUME NEW w \in Worker, RecoveryStep(w)
      PROVE  Still \/ \E o \in Operation : ActivateExpected(o)
  <2>1. CASE ResumeActivate(w)
    <3>1. current[w].op \in Operation
      BY <2>1
         DEF ResumeActivate, RecoveryInv, RecoveriesOnTrack, Applying, Decision
    <3> QED BY <2>1, <3>1 DEF ResumeActivate, pubVars
  <2>2. CASE Retire(w) \/ ResumeVerify(w)
    BY <1>1, <2>2 DEF Retire, ResumeVerify, MarkVerified
  <2>3. CASE \/ Scan(w) \/ Lock(w) \/ Unlock(w) \/ Resume(w) \/ Fail(w) \/ Finish(w)
             \/ \E d \in todo[w] : Replay(w, d) \/ RecordRebuild(w, d) \/ BeginApply(w, d)
    BY <2>3
       DEF Scan, Lock, Unlock, Resume, Fail, Finish, Replay, RecordRebuild, BeginApply,
           clientVars, pubVars
  <2> QED BY <1>2, <2>1, <2>2, <2>3 DEF RecoveryStep
<1>3. ASSUME NEW w \in Worker, WorkerStep(w)
      PROVE  Still \/ \E o \in Operation : ActivateExpected(o)
  <2>1. CASE Activate(w)
    <3>1. job[w] \in Operation
      BY <2>1 DEF Activate, RecoveryInv, ClientInv, WorkersOnTrack, Executing
    <3> QED BY <2>1, <3>1 DEF Activate
  <2>2. CASE CommitFacts(w) \/ Verify(w)
    BY <1>1, <2>2 DEF CommitFacts, InsertPrepared, Verify, MarkVerified
  <2>3. CASE \/ RegisterPreview(w) \/ BeginVerify(w) \/ BeginActivate(w) \/ Return(w)
             \/ Raise(w) \/ FindCommitted(w)
    BY <2>3
       DEF RegisterPreview, FindCommitted, BeginVerify, BeginActivate, Return, Raise, Stop,
           pubVars
  <2> QED BY <1>3, <2>1, <2>2, <2>3 DEF WorkerStep
<1>4. ASSUME \/ \E w \in Worker, o \in Operation :
                    BeginPreview(w, o) \/ Plan(w, o) \/ RecoverApplied(w, o)
             \/ \E o \in Operation : Approve(o)
             \/ \E s \in Deletable : Delete(s)
             \/ \E w \in Worker : Die(w)
             \/ UNCHANGED vars
      PROVE  Still
  BY <1>4
     DEF BeginPreview, Plan, RecoverApplied, Approve, Delete, Die, Crash, Stop, pubVars,
         clientVars, vars
<1> QED BY <1>2, <1>3, <1>4 DEF Next, ClientStep

\* A plan is registered once.
LEMMA DraftsStay ==
    ASSUME RecoveryInv, [Next]_vars, NEW o \in Operation, draft[o] # None
    PROVE  draft'[o] = draft[o]
<1>1. draft \in [Operation -> Draft \cup {None}]
  BY DEF RecoveryInv, TypeOK, ClientTypeOK
<1>2. ASSUME NEW w \in Worker, RegisterPreview(w)
      PROVE  draft'[o] = draft[o]
  <2>1. job[w] # o
    BY <1>2 DEF RegisterPreview, RecoveryInv, ClientInv, WorkersOnTrack
  <2> QED BY <1>1, <1>2, <2>1 DEF RegisterPreview
<1>3. ASSUME NEW w \in Worker,
             WorkerStep(w) \/ RecoveryStep(w) \/ Die(w)
                 \/ \E p \in Operation :
                        BeginPreview(w, p) \/ Plan(w, p) \/ RecoverApplied(w, p)
      PROVE  draft'[o] = draft[o]
  BY <1>2, <1>3
     DEF WorkerStep, CommitFacts, FindCommitted, BeginVerify, Verify, BeginActivate,
         Activate, Return, Raise, Stop, BeginPreview, Plan, RecoverApplied, Die, Crash,
         RecoveryStep, Scan, Lock, Unlock, Replay, RecordRebuild, BeginApply, Retire, Resume, ResumeVerify,
         ResumeActivate, Applied, Fail, Finish, clientVars
<1>4. ASSUME \/ \E p \in Operation : Approve(p)
             \/ \E s \in Deletable : Delete(s)
             \/ UNCHANGED vars
      PROVE  draft'[o] = draft[o]
  BY <1>4 DEF Approve, Delete, clientVars, vars
<1> QED BY <1>3, <1>4 DEF Next, ClientStep

LEMMA LateStays ==
    ASSUME RecoveryInv, [Next]_vars, NEW o \in Operation, Late(o)
    PROVE  Late(o)'
<1>1. draft[o] \in Draft /\ ActiveEpoch \in Nat
  BY EpochsAreNaturals
     DEF Late, RecoveryInv, TypeOK, ClientTypeOK, ClientInv, DataInv, CommittedTogether
<1>2. draft'[o] = draft[o]
  BY <1>1, DraftsStay DEF Draft, RecoveryInv, ClientInv, DataInv, CommittedTogether, Late
<1>3. pubState'[o] # "none"
  BY RecoveryNextInv DEF Late, Monotone
<1>4. CASE \E p \in Operation : ActivateExpected(p)
  <2>1. PICK p \in Operation : ActivateExpected(p)
    BY <1>4
  <2>2. ActiveEpoch' = ActiveEpoch + 1
    BY <2>1, ActivationAllocates DEF RecoveryInv, ClientInv
  <2>3. p # o /\ pubState' = [pubState EXCEPT ![p] = "active"]
    BY <1>1, <2>1 DEF ActivateExpected, MayActivate, Late, ExpectedEpoch, Draft
  <2>4. pubState'[o] # "active"
    BY <2>3 DEF Late, RecoveryInv, TypeOK, ClientTypeOK
  <2> QED BY <1>1, <1>2, <1>3, <2>2, <2>4 DEF Late, ExpectedEpoch, Draft
<1>5. CASE /\ UNCHANGED <<active, epochOf>>
           /\ \A p \in Operation : pubState'[p] = "active" => pubState[p] = "active"
  BY <1>2, <1>3, <1>5 DEF Late, ExpectedEpoch, ActiveEpoch
<1> QED BY <1>4, <1>5, EpochSteps

\* Nothing repairs what recovery_stuck shows: a publication that was committed
\* for an epoch that has passed is never activated, by any worker or recovery
\* (activate_expected); and by RetirementIsJustified none is retired before
\* something else makes it stale.
THEOREM LatePublicationsStayLate ==
    Spec => [][\A o \in Operation : Late(o) => Late(o)']_vars
<1>1. ASSUME RecoveryInv, [Next]_vars
      PROVE  [\A o \in Operation : Late(o) => Late(o)']_vars
  BY <1>1, LateStays
<1> QED BY <1>1, RecoveryInvariant, PTL DEF Spec

-----------------------------------------------------------------------------
(* One process at a time: why a start can only be refused by a deletion.   *)

\* At most one worker is ever started for the client.
OneWorker == \A v, w \in Worker : v = w

Completing == {"applied", "verifying", "verified", "activating"}

\* The worker publishes one operation at a time, from the active epoch, and
\* one that it left unfinished is in the decisions of its next start.
LonePublication ==
    /\ \A o, p \in Operation : Unfinished(o) /\ Unfinished(p) => o = p
    /\ \A o \in Operation : Unfinished(o) => ExpectedEpoch(o) = ActiveEpoch
    /\ \A w \in Worker :
           phase[w] = "planned" => draft[job[w]].runtime = ActiveEpoch + 1
    /\ \A w \in Worker, o \in Operation :
           Unfinished(o) =>
               \/ phase[w] \in Completing /\ job[w] = o
               \/ /\ phase[w] = "down"
                  /\ stage[w] # "out" => \E d \in todo[w] : d.op = o

\* The decisions of a start stand until something is deleted.
DecisionsStand(w) ==
    \A d \in todo[w] \ journal :
        d.tombstones = tombstones /\ d.action # "rebuild" => StillDecided(d)

LoneRecovery ==
    \A w \in Worker :
        /\ stage[w] = "out" => todo[w] = {}
        /\ \A d, e \in todo[w] : d.op = e.op => e \in Siblings(d)
        /\ \A d \in todo[w] : d.tombstones \subseteq tombstones
        /\ DecisionsStand(w)
        /\ stage[w] \in Applying =>
               current[w] \in todo[w] \ journal /\ Unfinished(current[w].op)
        /\ stage[w] = "verifying" => pubState[current[w].op] = "prepared"
        /\ stage[w] = "activating" => pubState[current[w].op] = "verified"

LoneInv == RecoveryInv /\ GroupsOnTrack /\ LonePublication /\ LoneRecovery

\* Where the worker does not recover, there is no decision to keep.
LEMMA OutKeepsRecovery ==
    ASSUME OneWorker, LoneInv, NEW w \in Worker, stage[w] = "out", UNCHANGED recoveryVars
    PROVE  LoneRecovery'
BY DEF OneWorker, LoneInv, LoneRecovery, DecisionsStand, recoveryVars, Applying

\* With nothing unfinished the worker may be anywhere.
LEMMA NothingPending ==
    ASSUME OneWorker, NEW w \in Worker, phase'[w] # "planned",
           \A o \in Operation : ~Unfinished(o)'
    PROVE  LonePublication'
BY DEF OneWorker, LonePublication

\* A worker that is neither completing a publication nor down has left none.
LEMMA NoneUnfinished ==
    ASSUME LoneInv, NEW w \in Worker, phase[w] \notin Completing \cup {"down"}
    PROVE  \A o \in Operation : ~Unfinished(o)
BY DEF LoneInv, LonePublication

LEMMA WorkerIsOut ==
    ASSUME LoneInv, NEW w \in Worker, phase[w] # "down"
    PROVE  stage[w] = "out"
BY DEF LoneInv, RecoveryInv, RecoveriesOnTrack

LEMMA LoneInitInv == Init => LonePublication /\ LoneRecovery
BY NoneIsNoWorker
   DEF Init, ClientInit, LonePublication, LoneRecovery, DecisionsStand, Unfinished,
       Applying

LEMMA LoneCommit ==
    ASSUME OneWorker, LoneInv, NEW w \in Worker, CommitFacts(w)
    PROVE  LonePublication'
<1>1. PICK o \in Operation : o = job[w]
  BY CommitFactsReady DEF LoneInv, RecoveryInv
<1>2. /\ phase[w] = "planned"
      /\ pubState' = [pubState EXCEPT ![o] = "prepared"]
      /\ phase' = [phase EXCEPT ![w] = "applied"]
      /\ UNCHANGED <<active, epochOf, draft, job>>
  BY <1>1 DEF CommitFacts, InsertPrepared, GoTo
<1>3. /\ pubState \in [Operation -> PubState]
      /\ phase \in [Worker -> ClientPhase]
      /\ ActiveEpoch \in Nat
      /\ ActiveEpoch' = ActiveEpoch
  BY <1>2, EpochsAreNaturals DEF LoneInv, RecoveryInv, TypeOK, ClientTypeOK, ActiveEpoch
<1>4. \A p \in Operation : ~Unfinished(p)
  BY <1>2, NoneUnfinished DEF Completing
<1>5. \A p \in Operation : Unfinished(p)' <=> p = o
  BY <1>2, <1>3, <1>4 DEF Unfinished
<1>6. draft[o].runtime = ActiveEpoch + 1
  BY <1>1, <1>2 DEF LoneInv, LonePublication
<1>7. ExpectedEpoch(o)' = ActiveEpoch'
  BY <1>2, <1>3, <1>6 DEF ExpectedEpoch
<1>8. phase'[w] = "applied" /\ job'[w] = o
  BY <1>1, <1>2, <1>3
<1> QED BY <1>5, <1>7, <1>8 DEF OneWorker, LonePublication, Completing

\* A worker that goes on with its publication, and one that stops.
LEMMA LoneMovesOn ==
    ASSUME OneWorker, LoneInv, NEW w \in Worker, UNCHANGED <<draft, active, epochOf>>,
           \A o \in Operation : Unfinished(o)' <=> Unfinished(o),
           \/ phase'[w] \in Completing /\ phase[w] \in Completing /\ job' = job
           \/ phase'[w] = "down" /\ stage'[w] = "out"
    PROVE  LonePublication'
<1>1. ActiveEpoch' = ActiveEpoch /\ \A o \in Operation : ExpectedEpoch(o)' = ExpectedEpoch(o)
  BY DEF ActiveEpoch, ExpectedEpoch
<1> QED BY <1>1 DEF OneWorker, LoneInv, LonePublication, Completing

LEMMA LoneWorkerStep ==
    ASSUME OneWorker, LoneInv, NEW w \in Worker, WorkerStep(w) \/ Crash(w),
           UNCHANGED recoveryVars
    PROVE  LonePublication' /\ LoneRecovery'
<1>1. phase[w] # "down"
  BY DEF WorkerStep, Crash, RegisterPreview, CommitFacts, FindCommitted, BeginVerify,
         Verify, BeginActivate, Activate, Return, Raise
<1>2. stage[w] = "out" /\ LoneRecovery'
  BY <1>1, WorkerIsOut, OutKeepsRecovery
<1>3. /\ pubState \in [Operation -> PubState]
      /\ phase \in [Worker -> ClientPhase]
      /\ job \in [Worker -> Operation \cup {None}]
  BY DEF LoneInv, RecoveryInv, TypeOK, ClientTypeOK
<1>4. CASE CommitFacts(w)
  BY <1>2, <1>4, LoneCommit
<1>5. CASE Verify(w)
  <2>1. /\ phase[w] \in Completing
        /\ phase'[w] \in Completing
        /\ \A o \in Operation : Unfinished(o)' <=> Unfinished(o)
        /\ UNCHANGED <<draft, active, epochOf, job>>
    BY <1>3, <1>5 DEF Verify, MarkVerified, GoTo, Completing, Unfinished
  <2> QED BY <1>2, <2>1, LoneMovesOn
<1>6. CASE BeginVerify(w) \/ BeginActivate(w)
  <2>1. /\ phase[w] \in Completing
        /\ UNCHANGED <<draft, pubVars, job>>
        /\ \A o \in Operation : Unfinished(o)' <=> Unfinished(o)
    BY <1>6 DEF BeginVerify, BeginActivate, Completing, Unfinished, pubVars
  <2>2. CASE phase'[w] \in Completing
    BY <1>2, <2>1, <2>2, LoneMovesOn DEF pubVars
  <2>3. CASE phase'[w] \notin Completing
    <3>1. phase'[w] = "published" /\ pubState[job[w]] = "active"
      BY <1>3, <1>6, <2>3 DEF BeginVerify, BeginActivate, GoTo, Completing
    <3>2. \A o \in Operation : Unfinished(o) => job[w] = o
      BY <1>1 DEF LoneInv, LonePublication
    <3>3. \A o \in Operation : ~Unfinished(o)'
      BY <2>1, <3>1, <3>2 DEF Unfinished
    <3> QED BY <1>2, <3>1, <3>3, NothingPending
  <2> QED BY <2>2, <2>3
<1>7. CASE Activate(w)
  <2>1. /\ pubState' = [pubState EXCEPT ![job[w]] = "active"]
        /\ phase'[w] = "published"
    BY <1>3, <1>7 DEF Activate, ActivateExpected, GoTo
  <2>2. \A o \in Operation : Unfinished(o) => job[w] = o
    BY <1>1 DEF LoneInv, LonePublication
  <2>3. \A o \in Operation : ~Unfinished(o)'
    BY <1>3, <2>1, <2>2 DEF Unfinished
  <2> QED BY <1>2, <2>1, <2>3, NothingPending
<1>8. CASE RegisterPreview(w) \/ FindCommitted(w) \/ Return(w)
  <2>1. /\ phase[w] \notin Completing \cup {"down"}
        /\ phase'[w] # "planned"
        /\ UNCHANGED pubVars
    BY <1>3, <1>8 DEF RegisterPreview, FindCommitted, Return, GoTo, Completing
  <2>2. \A o \in Operation : ~Unfinished(o)'
    BY <2>1, NoneUnfinished DEF Unfinished, pubVars
  <2> QED BY <1>2, <2>1, <2>2, NothingPending
<1>9. CASE Stop(w)
  <2>1. /\ phase'[w] = "down"
        /\ stage'[w] = "out"
        /\ UNCHANGED <<draft, active, epochOf>>
        /\ \A o \in Operation : Unfinished(o)' <=> Unfinished(o)
    BY <1>2, <1>3, <1>9 DEF Stop, GoTo, pubVars, recoveryVars, Unfinished
  <2> QED BY <1>2, <2>1, LoneMovesOn
<1> QED
  BY <1>4, <1>5, <1>6, <1>7, <1>8, <1>9 DEF WorkerStep, Crash, Raise

LEMMA LoneRequest ==
    ASSUME OneWorker, LoneInv, NEW w \in Worker, NEW o \in Operation,
           BeginPreview(w, o) \/ Plan(w, o) \/ RecoverApplied(w, o),
           UNCHANGED recoveryVars
    PROVE  LonePublication' /\ LoneRecovery'
<1>1. phase[w] = "idle" /\ UNCHANGED <<pubVars, draft>>
  BY DEF BeginPreview, Plan, RecoverApplied
<1>2. LoneRecovery'
  BY <1>1, WorkerIsOut, OutKeepsRecovery
<1>3. \A p \in Operation : ~Unfinished(p)'
  BY <1>1, NoneUnfinished DEF Completing, Unfinished, pubVars
<1>4. /\ phase \in [Worker -> ClientPhase]
      /\ job \in [Worker -> Operation \cup {None}]
  BY DEF LoneInv, RecoveryInv, TypeOK, ClientTypeOK
<1>5. CASE Plan(w, o)
  <2>1. /\ draft'[job'[w]].runtime = ActiveEpoch'+ 1
    BY <1>1, <1>4, <1>5 DEF Plan, CanPlan, GoTo, ActiveEpoch, pubVars
  <2> QED BY <1>2, <1>3, <2>1 DEF OneWorker, LonePublication
<1>6. CASE BeginPreview(w, o) \/ RecoverApplied(w, o)
  <2>1. phase'[w] # "planned"
    BY <1>1, <1>4, <1>6 DEF BeginPreview, RecoverApplied, GoTo, workerVars
  <2> QED BY <1>2, <1>3, <2>1, NothingPending
<1> QED BY <1>5, <1>6

\* Steps that leave every publication and every plan alone.
LEMMA LoneQuiet ==
    ASSUME LoneInv,
           UNCHANGED <<draft, pubState, active, epochOf, phase, job, stage, todo>>
    PROVE  LonePublication'
BY DEF LoneInv, LonePublication, Unfinished, ExpectedEpoch, ActiveEpoch

\* What a decision is computed from.
LEMMA SameDecision ==
    ASSUME UNCHANGED <<pubState, closure, boundTombs, ledgerVars, tombstones>>, NEW d
    PROVE  StillDecided(d)' <=> StillDecided(d)
BY DEF StillDecided, Unfinished, Decide, Visible, Lineage, Stale, ledgerVars

LEMMA LoneControl ==
    ASSUME LoneInv, UNCHANGED recoveryVars,
           (\E o \in Operation : Approve(o)) \/ (\E s \in Deletable : Delete(s))
               \/ UNCHANGED clientVars
    PROVE  LonePublication' /\ LoneRecovery'
<1>1. /\ UNCHANGED <<draft, pubVars, ledgerVars, phase, job>>
      /\ tombstones \subseteq tombstones'
  BY DEF Approve, Delete, workerVars, clientVars
<1>2. LonePublication'
  BY <1>1, LoneQuiet DEF pubVars, recoveryVars
<1>3. LoneRecovery'
  <2> SUFFICES ASSUME NEW v \in Worker
               PROVE  /\ \A d \in todo[v] : d.tombstones \subseteq tombstones'
                      /\ DecisionsStand(v)'
    BY <1>1 DEF LoneInv, LoneRecovery, Unfinished, pubVars, recoveryVars, Applying
  <2>1. \A d \in todo[v] : d.tombstones \subseteq tombstones'
    BY <1>1 DEF LoneInv, LoneRecovery
  <2>2. DecisionsStand(v)'
    <3> SUFFICES ASSUME NEW d \in todo[v] \ journal, d.tombstones = tombstones',
                        d.action # "rebuild"
                 PROVE  StillDecided(d)'
      BY DEF DecisionsStand, recoveryVars
    <3>1. tombstones' = tombstones
      BY <1>1 DEF LoneInv, LoneRecovery
    <3>2. StillDecided(d)
      BY <3>1 DEF LoneInv, LoneRecovery, DecisionsStand
    <3> QED BY <1>1, <3>1, <3>2, SameDecision DEF pubVars
  <2> QED BY <2>1, <2>2
<1> QED BY <1>2, <1>3

LEMMA LoneClientStep ==
    ASSUME OneWorker, LoneInv, UNCHANGED recoveryVars, [ClientNext]_clientVars
    PROVE  LonePublication' /\ LoneRecovery'
<1>1. ASSUME NEW v \in Worker, WorkerStep(v) \/ Crash(v)
      PROVE  LonePublication' /\ LoneRecovery'
  BY <1>1, LoneWorkerStep
<1>2. ASSUME NEW v \in Worker, NEW o \in Operation,
             BeginPreview(v, o) \/ Plan(v, o) \/ RecoverApplied(v, o)
      PROVE  LonePublication' /\ LoneRecovery'
  BY <1>2, LoneRequest
<1>3. ASSUME \/ \E o \in Operation : Approve(o)
             \/ \E s \in Deletable : Delete(s)
             \/ UNCHANGED clientVars
      PROVE  LonePublication' /\ LoneRecovery'
  BY <1>3, LoneControl
<1> QED BY <1>1, <1>2, <1>3 DEF ClientNext

\* The scan decides what is unfinished, once each.
LEMMA LoneScan ==
    ASSUME OneWorker, LoneInv, NEW w \in Worker, Scan(w)
    PROVE  LonePublication' /\ LoneRecovery'
<1> DEFINE decisions ==
               {Decide(o, p) : o \in {q \in Operation : Actionable(q)}, p \in Purpose}
<1>1. /\ phase[w] = "down"
      /\ stage[w] = "out"
      /\ stage' = [stage EXCEPT ![w] = "scanned"]
      /\ todo' = [todo EXCEPT ![w] = decisions]
      /\ UNCHANGED <<clientVars, current, lock, journal>>
  BY DEF Scan
<1>2. /\ \A d, e \in decisions : d.op = e.op => e \in Siblings(d)
      /\ \A d \in decisions : d.tombstones = tombstones
      /\ \A o \in Operation : Unfinished(o) => \E d \in decisions : d.op = o
  <2>1. \A o \in Operation, p \in Purpose :
            /\ Decide(o, p).op = o
            /\ Decide(o, p).tombstones = tombstones
            /\ \A q \in Purpose : Decide(o, q) = [Decide(o, p) EXCEPT !.purpose = q]
    BY DEF Decide
  <2>2. "graph" \in Purpose
    BY DEF Purpose
  <2> QED BY <2>1, <2>2 DEF Actionable, Siblings
<1>3. ASSUME NEW d \in decisions, d.action # "rebuild"
      PROVE  StillDecided(d)
  <2>1. PICK o \in Operation, p \in Purpose : d = Decide(o, p) /\ Actionable(o)
    OBVIOUS
  <2>2. d.op = o /\ d.purpose = p /\ pubState[o] # "active"
    BY <1>3, <2>1, DecideTyped DEF LoneInv, RecoveryInv, TypeOK
  <2>3. Unfinished(o)
    BY <2>1, <2>2, NoneIsNoOperation
       DEF Actionable, LoneInv, RecoveryInv, ClientInv, DataInv, EpochsAreLinear
  <2> QED BY <2>1, <2>2, <2>3 DEF StillDecided
<1> HIDE DEF decisions
<1>4. /\ stage \in [Worker -> Stage]
      /\ todo \in [Worker -> SUBSET Decision]
  BY DEF LoneInv, RecoveryInv, TypeOK
<1>5. stage'[w] = "scanned" /\ todo'[w] = decisions
  BY <1>1, <1>4
<1>6. LonePublication'
  BY <1>1, <1>2, <1>5
     DEF OneWorker, LoneInv, LonePublication, Unfinished, ExpectedEpoch, ActiveEpoch,
         clientVars, pubVars, workerVars, Completing
<1>7. LoneRecovery'
  <2>1. \A d : StillDecided(d)' <=> StillDecided(d)
    BY <1>1, SameDecision DEF clientVars, pubVars
  <2> QED
    BY <1>1, <1>2, <1>3, <1>5, <2>1
       DEF OneWorker, LoneRecovery, DecisionsStand, clientVars, Applying
<1> QED BY <1>6, <1>7

\* A step of recovery that changes no publication and keeps every decision
\* that is not settled.
LEMMA LoneProgress ==
    ASSUME OneWorker, LoneInv, NEW w \in Worker, UNCHANGED clientVars,
           stage[w] # "out", stage'[w] # "out",
           todo'[w] \subseteq todo[w], journal \subseteq journal',
           \A d \in todo[w] \ todo'[w] : pubState[d.op] \in {"active", "failed"},
           stage'[w] \in Applying =>
               current'[w] \in todo'[w] \ journal' /\ Unfinished(current'[w].op),
           stage'[w] = "verifying" => pubState[current'[w].op] = "prepared",
           stage'[w] = "activating" => pubState[current'[w].op] = "verified"
    PROVE  LonePublication' /\ LoneRecovery'
<1>1. UNCHANGED <<draft, pubVars, ledgerVars, tombstones, phase, job>>
  BY DEF clientVars, workerVars
<1>2. phase[w] = "down"
  BY DEF LoneInv, RecoveryInv, RecoveriesOnTrack
<1>3. LonePublication'
  <2>1. ASSUME NEW o \in Operation, Unfinished(o)
        PROVE  \E d \in todo'[w] : d.op = o
    BY <1>2, <2>1 DEF LoneInv, LonePublication, Unfinished, Completing
  <2> QED
    BY <1>1, <1>2, <2>1
       DEF OneWorker, LoneInv, LonePublication, Unfinished, ExpectedEpoch, ActiveEpoch,
           pubVars, Completing
<1>4. LoneRecovery'
  <2>1. \A d : StillDecided(d)' <=> StillDecided(d)
    BY <1>1, SameDecision DEF pubVars
  <2>2. DecisionsStand(w)'
    BY <1>1, <2>1 DEF LoneInv, LoneRecovery, DecisionsStand
  <2> QED
    BY <1>1, <2>2
       DEF OneWorker, LoneInv, LoneRecovery, Unfinished, pubVars, Applying
<1> QED BY <1>3, <1>4

LEMMA LoneBookkeeping ==
    ASSUME OneWorker, LoneInv, NEW w \in Worker,
           Lock(w) \/ Unlock(w) \/ \E d \in todo[w] : Replay(w, d) \/ RecordRebuild(w, d)
    PROVE  LonePublication' /\ LoneRecovery'
<1>1. /\ stage \in [Worker -> Stage]
      /\ todo \in [Worker -> SUBSET Decision]
  BY DEF LoneInv, RecoveryInv, TypeOK
<1>2. UNCHANGED clientVars /\ stage[w] # "out" /\ stage'[w] \in {"scanned", "locked"}
  BY <1>1 DEF Lock, Unlock, Replay, RecordRebuild
<1>3. todo'[w] \subseteq todo[w] /\ journal \subseteq journal'
  BY <1>1 DEF Lock, Unlock, Replay, RecordRebuild
<1>4. \A d \in todo[w] \ todo'[w] : pubState[d.op] \in {"active", "failed"}
  BY <1>1
     DEF Lock, Unlock, Replay, RecordRebuild, Due, LoneInv, RecoveryInv, JournalIsTrue,
         RecoveriesOnTrack
<1> QED BY <1>2, <1>3, <1>4, LoneProgress DEF Applying

LEMMA LoneBegin ==
    ASSUME OneWorker, LoneInv, NEW w \in Worker, NEW d \in todo[w], BeginApply(w, d)
    PROVE  LonePublication' /\ LoneRecovery'
<1>1. /\ stage \in [Worker -> Stage]
      /\ current \in [Worker -> Decision \cup {None}]
  BY DEF LoneInv, RecoveryInv, TypeOK
<1>2. /\ UNCHANGED <<clientVars, todo, journal>>
      /\ stage[w] = "locked"
      /\ stage'[w] \in {"retiring", "resuming"}
      /\ current'[w] = d
      /\ d \notin journal
      /\ Unfinished(d.op)
  BY <1>1 DEF BeginApply, Due, StillDecided
<1> QED BY <1>2, LoneProgress

LEMMA LoneResume ==
    ASSUME OneWorker, LoneInv, NEW w \in Worker, Resume(w)
    PROVE  LonePublication' /\ LoneRecovery'
<1>1. stage \in [Worker -> Stage]
  BY DEF LoneInv, RecoveryInv, TypeOK
<1>2. /\ UNCHANGED <<clientVars, todo, current, journal>>
      /\ stage[w] = "resuming"
      /\ \/ stage'[w] = "verifying" /\ pubState[current[w].op] = "prepared"
         \/ stage'[w] = "activating" /\ pubState[current[w].op] # "prepared"
  BY <1>1 DEF Resume
<1>3. current[w] \in todo[w] \ journal /\ Unfinished(current[w].op)
  BY <1>2 DEF LoneInv, LoneRecovery, Applying
<1> QED BY <1>2, <1>3, LoneProgress DEF Unfinished

LEMMA LoneResumeVerify ==
    ASSUME OneWorker, LoneInv, NEW w \in Worker, ResumeVerify(w)
    PROVE  LonePublication' /\ LoneRecovery'
<1> DEFINE o == current[w].op
<1>1. /\ stage \in [Worker -> Stage]
      /\ pubState \in [Operation -> PubState]
  BY DEF LoneInv, RecoveryInv, TypeOK, ClientTypeOK
<1>2. /\ pubState[o] = "prepared"
      /\ pubState' = [pubState EXCEPT ![o] = "verified"]
      /\ UNCHANGED <<closure, boundTombs, active, epochOf, draft, ledgerVars,
                     tombstones, phase, job, todo, current, lock, journal>>
      /\ stage[w] = "verifying"
      /\ stage'[w] = "activating"
  BY <1>1 DEF ResumeVerify, MarkVerified, workerVars
<1>3. /\ current[w] \in todo[w] \ journal
      /\ o \in Operation
      /\ phase[w] = "down"
  BY <1>2
     DEF LoneInv, LoneRecovery, RecoveryInv, RecoveriesOnTrack, Applying, Decision
<1>4. \A p \in Operation : /\ Unfinished(p)' <=> Unfinished(p)
                           /\ \A q \in Purpose : Decide(p, q)' = Decide(p, q)
  BY <1>1, <1>2, <1>3 DEF Unfinished, Decide, Visible, Lineage, Stale, ledgerVars
<1>5. LonePublication'
  BY <1>2, <1>3, <1>4
     DEF OneWorker, LoneInv, LonePublication, ExpectedEpoch, ActiveEpoch, Completing
<1>6. LoneRecovery'
  <2>1. todo[w] \subseteq Decision
    BY DEF LoneInv, RecoveryInv, TypeOK
  <2>2. \A d \in todo[w] : StillDecided(d)' <=> StillDecided(d)
    BY <1>4, <2>1 DEF StillDecided, Decision
  <2>3. DecisionsStand(w)'
    BY <1>2, <2>2 DEF LoneInv, LoneRecovery, DecisionsStand
  <2>4. pubState'[o] = "verified"
    BY <1>1, <1>2, <1>3
  <2> QED
    BY <1>2, <1>3, <2>3, <2>4
       DEF OneWorker, LoneInv, LoneRecovery, Unfinished, Applying
<1> QED BY <1>5, <1>6

\* What recovery applies was the only unfinished publication, so whatever
\* else it decided is settled.
LEMMA LoneApplied ==
    ASSUME OneWorker, LoneInv, NEW w \in Worker, stage[w] \in Applying, Applied(w),
           pubState' \in [Operation -> PubState],
           pubState'[current[w].op] \in {"active", "failed"},
           \A o \in Operation : o # current[w].op => pubState'[o] = pubState[o]
    PROVE  LonePublication' /\ LoneRecovery'
<1>1. /\ stage \in [Worker -> Stage]
      /\ todo \in [Worker -> SUBSET Decision]
  BY DEF LoneInv, RecoveryInv, TypeOK
<1>2. /\ journal' = journal \cup Siblings(current[w])
      /\ todo'[w] = todo[w] \ {current[w]}
      /\ stage'[w] = "locked"
      /\ UNCHANGED <<tombstones, lock, phase>>
  BY <1>1 DEF Applied, workerVars
<1>3. /\ current[w] \in todo[w] \ journal
      /\ current[w] \in Decision
      /\ current[w].op \in Operation
      /\ Unfinished(current[w].op)
      /\ phase[w] = "down"
  BY DEF LoneInv, LoneRecovery, RecoveryInv, RecoveriesOnTrack, Applying, Decision
<1>4. \A o \in Operation : Unfinished(o) => o = current[w].op
  BY <1>3 DEF LoneInv, LonePublication
<1>5. \A o \in Operation : ~Unfinished(o)'
  BY <1>4 DEF Unfinished
<1>6. LonePublication'
  BY <1>2, <1>3, <1>5, NothingPending
<1>7. LoneRecovery'
  <2>1. ASSUME NEW d \in todo'[w] \ journal', d.tombstones = tombstones,
               d.action # "rebuild"
        PROVE  FALSE
    <3>1. d \in todo[w] \ journal /\ d.op \in Operation
      BY <1>1, <1>2, <2>1 DEF Decision
    <3>2. d.op # current[w].op
      BY <1>2, <1>3, <2>1, <3>1 DEF LoneInv, LoneRecovery
    <3>3. Unfinished(d.op)
      BY <2>1, <3>1 DEF LoneInv, LoneRecovery, DecisionsStand, StillDecided
    <3> QED BY <1>4, <3>1, <3>2, <3>3
  <2>2. DecisionsStand(w)'
    BY <1>2, <2>1 DEF DecisionsStand
  <2> QED
    BY <1>2, <2>2 DEF OneWorker, LoneInv, LoneRecovery, Applying
<1> QED BY <1>6, <1>7

LEMMA LoneApply ==
    ASSUME OneWorker, LoneInv, NEW w \in Worker, Retire(w) \/ ResumeActivate(w)
    PROVE  LonePublication' /\ LoneRecovery'
<1> DEFINE o == current[w].op
<1>1. stage[w] \in Applying /\ Applied(w)
  BY DEF Retire, ResumeActivate, Applying
<1>2. /\ pubState \in [Operation -> PubState]
      /\ o \in Operation
      /\ Unfinished(o)
  BY <1>1
     DEF LoneInv, LoneRecovery, RecoveryInv, TypeOK, ClientTypeOK, RecoveriesOnTrack,
         Decision
<1>3. \/ pubState' = [pubState EXCEPT ![o] = "failed"]
      \/ pubState' = [pubState EXCEPT ![o] = "active"]
  BY <1>2 DEF Retire, ResumeActivate, ActivateExpected, Unfinished
<1> QED BY <1>1, <1>2, <1>3, LoneApplied DEF PubState

\* Leaving recovery forgets the decisions, and the lock with them.
LEMMA LoneLeave ==
    ASSUME OneWorker, LoneInv, NEW w \in Worker, Leave(w), UNCHANGED journal
    PROVE  LoneRecovery' /\ stage'[w] = "out"
<1>1. /\ stage'[w] = "out"
      /\ todo'[w] = {}
  BY DEF Leave, LoneInv, RecoveryInv, TypeOK
<1> QED BY <1>1 DEF OneWorker, LoneRecovery, DecisionsStand, Applying

LEMMA LoneFailure ==
    ASSUME OneWorker, LoneInv, NEW w \in Worker, Leave(w), stage[w] # "out",
           UNCHANGED <<clientVars, journal>>
    PROVE  LonePublication' /\ LoneRecovery'
<1>1. LoneRecovery' /\ stage'[w] = "out"
  BY LoneLeave
<1>2. phase'[w] = "down" /\ UNCHANGED <<draft, pubVars>>
  BY DEF clientVars, workerVars, LoneInv, RecoveryInv, RecoveriesOnTrack
<1>3. \A o \in Operation : Unfinished(o)' <=> Unfinished(o)
  BY <1>2 DEF Unfinished, pubVars
<1> QED BY <1>1, <1>2, <1>3, LoneMovesOn DEF pubVars

LEMMA LoneFinish ==
    ASSUME OneWorker, LoneInv, NEW w \in Worker, Finish(w)
    PROVE  LonePublication' /\ LoneRecovery'
<1>1. /\ Leave(w)
      /\ stage[w] # "out"
      /\ todo[w] = {}
      /\ UNCHANGED <<pubVars, journal>>
      /\ phase' = [phase EXCEPT ![w] = "idle"] \/ phase' = phase
  BY DEF Finish, GoTo
<1>2. phase[w] = "down" /\ phase \in [Worker -> ClientPhase]
  BY <1>1 DEF LoneInv, RecoveryInv, RecoveriesOnTrack, TypeOK, ClientTypeOK
<1>3. \A o \in Operation : ~Unfinished(o)'
  BY <1>1, <1>2 DEF LoneInv, LonePublication, Unfinished, pubVars, Completing
<1>4. phase'[w] # "planned"
  BY <1>1, <1>2
<1> QED BY <1>1, <1>3, <1>4, NothingPending, LoneLeave

LEMMA LoneNextInv ==
    ASSUME OneWorker, LoneInv, [Next]_vars
    PROVE  LoneInv'
<1>1. RecoveryInv' /\ GroupsOnTrack'
  BY RecoveryNextInv, GroupsNext DEF LoneInv
<1>2. ASSUME NEW w \in Worker, RecoveryStep(w)
      PROVE  LonePublication' /\ LoneRecovery'
  <2>1. ASSUME Fail(w)
        PROVE  LonePublication' /\ LoneRecovery'
    <3>1. Leave(w) /\ stage[w] # "out" /\ UNCHANGED <<clientVars, journal>>
      BY <2>1 DEF Fail
    <3> QED BY <3>1, LoneFailure
  <2> QED
    BY <1>2, <2>1, LoneScan, LoneBookkeeping, LoneBegin, LoneResume,
       LoneResumeVerify, LoneApply, LoneFinish
       DEF RecoveryStep
<1>3. ASSUME NEW w \in Worker, Die(w)
      PROVE  LonePublication' /\ LoneRecovery'
  <2>1. CASE Leave(w) /\ stage[w] # "out" /\ UNCHANGED <<clientVars, journal>>
    BY <2>1, LoneFailure
  <2>2. CASE Crash(w) /\ UNCHANGED <<localVars, journal>>
    <3>1. phase[w] # "down" /\ Stop(w)
      BY <2>2 DEF Crash
    <3>2. /\ phase'[w] = "down"
          /\ UNCHANGED <<draft, pubVars>>
      BY <3>1
         DEF Stop, GoTo, LoneInv, RecoveryInv, TypeOK, ClientTypeOK
    <3>3. stage[w] = "out"
      BY <3>1, WorkerIsOut
    <3>4. stage'[w] = "out"
      BY <2>2, <3>3 DEF localVars
    <3>5. \A o \in Operation : Unfinished(o)' <=> Unfinished(o)
      BY <3>2 DEF Unfinished, pubVars
    <3>6. LonePublication'
      BY <3>2, <3>4, <3>5, LoneMovesOn DEF pubVars
    <3>7. LoneRecovery'
      BY <2>2, <3>3
         DEF OneWorker, LoneInv, LoneRecovery, DecisionsStand, localVars, Applying
    <3> QED BY <3>6, <3>7
  <2> QED BY <1>3, <2>1, <2>2 DEF Die
<1>4. ASSUME ClientStep \/ UNCHANGED vars
      PROVE  LonePublication' /\ LoneRecovery'
  <2>1. [ClientNext]_clientVars /\ UNCHANGED recoveryVars
    BY <1>4, ClientStepIsNext DEF vars
  <2> QED BY <2>1, LoneClientStep
<1> QED BY <1>1, <1>2, <1>3, <1>4 DEF Next, LoneInv

\* What recovery was to resume is still as it was decided.
LEMMA ResumableIsVisible ==
    ASSUME LoneInv, NEW w \in Worker, stage[w] \in Applying, stage[w] # "retiring",
           \A d \in todo[w] : d.tombstones = tombstones
    PROVE  Visible(current[w].op)
<1>1. /\ current[w] \in todo[w] \ journal
      /\ current[w] \in Decision
      /\ current[w].action = "activate"
  BY DEF LoneInv, LoneRecovery, RecoveryInv, RecoveriesOnTrack
<1>2. StillDecided(current[w])
  BY <1>1 DEF LoneInv, LoneRecovery, DecisionsStand
<1>3. Decide(current[w].op, current[w].purpose).action = "activate"
  BY <1>1, <1>2 DEF StillDecided
<1> QED BY <1>3 DEF Decide

LEMMA FailureIsDeletion ==
    ASSUME OneWorker, LoneInv, NEW w \in Worker, Fail(w)
    PROVE  \E d \in todo[w] : d.tombstones # tombstones
<1> SUFFICES ASSUME \A d \in todo[w] : d.tombstones = tombstones
             PROVE  FALSE
  OBVIOUS
<1> DEFINE o == current[w].op
<1>1. CASE stage[w] = "scanned" /\ lock[Group(w)] # None
  <2>1. Group(w) \in Purpose
    BY DEF Group, Purpose
  <2>2. lock[Group(w)] = w
    BY <1>1, <2>1 DEF OneWorker, LoneInv, RecoveryInv, TypeOK
  <2> QED BY <1>1, <2>1, <2>2 DEF LoneInv, GroupsOnTrack
<1>2. CASE \E d \in todo[w] \ journal : d.action # "rebuild" /\ ~StillDecided(d)
  BY <1>2 DEF LoneInv, LoneRecovery, DecisionsStand
<1>3. CASE stage[w] = "retiring" /\ ~Unfinished(o)
  BY <1>3 DEF LoneInv, LoneRecovery, Applying
<1>4. CASE stage[w] = "resuming" /\ ~Visible(o)
  BY <1>4, ResumableIsVisible DEF Applying
<1>5. CASE stage[w] = "verifying" /\ pubState[o] # "prepared"
  BY <1>5 DEF LoneInv, LoneRecovery
<1>6. CASE stage[w] = "activating" /\ ~MayActivate(o)
  <2>1. /\ pubState[o] = "verified"
        /\ o \in Operation
    BY <1>6
       DEF LoneInv, LoneRecovery, RecoveryInv, RecoveriesOnTrack, Applying, Decision
  <2>2. Visible(o)
    BY <1>6, ResumableIsVisible DEF Applying
  <2>3. ProofOf(o, o)
    <3>1. execution[o] # None
      BY <2>1 DEF LoneInv, RecoveryInv, ClientInv, DataInv, CommittedTogether
    <3>2. execution[o] \in Operation /\ binding[execution[o]] = o
      BY <2>1, <3>1, OneRequestPerOperation
         DEF LoneInv, RecoveryInv, ClientInv, DataInv, ApprovalInv, ApprovalTypeOK,
             ExecutionMatchesBinding
    <3>3. binding[execution[o]] = execution[o]
      BY <2>1, <3>2, NoneIsNoOperation
         DEF LoneInv, RecoveryInv, ClientInv, DataInv, RequestsAreDrafted
    <3> QED BY <3>2, <3>3 DEF ProofOf
  <2>4. ActiveEpoch = ExpectedEpoch(o)
    BY <2>1 DEF LoneInv, LonePublication, Unfinished
  <2> QED BY <1>6, <2>1, <2>2, <2>3, <2>4 DEF MayActivate
<1> QED BY <1>1, <1>2, <1>3, <1>4, <1>5, <1>6 DEF Fail, Due

\* With one process at a time, a publication that a crash left behind always
\* fits the active epoch: the stale expectation that blocks two workers for
\* ever cannot arise.
THEOREM LonePublicationsFit ==
    ASSUME OneWorker
    PROVE  Spec => [](\A o \in Operation : Unfinished(o) => ExpectedEpoch(o) = ActiveEpoch)
<1>1. Init => LoneInv
  BY LoneInitInv, RecoveryInitInv, GroupsInitially DEF LoneInv
<1>2. LoneInv /\ [Next]_vars => LoneInv'
  BY LoneNextInv
<1>3. LoneInv => \A o \in Operation : Unfinished(o) => ExpectedEpoch(o) = ActiveEpoch
  BY DEF LoneInv, LonePublication
<1> QED BY <1>1, <1>2, <1>3, PTL DEF Spec

\* With one process at a time, the checks of RecoveryCoordinator refuse a start
\* only if something was deleted since its scan.
THEOREM LoneStartsSucceed ==
    ASSUME OneWorker
    PROVE  Spec => StartsFailByDeletion
<1>1. Init => LoneInv
  BY LoneInitInv, RecoveryInitInv, GroupsInitially DEF LoneInv
<1>2. LoneInv /\ [Next]_vars => LoneInv'
  BY LoneNextInv
<1>3. ASSUME LoneInv
      PROVE  [\A w \in Worker :
                  Fail(w) => \E d \in todo[w] : d.tombstones # tombstones]_vars
  BY <1>3, FailureIsDeletion
<1> QED BY <1>1, <1>2, <1>3, PTL DEF Spec, StartsFailByDeletion

=============================================================================
