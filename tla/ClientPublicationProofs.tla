----------------------- MODULE ClientPublicationProofs -----------------------
(***************************************************************************)
(* The safety properties of ClientPublication and its refinement of        *)
(* PublishedFacts, for any numbers of workers, operations and sources.     *)
(***************************************************************************)
EXTENDS ClientPublication, ApprovalProofs

-----------------------------------------------------------------------------
(* The inductive invariant.                                                *)

Executing == {"planned", "applied", "verifying", "verified", "activating",
              "published"}

\* What each worker relies on between two of its transactions.
WorkersOnTrack ==
    /\ \A w \in Worker :
           /\ phase[w] = "drafting" =>
                  /\ job[w] \in Operation
                  /\ draft[job[w]] = None
                  /\ seen[w] \in Draft
                  /\ seen[w].runtime <= ActiveEpoch + 1
           /\ phase[w] \in Executing =>
                  /\ job[w] \in Operation
                  /\ binding[job[w]] = job[w]
    /\ \A v, w \in Worker :
           phase[v] = "drafting" /\ phase[w] = "drafting" /\ job[v] = job[w] => v = w

\* An approval is for a registered plan, and its ticket for that operation.
RequestsAreDrafted ==
    \A o \in Operation :
        /\ request[o] # "none" => draft[o] # None
        /\ binding[o] # None => binding[o] = o /\ draft[o] # None

\* The approval, the facts and the publication of an operation are committed
\* together, at the version that follows the base of its plan.
CommittedTogether ==
    \A o \in Operation :
        /\ factVersion[o] > 0 <=> pubState[o] # "none"
        /\ factVersion[o] > 0 <=> execution[o] # None
        /\ factVersion[o] > 0 => draft[o] # None /\ factVersion[o] = NextVersion(o)

\* Epochs are allocated without gaps, the active one last.
EpochsAreLinear ==
    /\ active # None => pubState[active] = "active"
    /\ \A o \in Operation :
           /\ epochOf[o] > 0 <=> pubState[o] = "active"
           /\ epochOf[o] > 0 => epochOf[o] = draft[o].runtime
           /\ epochOf[o] <= ActiveEpoch
    /\ \A n \in 1 .. ActiveEpoch : \E o \in Operation : epochOf[o] = n

\* A plan reads the epoch before the ledger: its base includes every version
\* that an earlier epoch shows.
DraftsSeeEpochs ==
    \A o \in Operation :
        draft[o] # None =>
            /\ draft[o].runtime <= ActiveEpoch + 1
            /\ \A p \in Operation :
                   epochOf[p] > 0 /\ epochOf[p] < draft[o].runtime
                       => factVersion[p] <= draft[o].base

\* The facts committed up to the version of o.
FactsUpTo(o) == {p \in Operation : factVersion[p] \in 1 .. factVersion[o]}

\* A publication is complete, or too late to be activated.
CompleteOrLate ==
    \A o \in Operation :
        pubState[o] # "none" =>
            \/ closure[o] = FactsUpTo(o)
            \/ pubState[o] # "active" /\ draft[o].runtime <= ActiveEpoch

\* The part of the invariant that does not mention workers.
DataInv ==
    /\ ClientTypeOK
    /\ ApprovalInv
    /\ RequestsAreDrafted
    /\ CommittedTogether
    /\ LedgerIsDense
    /\ EpochsAreLinear
    /\ DraftsSeeEpochs
    /\ CompleteOrLate
    /\ AcknowledgedIsPublished

ClientInv == DataInv /\ WorkersOnTrack

-----------------------------------------------------------------------------
(* Simple facts.                                                           *)

LEMMA EpochsAreNaturals ==
    ASSUME ClientTypeOK
    PROVE  ActiveEpoch \in Nat
BY DEF ClientTypeOK, ActiveEpoch

LEMMA ClientInitInv == ClientInit => ClientInv
<1> SUFFICES ASSUME ClientInit PROVE ClientInv
  OBVIOUS
<1> USE DEF ClientInit
<1>1. ApprovalInv
  BY ApprovalInitInv
<1>2. ClientTypeOK
  BY <1>1 DEF ApprovalInv, ClientTypeOK, PubState, ClientPhase
<1>3. RequestsAreDrafted /\ CommittedTogether /\ AcknowledgedIsPublished
  BY OneRequestPerOperation
     DEF ApprovalInit, RequestsAreDrafted, CommittedTogether, AcknowledgedIsPublished
<1>4. LedgerIsDense /\ CompleteOrLate
  BY DEF LedgerIsDense, CompleteOrLate
<1>5. EpochsAreLinear /\ DraftsSeeEpochs
  BY DEF EpochsAreLinear, DraftsSeeEpochs, ActiveEpoch
<1>6. WorkersOnTrack
  BY DEF WorkersOnTrack, Executing
<1> QED BY <1>1, <1>2, <1>3, <1>4, <1>5, <1>6 DEF ClientInv, DataInv

-----------------------------------------------------------------------------
(* Steps that change only where workers are.                               *)

dataVars == <<approvalVars, draft, ledgerVars, pubVars, tombstones>>

LEMMA DataUnchanged ==
    ASSUME DataInv, UNCHANGED dataVars,
           phase' \in [Worker -> ClientPhase],
           job' \in [Worker -> Operation \cup {None}],
           seen' \in [Worker -> Draft \cup {None}]
    PROVE  DataInv'
<1> USE DEF dataVars, approvalVars, ledgerVars, pubVars
<1>1. ApprovalInv'
  BY ApprovalStutterInv DEF DataInv
<1>2. ClientTypeOK'
  BY <1>1 DEF DataInv, ClientTypeOK, ApprovalInv
<1>3. /\ RequestsAreDrafted'
      /\ CommittedTogether'
      /\ LedgerIsDense'
      /\ AcknowledgedIsPublished'
  BY DEF DataInv, RequestsAreDrafted, CommittedTogether, NextVersion,
         LedgerIsDense, AcknowledgedIsPublished
<1>4. EpochsAreLinear' /\ DraftsSeeEpochs' /\ CompleteOrLate'
  BY DEF DataInv, EpochsAreLinear, DraftsSeeEpochs, CompleteOrLate, FactsUpTo,
         ActiveEpoch
<1> QED BY <1>1, <1>2, <1>3, <1>4 DEF DataInv

LEMMA BeginPreviewInv ==
    ASSUME ClientInv, NEW w \in Worker, NEW o \in Operation, BeginPreview(w, o)
    PROVE  ClientInv'
<1> USE DEF BeginPreview, GoTo
<1>1. ActiveEpoch \in Nat
  BY EpochsAreNaturals DEF ClientInv, DataInv
<1>2. /\ phase' \in [Worker -> ClientPhase]
      /\ job' \in [Worker -> Operation \cup {None}]
      /\ seen' \in [Worker -> Draft \cup {None}]
  BY <1>1 DEF ClientInv, DataInv, ClientTypeOK, ClientPhase, Draft
<1>3. DataInv'
  BY <1>2, DataUnchanged DEF ClientInv, dataVars
<1>4. ActiveEpoch' = ActiveEpoch
  BY DEF ActiveEpoch, pubVars
<1>5. WorkersOnTrack'
  <2>1. /\ phase'[w] = "drafting"
        /\ job'[w] = o
        /\ seen'[w] \in Draft
        /\ seen'[w].runtime <= ActiveEpoch + 1
        /\ \A v \in Worker :
               v # w => phase'[v] = phase[v] /\ job'[v] = job[v] /\ seen'[v] = seen[v]
    BY <1>1 DEF ClientInv, DataInv, ClientTypeOK, Draft
  <2>2. draft[o] = None /\ \A v \in Worker : ~(phase[v] = "drafting" /\ job[v] = o)
    OBVIOUS
  <2> QED
    BY <1>4, <2>1, <2>2 DEF ClientInv, WorkersOnTrack, Executing, approvalVars
<1> QED BY <1>3, <1>5 DEF ClientInv

LEMMA PlanInv ==
    ASSUME ClientInv, NEW w \in Worker, NEW o \in Operation, Plan(w, o)
    PROVE  ClientInv'
<1> USE DEF Plan, GoTo
<1>1. /\ phase' \in [Worker -> ClientPhase]
      /\ job' \in [Worker -> Operation \cup {None}]
      /\ seen' \in [Worker -> Draft \cup {None}]
  BY DEF ClientInv, DataInv, ClientTypeOK, ClientPhase
<1>2. DataInv'
  BY <1>1, DataUnchanged DEF ClientInv, dataVars
<1>3. ActiveEpoch' = ActiveEpoch
  BY DEF ActiveEpoch, pubVars
<1>4. WorkersOnTrack'
  BY <1>3
     DEF ClientInv, DataInv, ClientTypeOK, WorkersOnTrack, Executing,
         approvalVars, CanPlan, TicketValid
<1> QED BY <1>2, <1>4 DEF ClientInv

\* A worker that moves on with the same operation.
LEMMA MoveOnInv ==
    ASSUME ClientInv, NEW w \in Worker, NEW there \in Executing,
           phase[w] \in Executing, GoTo(w, there),
           UNCHANGED <<dataVars, job, seen>>
    PROVE  ClientInv'
<1> USE DEF GoTo
<1>1. /\ phase' \in [Worker -> ClientPhase]
      /\ job' \in [Worker -> Operation \cup {None}]
      /\ seen' \in [Worker -> Draft \cup {None}]
  BY DEF ClientInv, DataInv, ClientTypeOK, ClientPhase, Executing
<1>2. DataInv'
  BY <1>1, DataUnchanged DEF ClientInv
<1>3. ActiveEpoch' = ActiveEpoch
  BY DEF ActiveEpoch, dataVars, pubVars
<1>4. WorkersOnTrack'
  BY <1>3
     DEF ClientInv, DataInv, ClientTypeOK, WorkersOnTrack, Executing, dataVars,
         approvalVars
<1> QED BY <1>2, <1>4 DEF ClientInv

LEMMA BeginVerifyInv ==
    ASSUME ClientInv, NEW w \in Worker,
           FindCommitted(w) \/ BeginVerify(w) \/ BeginActivate(w)
    PROVE  ClientInv'
<1>1. PICK there \in Executing : GoTo(w, there)
  BY DEF FindCommitted, BeginVerify, BeginActivate, Executing
<1>2. phase[w] \in Executing /\ UNCHANGED <<dataVars, job, seen>>
  BY DEF FindCommitted, BeginVerify, BeginActivate, Executing, dataVars
<1> QED BY <1>1, <1>2, MoveOnInv

LEMMA StopInv ==
    ASSUME ClientInv, NEW w \in Worker, Stop(w)
    PROVE  ClientInv'
<1> USE DEF Stop, GoTo
<1>1. /\ phase' \in [Worker -> ClientPhase]
      /\ job' \in [Worker -> Operation \cup {None}]
      /\ seen' \in [Worker -> Draft \cup {None}]
  BY DEF ClientInv, DataInv, ClientTypeOK, ClientPhase
<1>2. DataInv'
  BY <1>1, DataUnchanged DEF ClientInv, dataVars
<1>3. ActiveEpoch' = ActiveEpoch
  BY DEF ActiveEpoch, pubVars
<1>4. WorkersOnTrack'
  BY <1>3
     DEF ClientInv, DataInv, ClientTypeOK, WorkersOnTrack, Executing, approvalVars
<1> QED BY <1>2, <1>4 DEF ClientInv

-----------------------------------------------------------------------------
(* Preview and approval.                                                   *)

\* The base of a plan is read after its epoch, so it covers what that epoch
\* and the earlier ones show.
LEMMA RegisterPreviewInv ==
    ASSUME ClientInv, NEW w \in Worker, RegisterPreview(w)
    PROVE  ClientInv'
<1> DEFINE o == job[w]
<1> USE DEF RegisterPreview, GoTo
<1>1. /\ o \in Operation
      /\ draft[o] = None
      /\ seen[w] \in Draft
      /\ seen[w].base = authority
      /\ seen[w].runtime <= ActiveEpoch + 1
      /\ ActiveEpoch \in Nat
      /\ authority \in Nat
  BY EpochsAreNaturals DEF ClientInv, DataInv, ClientTypeOK, WorkersOnTrack
<1>2. draft' = [draft EXCEPT ![o] = seen[w]]
  OBVIOUS
<1>3. draft \in [Operation -> Draft \cup {None}]
  BY DEF ClientInv, DataInv, ClientTypeOK
<1>4. /\ draft'[o] = seen[w]
      /\ \A p \in Operation : p # o => draft'[p] = draft[p]
  BY <1>1, <1>2, <1>3
<1>5. UNCHANGED <<approvalVars, ledgerVars, pubVars, tombstones>>
  OBVIOUS
<1>6. ApprovalInv'
  BY <1>5, ApprovalStutterInv DEF ClientInv, DataInv
<1>7. ClientTypeOK'
  BY <1>1, <1>2, <1>5, <1>6
     DEF ClientInv, DataInv, ClientTypeOK, ApprovalInv, ledgerVars, pubVars, ClientPhase
<1>8. ActiveEpoch' = ActiveEpoch
  BY DEF ActiveEpoch, pubVars
<1>9. CommittedTogether' /\ AcknowledgedIsPublished' /\ LedgerIsDense'
  BY <1>1, <1>4, <1>5
     DEF ClientInv, DataInv, CommittedTogether, NextVersion, approvalVars,
         ledgerVars, pubVars, AcknowledgedIsPublished, LedgerIsDense
<1>11. RequestsAreDrafted'
  BY <1>1, <1>4, <1>5 DEF ClientInv, DataInv, RequestsAreDrafted, approvalVars
<1>12. factVersion[o] = 0 /\ pubState[o] = "none" /\ epochOf[o] = 0
  BY <1>1
     DEF ClientInv, DataInv, ClientTypeOK, CommittedTogether, EpochsAreLinear
<1>13. EpochsAreLinear'
  BY <1>1, <1>4, <1>5, <1>8, <1>12 DEF ClientInv, DataInv, EpochsAreLinear, pubVars
<1>14. DraftsSeeEpochs'
  <2> SUFFICES ASSUME NEW q \in Operation, draft'[q] # None
               PROVE  /\ draft'[q].runtime <= ActiveEpoch + 1
                      /\ \A p \in Operation :
                             epochOf[p] > 0 /\ epochOf[p] < draft'[q].runtime
                                 => factVersion[p] <= draft'[q].base
    BY <1>5, <1>8 DEF DraftsSeeEpochs, pubVars, ledgerVars
  <2>1. CASE q = o
    BY <2>1, <1>1, <1>4 DEF ClientInv, DataInv, LedgerIsDense
  <2>2. CASE q # o
    BY <2>2, <1>4 DEF ClientInv, DataInv, DraftsSeeEpochs
  <2> QED BY <2>1, <2>2
<1>15. CompleteOrLate'
  BY <1>4, <1>5, <1>8, <1>12
     DEF ClientInv, DataInv, CompleteOrLate, FactsUpTo, pubVars, ledgerVars
<1>16. WorkersOnTrack'
  <2> SUFFICES
        /\ \A v \in Worker :
               /\ phase'[v] = "drafting" =>
                      /\ job'[v] \in Operation
                      /\ draft'[job'[v]] = None
                      /\ seen'[v] \in Draft
                      /\ seen'[v].runtime <= ActiveEpoch + 1
               /\ phase'[v] \in Executing =>
                      /\ job'[v] \in Operation
                      /\ binding[job'[v]] = job'[v]
        /\ \A u, v \in Worker :
               phase'[u] = "drafting" /\ phase'[v] = "drafting" /\ job'[u] = job'[v]
                   => u = v
    BY <1>5, <1>8 DEF WorkersOnTrack, approvalVars
  <2>1. /\ phase'[w] = "idle"
        /\ \A v \in Worker :
               v # w => phase'[v] = phase[v] /\ job'[v] = job[v] /\ seen'[v] = seen[v]
    BY DEF ClientInv, DataInv, ClientTypeOK
  <2>2. \A v \in Worker : v # w /\ phase[v] = "drafting" => job[v] # o
    BY DEF ClientInv, WorkersOnTrack
  <2> QED BY <2>1, <2>2, <1>4 DEF ClientInv, WorkersOnTrack, Executing
<1> QED
  BY <1>6, <1>7, <1>9, <1>11, <1>13, <1>14, <1>15, <1>16 DEF ClientInv, DataInv

LEMMA ApproveInv ==
    ASSUME ClientInv, NEW o \in Operation, Approve(o)
    PROVE  ClientInv'
<1> USE OneRequestPerOperation
<1>1. UNCHANGED <<draft, ledgerVars, pubVars, tombstones, workerVars>>
  BY DEF Approve
<1>2. ApprovalInv'
  BY ControlPlaneInv, IssueInv DEF Approve, ClientInv, DataInv
<1>3. ClientTypeOK'
  BY <1>1, <1>2
     DEF ClientInv, DataInv, ClientTypeOK, ApprovalInv, ledgerVars, pubVars, workerVars
<1>4. UNCHANGED execution
  BY DEF Approve, RequestApproval, Confirm, Expire, Issue
<1>5. /\ request \in [Operation -> RequestState]
      /\ binding \in [Operation -> Operation \cup {None}]
  BY DEF ClientInv, DataInv, ApprovalInv, ApprovalTypeOK
<1>6. \A p \in Operation :
          /\ binding[p] # None => binding'[p] = binding[p]
          /\ binding'[p] # None =>
                 binding[p] # None \/ (binding'[p] = p /\ request[p] # "none")
          /\ request'[p] # "none" => request[p] # "none" \/ draft[p] # None
          /\ request'[p] = "acknowledged" => request[p] = "acknowledged"
  <2>1. CASE draft[o] # None /\ RequestApproval(o)
    BY <2>1, <1>5 DEF RequestApproval
  <2>2. CASE Confirm(o)
    BY <2>2, <1>5 DEF Confirm
  <2>3. CASE Expire(o)
    BY <2>3, <1>5 DEF Expire
  <2>4. CASE Issue(o, o)
    <3>1. /\ request[o] = "confirmed"
          /\ request' = [request EXCEPT ![o] = "issued"]
          /\ binding[o] = None
          /\ binding' = [binding EXCEPT ![o] = o]
      BY <2>4 DEF Issue, MayBind
    <3> QED BY <3>1, <1>5
  <2> QED BY <2>1, <2>2, <2>3, <2>4 DEF Approve
<1>7. RequestsAreDrafted' /\ AcknowledgedIsPublished'
  BY <1>1, <1>6
     DEF ClientInv, DataInv, RequestsAreDrafted, AcknowledgedIsPublished, pubVars
<1>8. CommittedTogether' /\ LedgerIsDense'
  BY <1>1, <1>4
     DEF ClientInv, DataInv, CommittedTogether, NextVersion, LedgerIsDense,
         ledgerVars, pubVars
<1>9. EpochsAreLinear' /\ DraftsSeeEpochs' /\ CompleteOrLate'
  BY <1>1
     DEF ClientInv, DataInv, EpochsAreLinear, DraftsSeeEpochs, CompleteOrLate,
         FactsUpTo, ActiveEpoch, ledgerVars, pubVars
<1>10. ActiveEpoch' = ActiveEpoch
  BY <1>1 DEF ActiveEpoch, pubVars
<1>11. WorkersOnTrack'
  <2>1. ASSUME NEW w \in Worker, phase[w] \in Executing
        PROVE  job[w] \in Operation /\ binding'[job[w]] = job[w]
    BY <2>1, <1>5, <1>6, NoneIsNoOperation DEF ClientInv, WorkersOnTrack
  <2> QED
    BY <1>1, <1>10, <2>1 DEF ClientInv, WorkersOnTrack, workerVars
<1> QED BY <1>2, <1>3, <1>7, <1>8, <1>9, <1>11 DEF ClientInv, DataInv

-----------------------------------------------------------------------------
(* The transaction that commits facts.                                     *)

\* What the approval guard and the authority compare-and-set establish: the
\* operation has neither facts nor a publication, and its version is new.
LEMMA CommitFactsReady ==
    ASSUME ClientInv, NEW w \in Worker, CommitFacts(w)
    PROVE  /\ job[w] \in Operation
           /\ draft[job[w]] \in Draft
           /\ draft[job[w]].base = authority
           /\ factVersion[job[w]] = 0
           /\ pubState[job[w]] = "none"
           /\ epochOf[job[w]] = 0
<1> DEFINE o == job[w]
<1> USE DEF CommitFacts, AppendFacts, InsertPrepared
<1>1. o \in Operation /\ binding[o] = o
  BY DEF ClientInv, WorkersOnTrack, Executing
<1>2. draft[o] \in Draft
  BY <1>1, NoneIsNoOperation
     DEF ClientInv, DataInv, RequestsAreDrafted, ClientTypeOK
<1>3. draft[o].base = authority
  BY DEF AtBase
<1>4. execution[o] = None
  BY DEF Apply, MayApply, Unused
<1>5. factVersion[o] = 0 /\ pubState[o] = "none"
  BY <1>1, <1>4 DEF ClientInv, DataInv, CommittedTogether, ClientTypeOK
<1>6. epochOf[o] = 0
  BY <1>1, <1>5 DEF ClientInv, DataInv, EpochsAreLinear, ClientTypeOK
<1> QED BY <1>1, <1>2, <1>3, <1>5, <1>6

LEMMA CommitFactsInv ==
    ASSUME ClientInv, NEW w \in Worker, CommitFacts(w)
    PROVE  ClientInv'
<1> DEFINE o == job[w]
<1>1. /\ o \in Operation
      /\ draft[o] \in Draft
      /\ draft[o].base = authority
      /\ factVersion[o] = 0
      /\ pubState[o] = "none"
      /\ epochOf[o] = 0
  BY CommitFactsReady
<1>2. NextVersion(o) = authority + 1
  BY <1>1 DEF NextVersion
<1>3. authority \in Nat
  BY DEF ClientInv, DataInv, ClientTypeOK
<1>4. Apply(o, o)
  BY DEF CommitFacts
<1>5. ApprovalInv'
  BY <1>1, <1>4, ApplyInv, OneRequestPerOperation
     DEF ClientInv, DataInv
<1>6. /\ authority' = authority + 1
      /\ factVersion' = [factVersion EXCEPT ![o] = authority + 1]
      /\ pubState' = [pubState EXCEPT ![o] = "prepared"]
      /\ closure' = [closure EXCEPT ![o] = ProjectedFacts(o) \cup {o}]
      /\ boundTombs' = [boundTombs EXCEPT ![o] = tombstones]
      /\ phase' = [phase EXCEPT ![w] = "applied"]
      /\ UNCHANGED <<draft, active, epochOf, tombstones, job, seen>>
  BY <1>2 DEF CommitFacts, AppendFacts, InsertPrepared, GoTo
<1>7. /\ execution' = [execution EXCEPT ![o] = o]
      /\ UNCHANGED <<request, binding>>
  BY <1>4 DEF Apply
<1>8. /\ factVersion \in [Operation -> Nat]
      /\ pubState \in [Operation -> PubState]
      /\ closure \in [Operation -> SUBSET Operation]
      /\ boundTombs \in [Operation -> SUBSET Source]
      /\ tombstones \subseteq Source
      /\ phase \in [Worker -> ClientPhase]
      /\ execution \in [Operation -> Operation \cup {None}]
  BY OneRequestPerOperation
     DEF ClientInv, DataInv, ClientTypeOK, ApprovalInv, ApprovalTypeOK
<1>9. ProjectedFacts(o) \subseteq Operation
  BY DEF ProjectedFacts
<1>10. ClientTypeOK'
  BY <1>1, <1>3, <1>5, <1>6, <1>8, <1>9
     DEF ClientInv, DataInv, ClientTypeOK, ApprovalInv, PubState, ClientPhase
<1>11. RequestsAreDrafted' /\ AcknowledgedIsPublished'
  BY <1>1, <1>6, <1>7, <1>8
     DEF ClientInv, DataInv, RequestsAreDrafted, AcknowledgedIsPublished
<1>12. CommittedTogether'
  <2>1. \A p \in Operation : NextVersion(p)' = NextVersion(p)
    BY <1>6 DEF NextVersion
  <2>2. draft[o] # None
    BY <1>4, <1>1, NoneIsNoOperation
       DEF Apply, MayApply, TicketValid, ClientInv, DataInv, RequestsAreDrafted
  <2> QED
    BY <1>1, <1>2, <1>3, <1>6, <1>7, <1>8, <2>1, <2>2, NoneIsNoOperation
       DEF ClientInv, DataInv, CommittedTogether
<1>13. LedgerIsDense'
  <2>1. \A p \in Operation : factVersion[p] <= authority
    BY DEF ClientInv, DataInv, LedgerIsDense
  <2>2. /\ factVersion'[o] = authority + 1
        /\ \A p \in Operation : p # o => factVersion'[p] = factVersion[p]
    BY <1>1, <1>6, <1>8
  <2>3. ASSUME NEW n \in 1 .. authority'
        PROVE  \E p \in Operation : factVersion'[p] = n
    <3>1. CASE n = authority + 1
      BY <3>1, <1>1, <2>2
    <3>2. CASE n \in 1 .. authority
      <4>1. PICK p \in Operation : factVersion[p] = n
        BY <3>2 DEF ClientInv, DataInv, LedgerIsDense
      <4> QED BY <4>1, <3>2, <1>1, <1>3, <2>2
    <3> QED BY <2>3, <3>1, <3>2, <1>3, <1>6
  <2>4. ASSUME NEW p \in Operation, NEW q \in Operation,
               factVersion'[p] > 0, factVersion'[p] = factVersion'[q]
        PROVE  p = q
    BY <2>1, <2>2, <2>4, <1>3, <1>8 DEF ClientInv, DataInv, LedgerIsDense
  <2>5. \A p \in Operation : factVersion'[p] <= authority'
    BY <2>1, <2>2, <1>3, <1>6, <1>8
  <2> QED BY <2>3, <2>4, <2>5 DEF LedgerIsDense
<1>14. ActiveEpoch' = ActiveEpoch
  BY <1>6 DEF ActiveEpoch
<1>15. EpochsAreLinear'
  <2>1. active # o
    BY <1>1, NoneIsNoOperation DEF ClientInv, DataInv, EpochsAreLinear
  <2>2. active # None => active \in Operation
    BY DEF ClientInv, DataInv, ClientTypeOK
  <2> QED
    BY <1>1, <1>6, <1>8, <1>14, <2>1, <2>2 DEF ClientInv, DataInv, EpochsAreLinear
<1>16. DraftsSeeEpochs'
  BY <1>1, <1>6, <1>8, <1>14 DEF ClientInv, DataInv, DraftsSeeEpochs
<1>17. CompleteOrLate'
  <2> SUFFICES ASSUME NEW q \in Operation, pubState'[q] # "none"
               PROVE  \/ closure'[q] = FactsUpTo(q)'
                      \/ pubState'[q] # "active" /\ draft[q].runtime <= ActiveEpoch
    BY <1>6, <1>14 DEF CompleteOrLate
  <2>1. \A p \in Operation : factVersion[p] \in Nat /\ factVersion[p] <= authority
    BY <1>8 DEF ClientInv, DataInv, LedgerIsDense
  <2>2. CASE q = o
    <3>1. FactsUpTo(o)' = {p \in Operation : factVersion[p] > 0} \cup {o}
      BY <1>1, <1>3, <1>6, <1>8, <2>1 DEF FactsUpTo
    <3>2. CASE \A p \in Operation :
                   factVersion[p] > 0 => draft[p].runtime <= draft[o].runtime
      <4>1. ProjectedFacts(o) = {p \in Operation : factVersion[p] > 0}
        BY <3>2 DEF ProjectedFacts
      <4> QED BY <2>2, <3>1, <4>1, <1>1, <1>6, <1>8
    <3>3. ASSUME NEW p \in Operation, factVersion[p] > 0,
                 ~(draft[p].runtime <= draft[o].runtime)
          PROVE  draft[o].runtime <= ActiveEpoch
      <4>1. draft[p] # None /\ draft[p] \in Draft
        BY <3>3 DEF ClientInv, DataInv, CommittedTogether, ClientTypeOK
      <4>2. draft[p].runtime <= ActiveEpoch + 1
        BY <4>1 DEF ClientInv, DataInv, DraftsSeeEpochs
      <4>3. ActiveEpoch \in Nat
        BY EpochsAreNaturals DEF ClientInv, DataInv
      <4> QED BY <3>3, <4>1, <4>2, <4>3, <1>1 DEF Draft
    <3>4. pubState'[o] # "active"
      BY <1>1, <1>6, <1>8
    <3> QED BY <2>2, <3>2, <3>3, <3>4
  <2>3. CASE q # o
    <3>1. /\ pubState'[q] = pubState[q]
          /\ closure'[q] = closure[q]
      BY <2>3, <1>6, <1>8
    <3>2. FactsUpTo(q)' = FactsUpTo(q)
      BY <2>1, <2>3, <1>1, <1>3, <1>6, <1>8 DEF FactsUpTo
    <3> QED BY <3>1, <3>2 DEF ClientInv, DataInv, CompleteOrLate
  <2> QED BY <2>2, <2>3
<1>18. WorkersOnTrack'
  BY <1>1, <1>6, <1>7, <1>8, <1>14
     DEF ClientInv, WorkersOnTrack, Executing, CommitFacts, AppendFacts, InsertPrepared
<1> QED
  BY <1>5, <1>10, <1>11, <1>12, <1>13, <1>15, <1>16, <1>17, <1>18
     DEF ClientInv, DataInv

-----------------------------------------------------------------------------
(* Verification and the switch of the epoch, whoever performs them.        *)

WorkerTypes ==
    /\ phase \in [Worker -> ClientPhase]
    /\ job \in [Worker -> Operation \cup {None}]
    /\ seen \in [Worker -> Draft \cup {None}]

LEMMA MarkVerifiedInv ==
    ASSUME DataInv, NEW o \in Operation, MarkVerified(o), WorkerTypes',
           UNCHANGED <<approvalVars, draft, ledgerVars, tombstones>>
    PROVE  DataInv' /\ ActiveEpoch' = ActiveEpoch
<1> USE DEF MarkVerified
<1>1. /\ pubState[o] = "prepared"
      /\ pubState' = [pubState EXCEPT ![o] = "verified"]
      /\ pubState \in [Operation -> PubState]
  BY DEF DataInv, ClientTypeOK
<1>2. ApprovalInv'
  BY ApprovalStutterInv DEF DataInv
<1>3. ClientTypeOK'
  BY <1>1, <1>2
     DEF DataInv, ClientTypeOK, ApprovalInv, PubState, ledgerVars, WorkerTypes
<1>4. ActiveEpoch' = ActiveEpoch
  BY DEF ActiveEpoch
<1>5. \A p \in Operation :
          /\ pubState'[p] # "none" <=> pubState[p] # "none"
          /\ pubState'[p] = "active" <=> pubState[p] = "active"
  BY <1>1
<1>6. /\ RequestsAreDrafted'
      /\ CommittedTogether'
      /\ LedgerIsDense'
      /\ AcknowledgedIsPublished'
  BY <1>5
     DEF DataInv, RequestsAreDrafted, CommittedTogether, NextVersion,
         LedgerIsDense, AcknowledgedIsPublished, approvalVars, ledgerVars
<1>7. EpochsAreLinear'
  BY <1>4, <1>5 DEF DataInv, ClientTypeOK, EpochsAreLinear
<1>8. DraftsSeeEpochs' /\ CompleteOrLate'
  BY <1>4, <1>5 DEF DataInv, DraftsSeeEpochs, CompleteOrLate, FactsUpTo, ledgerVars
<1> QED BY <1>2, <1>3, <1>4, <1>6, <1>7, <1>8 DEF DataInv

\* The compare-and-set of the epoch: the allocated epoch is the planned one.
LEMMA ActivationAllocates ==
    ASSUME DataInv, NEW o \in Operation, ActivateExpected(o)
    PROVE  /\ draft[o] \in Draft
           /\ draft[o].runtime = ActiveEpoch + 1
           /\ epochOf' = [epochOf EXCEPT ![o] = ActiveEpoch + 1]
           /\ ActiveEpoch' = ActiveEpoch + 1
           /\ ActiveEpoch \in Nat
<1> USE DEF ActivateExpected, MayActivate
<1>1. ActiveEpoch \in Nat
  BY EpochsAreNaturals DEF DataInv
<1>2. draft[o] \in Draft
  BY DEF DataInv, CommittedTogether, ClientTypeOK
<1>3. draft[o].runtime = ActiveEpoch + 1
  BY <1>1, <1>2 DEF ExpectedEpoch, Draft
<1>4. epochOf \in [Operation -> Nat]
  BY DEF DataInv, ClientTypeOK
<1>5. PICK p \in Operation : /\ IsNextEpoch(epochOf[p] + 1)
                             /\ epochOf' = [epochOf EXCEPT ![o] = epochOf[p] + 1]
  OBVIOUS
<1>6. epochOf[p] = ActiveEpoch
  <2>1. epochOf[p] <= ActiveEpoch
    BY DEF DataInv, EpochsAreLinear
  <2>2. ActiveEpoch <= epochOf[p]
    <3>1. CASE active = None
      BY <3>1, <1>4 DEF ActiveEpoch
    <3>2. CASE active # None
      <4>1. active \in Operation
        BY <3>2 DEF DataInv, ClientTypeOK
      <4>2. epochOf[active] < epochOf[p] + 1
        BY <4>1, <1>5 DEF IsNextEpoch
      <4> QED BY <3>2, <4>1, <4>2, <1>4 DEF ActiveEpoch
    <3> QED BY <3>1, <3>2
  <2> QED BY <2>1, <2>2, <1>1, <1>4
<1>7. ActiveEpoch' = ActiveEpoch + 1
  BY <1>4, <1>5, <1>6, NoneIsNoOperation DEF ActiveEpoch
<1> QED BY <1>1, <1>2, <1>3, <1>5, <1>6, <1>7

LEMMA ActivateExpectedInv ==
    ASSUME DataInv, NEW o \in Operation, ActivateExpected(o), WorkerTypes',
           UNCHANGED <<approvalVars, draft, ledgerVars, tombstones>>
    PROVE  DataInv'
<1>1. /\ draft[o] \in Draft
      /\ draft[o].runtime = ActiveEpoch + 1
      /\ epochOf' = [epochOf EXCEPT ![o] = ActiveEpoch + 1]
      /\ ActiveEpoch' = ActiveEpoch + 1
      /\ ActiveEpoch \in Nat
  BY ActivationAllocates
<1>2. /\ active' = o
      /\ pubState[o] = "verified"
      /\ pubState' = [pubState EXCEPT ![o] = "active"]
      /\ UNCHANGED <<closure, boundTombs>>
  BY DEF ActivateExpected, MayActivate
<1>3. /\ pubState \in [Operation -> PubState]
      /\ epochOf \in [Operation -> Nat]
      /\ factVersion \in [Operation -> Nat]
  BY DEF DataInv, ClientTypeOK
<1>4. ApprovalInv'
  BY ApprovalStutterInv DEF DataInv
<1>5. ClientTypeOK'
  BY <1>1, <1>2, <1>3, <1>4
     DEF DataInv, ClientTypeOK, ApprovalInv, PubState, ledgerVars, WorkerTypes
<1>6. /\ RequestsAreDrafted'
      /\ CommittedTogether'
      /\ LedgerIsDense'
      /\ AcknowledgedIsPublished'
  BY <1>2, <1>3
     DEF DataInv, RequestsAreDrafted, CommittedTogether, NextVersion,
         LedgerIsDense, AcknowledgedIsPublished, approvalVars, ledgerVars
<1>7. EpochsAreLinear'
  <2>1. ASSUME NEW p \in Operation
        PROVE  /\ epochOf'[p] > 0 <=> pubState'[p] = "active"
               /\ epochOf'[p] > 0 => epochOf'[p] = draft[p].runtime
               /\ epochOf'[p] <= ActiveEpoch + 1
    BY <1>1, <1>2, <1>3 DEF DataInv, EpochsAreLinear
  <2>2. ASSUME NEW n \in 1 .. ActiveEpoch + 1
        PROVE  \E p \in Operation : epochOf'[p] = n
    <3>1. CASE n = ActiveEpoch + 1
      BY <3>1, <1>1, <1>3
    <3>2. CASE n \in 1 .. ActiveEpoch
      <4>1. PICK p \in Operation : epochOf[p] = n
        BY <3>2 DEF DataInv, EpochsAreLinear
      <4>2. p # o
        BY <4>1, <3>2, <1>2 DEF DataInv, EpochsAreLinear
      <4> QED BY <4>1, <4>2, <1>1, <1>3
    <3> QED BY <3>1, <3>2, <1>1
  <2> QED BY <2>1, <2>2, <1>1, <1>2, <1>3 DEF EpochsAreLinear
<1>8. DraftsSeeEpochs'
  <2> SUFFICES ASSUME NEW q \in Operation, draft[q] # None
               PROVE  /\ draft[q].runtime <= ActiveEpoch + 2
                      /\ \A p \in Operation :
                             epochOf'[p] > 0 /\ epochOf'[p] < draft[q].runtime
                                 => factVersion[p] <= draft[q].base
    BY <1>1 DEF DraftsSeeEpochs, ledgerVars
  <2>1. draft[q].runtime \in Nat
    BY DEF DataInv, ClientTypeOK, Draft
  <2>2. draft[q].runtime <= ActiveEpoch + 1
    BY DEF DataInv, DraftsSeeEpochs
  <2>3. ASSUME NEW p \in Operation, epochOf'[p] > 0, epochOf'[p] < draft[q].runtime
        PROVE  factVersion[p] <= draft[q].base
    <3>1. p # o
      BY <2>1, <2>2, <2>3, <1>1, <1>3
    <3>2. epochOf[p] > 0 /\ epochOf[p] < draft[q].runtime
      BY <2>3, <3>1, <1>1, <1>3
    <3> QED BY <3>2 DEF DataInv, DraftsSeeEpochs
  <2> QED BY <2>1, <2>2, <2>3, <1>1
<1>9. CompleteOrLate'
  <2> SUFFICES ASSUME NEW q \in Operation, pubState'[q] # "none"
               PROVE  \/ closure[q] = FactsUpTo(q)
                      \/ /\ pubState'[q] # "active"
                         /\ draft[q].runtime <= ActiveEpoch + 1
    BY <1>1, <1>2 DEF CompleteOrLate, FactsUpTo, ledgerVars
  <2>1. pubState[q] # "none"
    BY <1>2, <1>3
  <2>2. CASE closure[q] = FactsUpTo(q)
    BY <2>2
  <2>3. CASE pubState[q] # "active" /\ draft[q].runtime <= ActiveEpoch
    <3>1. draft[q] \in Draft
      BY <2>1 DEF DataInv, CommittedTogether, ClientTypeOK
    <3>2. q # o
      BY <2>3, <1>1 DEF Draft
    <3> QED BY <2>3, <3>1, <3>2, <1>1, <1>2, <1>3 DEF Draft
  <2> QED BY <2>1, <2>2, <2>3 DEF DataInv, CompleteOrLate
<1> QED BY <1>4, <1>5, <1>6, <1>7, <1>8, <1>9 DEF DataInv

\* Neither disturbs another worker: the epoch only grows.
LEMMA PublicationStepTracks ==
    ASSUME ClientInv, NEW w \in Worker, NEW there \in Executing,
           phase[w] \in Executing, GoTo(w, there), ActiveEpoch' >= ActiveEpoch,
           ActiveEpoch' \in Nat, UNCHANGED <<approvalVars, draft, job, seen>>
    PROVE  WorkersOnTrack' /\ WorkerTypes'
<1>1. /\ phase' = [phase EXCEPT ![w] = there]
      /\ phase \in [Worker -> ClientPhase]
      /\ job \in [Worker -> Operation \cup {None}]
      /\ seen \in [Worker -> Draft \cup {None}]
      /\ ActiveEpoch \in Nat
  BY EpochsAreNaturals DEF GoTo, ClientInv, DataInv, ClientTypeOK
<1>2. WorkersOnTrack'
  <2>1. \A v \in Worker : phase[v] = "drafting" => seen[v].runtime <= ActiveEpoch' + 1
    BY <1>1 DEF ClientInv, WorkersOnTrack, Draft
  <2> QED BY <1>1, <2>1 DEF ClientInv, WorkersOnTrack, Executing, approvalVars
<1>3. WorkerTypes'
  BY <1>1 DEF WorkerTypes, ClientPhase, Executing
<1> QED BY <1>2, <1>3

LEMMA VerifyInv ==
    ASSUME ClientInv, NEW w \in Worker, Verify(w)
    PROVE  ClientInv'
<1>1. /\ job[w] \in Operation
      /\ ActiveEpoch \in Nat
      /\ phase[w] \in Executing
      /\ "verified" \in Executing
      /\ GoTo(w, "verified")
      /\ MarkVerified(job[w])
      /\ UNCHANGED <<approvalVars, draft, ledgerVars, tombstones, job, seen>>
  BY EpochsAreNaturals
     DEF Verify, Executing, ClientInv, DataInv, WorkersOnTrack
<1>2. ActiveEpoch' = ActiveEpoch
  BY <1>1 DEF MarkVerified, ActiveEpoch
<1>3. WorkersOnTrack' /\ WorkerTypes'
  BY <1>1, <1>2, PublicationStepTracks
<1>4. DataInv'
  BY <1>1, <1>3, MarkVerifiedInv DEF ClientInv
<1> QED BY <1>3, <1>4 DEF ClientInv

LEMMA ActivateInv ==
    ASSUME ClientInv, NEW w \in Worker, Activate(w)
    PROVE  ClientInv'
<1>1. /\ job[w] \in Operation
      /\ phase[w] \in Executing
      /\ "published" \in Executing
      /\ GoTo(w, "published")
      /\ ActivateExpected(job[w])
      /\ UNCHANGED <<approvalVars, draft, ledgerVars, tombstones, job, seen>>
  BY DEF Activate, Executing, ClientInv, DataInv, WorkersOnTrack
<1>2. ActiveEpoch' = ActiveEpoch + 1 /\ ActiveEpoch \in Nat
  BY <1>1, ActivationAllocates DEF ClientInv
<1>3. WorkersOnTrack' /\ WorkerTypes'
  BY <1>1, <1>2, PublicationStepTracks
<1>4. DataInv'
  BY <1>1, <1>3, ActivateExpectedInv DEF ClientInv
<1> QED BY <1>3, <1>4 DEF ClientInv

-----------------------------------------------------------------------------
(* Acknowledgement and deletion.                                           *)

LEMMA RecordProofInv ==
    ASSUME DataInv, NEW o \in Operation, RecordProof(o), pubState[o] = "active",
           WorkerTypes', UNCHANGED <<draft, ledgerVars, pubVars, tombstones>>
    PROVE  DataInv' /\ UNCHANGED binding
<1>1. CASE Acknowledge(o, o)
  <2>1. /\ execution[o] = o
        /\ request' = [request EXCEPT ![o] = "acknowledged"]
        /\ UNCHANGED <<binding, execution>>
    BY <1>1 DEF Acknowledge, ProofOf
  <2>2. ApprovalInv'
    BY <1>1, AcknowledgeInv, OneRequestPerOperation DEF DataInv
  <2>3. ClientTypeOK'
    BY <2>2 DEF DataInv, ClientTypeOK, ApprovalInv, ledgerVars, pubVars, WorkerTypes
  <2>4. request \in [Operation -> RequestState]
    BY OneRequestPerOperation DEF DataInv, ApprovalInv, ApprovalTypeOK
  <2>5. RequestsAreDrafted'
    BY <2>1, <2>4, NoneIsNoOperation DEF DataInv, RequestsAreDrafted, CommittedTogether
  <2>6. CommittedTogether' /\ LedgerIsDense'
    BY <2>1
       DEF DataInv, CommittedTogether, NextVersion, LedgerIsDense, ledgerVars, pubVars
  <2>7. AcknowledgedIsPublished'
    BY <2>1, <2>4 DEF DataInv, AcknowledgedIsPublished, pubVars
  <2>8. EpochsAreLinear' /\ DraftsSeeEpochs' /\ CompleteOrLate'
    BY DEF DataInv, EpochsAreLinear, DraftsSeeEpochs, CompleteOrLate, FactsUpTo,
           ActiveEpoch, ledgerVars, pubVars
  <2> QED BY <2>1, <2>2, <2>3, <2>5, <2>6, <2>7, <2>8 DEF DataInv
<1>2. CASE UNCHANGED approvalVars
  BY <1>2, DataUnchanged DEF dataVars, WorkerTypes, approvalVars
<1> QED BY <1>1, <1>2 DEF RecordProof

LEMMA ReturnInv ==
    ASSUME ClientInv, NEW w \in Worker, Return(w)
    PROVE  ClientInv'
<1>1. /\ job[w] \in Operation
      /\ pubState[job[w]] = "active"
      /\ RecordProof(job[w])
      /\ phase' = [phase EXCEPT ![w] = "idle"]
      /\ job' = [job EXCEPT ![w] = None]
      /\ UNCHANGED <<draft, ledgerVars, pubVars, tombstones, seen>>
  BY DEF Return, PublishedAsPlanned, GoTo, ClientInv, WorkersOnTrack, Executing
<1>2. WorkerTypes'
  BY <1>1 DEF WorkerTypes, ClientInv, DataInv, ClientTypeOK, ClientPhase
<1>3. DataInv' /\ UNCHANGED binding
  BY <1>1, <1>2, RecordProofInv DEF ClientInv
<1>4. ActiveEpoch' = ActiveEpoch
  BY <1>1 DEF ActiveEpoch, pubVars
<1>5. WorkersOnTrack'
  BY <1>1, <1>3, <1>4
     DEF ClientInv, DataInv, ClientTypeOK, WorkersOnTrack, Executing
<1> QED BY <1>3, <1>5 DEF ClientInv

LEMMA RecoverAppliedInv ==
    ASSUME ClientInv, NEW w \in Worker, NEW o \in Operation, RecoverApplied(w, o)
    PROVE  ClientInv'
<1>1. /\ pubState[o] = "active"
      /\ RecordProof(o)
      /\ UNCHANGED <<draft, ledgerVars, pubVars, tombstones, workerVars>>
  BY DEF RecoverApplied, RecordProof, MayReattest, PublishedAsPlanned
<1>2. WorkerTypes'
  BY <1>1 DEF WorkerTypes, ClientInv, DataInv, ClientTypeOK, workerVars
<1>3. DataInv' /\ UNCHANGED binding
  BY <1>1, <1>2, RecordProofInv DEF ClientInv
<1>4. WorkersOnTrack'
  BY <1>1, <1>3 DEF ClientInv, WorkersOnTrack, ActiveEpoch, pubVars, workerVars
<1> QED BY <1>3, <1>4 DEF ClientInv

LEMMA DeleteInv ==
    ASSUME ClientInv, NEW s \in Deletable, Delete(s)
    PROVE  ClientInv'
<1> USE DEF Delete, approvalVars, ledgerVars, pubVars, workerVars
<1>1. ApprovalInv'
  BY ApprovalStutterInv DEF ClientInv, DataInv
<1>2. ClientTypeOK'
  BY <1>1, SourcesAreKnown DEF ClientInv, DataInv, ClientTypeOK, ApprovalInv
<1>3. /\ RequestsAreDrafted'
      /\ CommittedTogether'
      /\ LedgerIsDense'
      /\ AcknowledgedIsPublished'
  BY DEF ClientInv, DataInv, RequestsAreDrafted, CommittedTogether, NextVersion,
         LedgerIsDense, AcknowledgedIsPublished
<1>4. EpochsAreLinear' /\ DraftsSeeEpochs' /\ CompleteOrLate'
  BY DEF ClientInv, DataInv, EpochsAreLinear, DraftsSeeEpochs, CompleteOrLate,
         FactsUpTo, ActiveEpoch
<1>5. WorkersOnTrack'
  BY DEF ClientInv, WorkersOnTrack, ActiveEpoch
<1> QED BY <1>1, <1>2, <1>3, <1>4, <1>5 DEF ClientInv, DataInv

LEMMA ClientStutterInv ==
    ASSUME ClientInv, UNCHANGED clientVars
    PROVE  ClientInv'
<1>1. DataInv'
  BY DataUnchanged
     DEF ClientInv, DataInv, ClientTypeOK, clientVars, dataVars, workerVars
<1>2. WorkersOnTrack'
  BY DEF ClientInv, WorkersOnTrack, ActiveEpoch, clientVars, workerVars, pubVars,
         approvalVars
<1> QED BY <1>1, <1>2 DEF ClientInv

LEMMA ClientNextInv ==
    ClientInv /\ [ClientNext]_clientVars => ClientInv'
<1> SUFFICES ASSUME ClientInv, [ClientNext]_clientVars
             PROVE  ClientInv'
  OBVIOUS
<1>1. ASSUME NEW w \in Worker, WorkerStep(w)
      PROVE  ClientInv'
  <2>1. CASE Raise(w)
    BY <2>1, StopInv DEF Raise
  <2> QED
    BY <1>1, <2>1, RegisterPreviewInv, CommitFactsInv, BeginVerifyInv, VerifyInv,
       ActivateInv, ReturnInv DEF WorkerStep
<1>2. ASSUME NEW w \in Worker, Crash(w)
      PROVE  ClientInv'
  BY <1>2, StopInv DEF Crash
<1>3. ASSUME NEW w \in Worker, NEW o \in Operation,
             BeginPreview(w, o) \/ Plan(w, o) \/ RecoverApplied(w, o)
      PROVE  ClientInv'
  BY <1>3, BeginPreviewInv, PlanInv, RecoverAppliedInv
<1>4. ASSUME NEW o \in Operation, Approve(o)
      PROVE  ClientInv'
  BY <1>4, ApproveInv
<1>5. ASSUME NEW s \in Deletable, Delete(s)
      PROVE  ClientInv'
  BY <1>5, DeleteInv
<1>6. CASE UNCHANGED clientVars
  BY <1>6, ClientStutterInv
<1> QED BY <1>1, <1>2, <1>3, <1>4, <1>5, <1>6 DEF ClientNext

-----------------------------------------------------------------------------
(* The theorems.                                                           *)

\* The invariant holds for any number of workers, operations and sources.
THEOREM ClientInvariant == ClientSpec => []ClientInv
BY ClientInitInv, ClientNextInv, PTL DEF ClientSpec

\* Every variable of the client database and of its workers keeps its type.
THEOREM ClientTypes == ClientSpec => []ClientTypeOK
<1>1. ClientInv => ClientTypeOK
  BY DEF ClientInv, DataInv
<1> QED BY <1>1, ClientInvariant, PTL

LEMMA StepsFollowApprovals ==
    ASSUME ClientInv, [ClientNext]_clientVars
    PROVE  [ApprovalNext]_approvalVars
<1> USE OneRequestPerOperation
<1>1. ASSUME NEW o \in Operation,
             Apply(o, o) \/ Acknowledge(o, o) \/ Issue(o, o)
      PROVE  ApprovalNext
  BY <1>1 DEF ApprovalNext
<1>2. ASSUME NEW w \in Worker, WorkerStep(w) \/ Crash(w)
      PROVE  [ApprovalNext]_approvalVars
  <2>1. CASE CommitFacts(w)
    <3>1. PICK o \in Operation : o = job[w]
      BY <2>1, CommitFactsReady
    <3> QED BY <2>1, <3>1, <1>1 DEF CommitFacts
  <2>2. CASE Return(w)
    <3>1. PICK o \in Operation : o = job[w]
      BY <2>2 DEF Return, ClientInv, WorkersOnTrack, Executing
    <3> QED BY <2>2, <3>1, <1>1 DEF Return, RecordProof
  <2>3. CASE UNCHANGED approvalVars
    BY <2>3
  <2> QED
    BY <1>2, <2>1, <2>2, <2>3
       DEF WorkerStep, RegisterPreview, FindCommitted, BeginVerify, Verify,
           BeginActivate, Activate, Raise, Crash, Stop
<1>3. ASSUME NEW w \in Worker, NEW o \in Operation,
             BeginPreview(w, o) \/ Plan(w, o) \/ RecoverApplied(w, o)
      PROVE  [ApprovalNext]_approvalVars
  BY <1>3, <1>1 DEF BeginPreview, Plan, RecoverApplied
<1>4. ASSUME NEW o \in Operation, Approve(o)
      PROVE  ApprovalNext
  BY <1>4, <1>1 DEF Approve, ApprovalNext
<1>5. ASSUME NEW s \in Deletable, Delete(s)
      PROVE  UNCHANGED approvalVars
  BY <1>5 DEF Delete
<1>6. CASE UNCHANGED clientVars
  BY <1>6 DEF clientVars
<1> QED BY <1>2, <1>3, <1>4, <1>5, <1>6 DEF ClientNext

\* Whatever workers do to the facts and the epochs, towards the approvals they
\* only take steps of the approval protocol: CommitFacts is its Apply with the
\* publication in the callback (client/publication.py, execution.py), and an
\* answer is acknowledged with the proof of a committed row.
THEOREM ClientApprovals == ClientSpec => ApprovalSpec
<1>1. ClientInit => ApprovalInit
  BY DEF ClientInit
<1> QED
  BY <1>1, StepsFollowApprovals, ClientInvariant, PTL DEF ClientSpec, ApprovalSpec

\* However many workers commit on the bases they once read, the ledger has
\* neither a gap nor a fork (the authority compare-and-set of
\* append_batch_in_transaction).
THEOREM LedgerStaysDense == ClientSpec => []LedgerIsDense
<1>1. ClientInv => LedgerIsDense
  BY DEF ClientInv, DataInv
<1> QED BY <1>1, ClientInvariant, PTL

LEMMA EpochsFollowPlans == ClientInv => EpochsAsPlanned
<1>1. ASSUME ClientInv, NEW o \in Operation, pubState[o] = "active"
      PROVE  /\ epochOf[o] = draft[o].runtime
             /\ epochOf[o] > 1 =>
                    \E p \in Operation : /\ pubState[p] = "active"
                                         /\ epochOf[p] = ExpectedEpoch(o)
  <2>1. epochOf[o] \in Nat /\ ActiveEpoch \in Nat /\ epochOf[o] <= ActiveEpoch
    BY <1>1, EpochsAreNaturals
       DEF ClientInv, DataInv, ClientTypeOK, EpochsAreLinear
  <2>2. epochOf[o] = draft[o].runtime
    BY <1>1 DEF ClientInv, DataInv, EpochsAreLinear
  <2>3. ASSUME epochOf[o] > 1
        PROVE  \E p \in Operation : /\ pubState[p] = "active"
                                    /\ epochOf[p] = ExpectedEpoch(o)
    <3>1. ExpectedEpoch(o) \in 1 .. ActiveEpoch
      BY <2>1, <2>2, <2>3 DEF ExpectedEpoch
    <3>2. PICK p \in Operation : epochOf[p] = ExpectedEpoch(o)
      BY <1>1, <3>1 DEF ClientInv, DataInv, EpochsAreLinear
    <3> QED BY <1>1, <3>1, <3>2 DEF ClientInv, DataInv, EpochsAreLinear
  <2> QED BY <2>2, <2>3
<1> QED BY <1>1 DEF EpochsAsPlanned

LEMMA ActivatedAreComplete == ClientInv => ActiveClosureComplete
BY DEF ClientInv, DataInv, CompleteOrLate, ActiveClosureComplete, FactsUpTo

\* An epoch named inside the content of a publication is the one the database
\* allocates when it is activated.
THEOREM EpochsMatchPlans == ClientSpec => []EpochsAsPlanned
BY EpochsFollowPlans, ClientInvariant, PTL

\* What an activated publication shows is the whole ledger up to its version.
THEOREM ActiveIsComplete == ClientSpec => []ActiveClosureComplete
BY ActivatedAreComplete, ClientInvariant, PTL

LEMMA LaterEpochsShowMore == ClientInv => ProjectionNeverRegresses
<1> SUFFICES ASSUME ClientInv, NEW o \in Operation, NEW p \in Operation,
                    pubState[o] = "active", pubState[p] = "active",
                    epochOf[o] < epochOf[p]
             PROVE  factVersion[o] < factVersion[p]
  BY DEF ProjectionNeverRegresses
<1>1. epochOf[o] > 0 /\ epochOf[p] > 0 /\ epochOf[p] = draft[p].runtime
  BY DEF ClientInv, DataInv, EpochsAreLinear
<1>2. draft[p] # None /\ draft[p] \in Draft /\ factVersion[p] = NextVersion(p)
  BY DEF ClientInv, DataInv, CommittedTogether, ClientTypeOK
<1>3. factVersion[o] <= draft[p].base
  BY <1>1, <1>2 DEF ClientInv, DataInv, DraftsSeeEpochs
<1>4. factVersion[o] \in Nat
  BY DEF ClientInv, DataInv, ClientTypeOK
<1> QED BY <1>2, <1>3, <1>4 DEF NextVersion, Draft

\* Queries never lose a published fact to a later epoch.
THEOREM ProjectionsGrow == ClientSpec => []ProjectionNeverRegresses
BY LaterEpochsShowMore, ClientInvariant, PTL

\* An acknowledgement in the control plane means a published change.
THEOREM AcknowledgementsArePublished == ClientSpec => []AcknowledgedIsPublished
<1>1. ClientInv => AcknowledgedIsPublished
  BY DEF ClientInv, DataInv
<1> QED BY <1>1, ClientInvariant, PTL

-----------------------------------------------------------------------------
(* The refinement.  Each step of the protocol is a step of the abstract    *)
(* ledger or invisible to it.                                              *)

Shown == IF active = None THEN 0 ELSE factVersion[active]
Published == {o \in Operation : pubState[o] = "active"}
Reported == {o \in Operation : request[o] = "acknowledged"}

ledgerView == <<factVersion, authority, Shown, Published, tombstones, Reported>>

LEMMA InvisibleSteps ==
    ASSUME ClientInv, UNCHANGED <<factVersion, authority, tombstones, active>>,
           \A o \in Operation :
               /\ pubState'[o] = "active" <=> pubState[o] = "active"
               /\ request'[o] = "acknowledged" <=> request[o] = "acknowledged"
    PROVE  UNCHANGED ledgerView
BY DEF ledgerView, Shown, Published, Reported

LEMMA CommitAppends ==
    ASSUME ClientInv, NEW w \in Worker, CommitFacts(w),
           NEW o \in Operation, o = job[w]
    PROVE  Facts!Append(o)
<1>1. /\ o \in Operation
      /\ factVersion[o] = 0
      /\ pubState[o] = "none"
      /\ draft[o].base = authority
  BY CommitFactsReady
<1>2. /\ authority' = authority + 1
      /\ factVersion' = [factVersion EXCEPT ![o] = authority + 1]
      /\ pubState' = [pubState EXCEPT ![o] = "prepared"]
      /\ UNCHANGED <<active, tombstones, request>>
  BY <1>1 DEF CommitFacts, AppendFacts, InsertPrepared, NextVersion, Apply
<1>3. /\ pubState \in [Operation -> PubState]
      /\ factVersion \in [Operation -> Nat]
      /\ active # o
  BY <1>1, NoneIsNoOperation
     DEF ClientInv, DataInv, ClientTypeOK, EpochsAreLinear
<1>4. /\ Shown' = Shown
      /\ Published' = Published
      /\ Reported' = Reported
  BY <1>1, <1>2, <1>3 DEF Shown, Published, Reported
<1> QED BY <1>1, <1>2, <1>4 DEF Facts!Append, Shown, Published, Reported

LEMMA ActivatePublishes ==
    ASSUME ClientInv, ProjectionNeverRegresses', NEW o \in Operation,
           ActivateExpected(o), UNCHANGED <<approvalVars, draft, ledgerVars, tombstones>>
    PROVE  Facts!Publish(o)
<1>1. UNCHANGED <<approvalVars, draft, ledgerVars, tombstones>>
  OBVIOUS
<1>2. /\ active' = o
      /\ pubState[o] = "verified"
      /\ pubState' = [pubState EXCEPT ![o] = "active"]
      /\ closure' = closure
      /\ Visible(o)
  BY DEF ActivateExpected, MayActivate
<1>3. pubState \in [Operation -> PubState] /\ factVersion \in [Operation -> Nat]
  BY DEF ClientInv, DataInv, ClientTypeOK
<1>4. factVersion[o] > Shown
  <2>1. CASE active = None
    BY <2>1, <1>1, <1>2, <1>3 DEF Shown, ClientInv, DataInv, CommittedTogether
  <2>2. CASE active # None
    <3>1. active \in Operation /\ pubState[active] = "active"
      BY <2>2 DEF ClientInv, DataInv, ClientTypeOK, EpochsAreLinear
    <3>2. /\ epochOf' = [epochOf EXCEPT ![o] = ActiveEpoch + 1]
          /\ epochOf \in [Operation -> Nat]
      BY <1>1, ActivationAllocates DEF ClientInv, DataInv, ClientTypeOK
    <3>3. epochOf'[active] < epochOf'[o]
      BY <2>2, <3>1, <3>2, <1>1, <1>2 DEF ActiveEpoch
    <3>4. pubState'[active] = "active" /\ pubState'[o] = "active"
      BY <3>1, <1>1, <1>2, <1>3
    <3>5. factVersion'[active] < factVersion'[o]
      BY <3>1, <3>3, <3>4, <1>1 DEF ProjectionNeverRegresses
    <3> QED BY <2>2, <3>1, <3>5, <1>1, <1>3 DEF Shown, ledgerVars
  <2> QED BY <2>1, <2>2
<1>5. closure[o] = FactsUpTo(o)
  <2>1. draft[o].runtime = ActiveEpoch + 1 /\ ActiveEpoch \in Nat
    BY <1>1, ActivationAllocates DEF ClientInv
  <2> QED BY <1>1, <1>2, <2>1 DEF ClientInv, DataInv, CompleteOrLate
<1>6. \A p \in Facts!Prefix(o) : SourceOf[p] \notin tombstones
  BY <1>2, <1>5 DEF Facts!Prefix, FactsUpTo, Visible, Lineage
<1>7. /\ Shown' = factVersion[o]
      /\ Published' = Published \cup {o}
      /\ Reported' = Reported
  BY <1>1, <1>2, <1>3, NoneIsNoOperation
     DEF Shown, Published, Reported, ledgerVars, approvalVars
<1> QED
  BY <1>1, <1>4, <1>6, <1>7
     DEF Facts!Publish, Shown, Published, Reported, ledgerVars

LEMMA RecordReports ==
    ASSUME ClientInv, NEW o \in Operation, RecordProof(o), pubState[o] = "active",
           UNCHANGED <<ledgerVars, pubVars, tombstones>>
    PROVE  Facts!Report(o) \/ UNCHANGED ledgerView
<1>1. CASE Acknowledge(o, o)
  <2>1. /\ request[o] # "acknowledged"
        /\ request' = [request EXCEPT ![o] = "acknowledged"]
        /\ request \in [Operation -> RequestState]
    BY <1>1, OneRequestPerOperation
       DEF Acknowledge, ClientInv, DataInv, ApprovalInv, ApprovalTypeOK
  <2>2. Reported' = Reported \cup {o} /\ o \in Published /\ o \notin Reported
    BY <2>1 DEF Reported, Published
  <2>3. Shown' = Shown /\ Published' = Published
    BY DEF Shown, Published, ledgerVars, pubVars
  <2> QED BY <2>2, <2>3 DEF Facts!Report, Shown, Published, Reported, ledgerVars
<1>2. CASE UNCHANGED approvalVars
  BY <1>2, InvisibleSteps DEF approvalVars, ledgerVars, pubVars
<1> QED BY <1>1, <1>2 DEF RecordProof

LEMMA FactsInitially == ClientInit => Facts!FactsInit
BY OneRequestPerOperation DEF ClientInit, ApprovalInit, Facts!FactsInit

LEMMA StepsRefine ==
    ASSUME ClientInv, ProjectionNeverRegresses', [ClientNext]_clientVars
    PROVE  [Facts!FactsNext]_(Facts!factVars)
<1> DEFINE Refined == Facts!FactsNext \/ UNCHANGED ledgerView
<1>1. ASSUME NEW w \in Worker, WorkerStep(w) \/ Crash(w)
      PROVE  Refined
  <2>1. CASE CommitFacts(w)
    <3>1. PICK o \in Operation : o = job[w]
      BY <2>1, CommitFactsReady
    <3>2. Facts!Append(o)
      BY <2>1, <3>1, CommitAppends
    <3> QED BY <3>2 DEF Facts!FactsNext
  <2>2. CASE Activate(w)
    <3>1. PICK o \in Operation : o = job[w]
      BY <2>2 DEF Activate, ClientInv, WorkersOnTrack, Executing
    <3>2. Facts!Publish(o)
      BY <2>2, <3>1, ActivatePublishes DEF Activate
    <3> QED BY <3>2 DEF Facts!FactsNext
  <2>3. CASE Return(w)
    <3>1. PICK o \in Operation : o = job[w]
      BY <2>3 DEF Return, ClientInv, WorkersOnTrack, Executing
    <3>2. /\ pubState[o] = "active"
          /\ RecordProof(o)
          /\ UNCHANGED <<ledgerVars, pubVars, tombstones>>
      BY <2>3, <3>1 DEF Return, PublishedAsPlanned
    <3>3. Facts!Report(o) \/ UNCHANGED ledgerView
      BY <3>2, RecordReports
    <3> QED BY <3>3 DEF Facts!FactsNext
  <2>4. CASE Verify(w)
    <3>1. /\ pubState \in [Operation -> PubState]
          /\ pubState[job[w]] = "prepared"
          /\ pubState' = [pubState EXCEPT ![job[w]] = "verified"]
          /\ UNCHANGED <<factVersion, authority, tombstones, active, request>>
      BY <2>4
         DEF Verify, MarkVerified, ledgerVars, approvalVars, ClientInv, DataInv,
             ClientTypeOK
    <3> QED BY <3>1, InvisibleSteps
  <2>5. CASE \/ RegisterPreview(w) \/ FindCommitted(w) \/ BeginVerify(w)
             \/ BeginActivate(w) \/ Stop(w)
    <3>1. UNCHANGED <<factVersion, authority, tombstones, active, pubState, request>>
      BY <2>5
         DEF RegisterPreview, FindCommitted, BeginVerify, BeginActivate, Stop,
             ledgerVars, pubVars, approvalVars
    <3> QED BY <3>1, InvisibleSteps
  <2> QED BY <1>1, <2>1, <2>2, <2>3, <2>4, <2>5 DEF WorkerStep, Crash, Raise
<1>2. ASSUME NEW w \in Worker, NEW o \in Operation,
             BeginPreview(w, o) \/ Plan(w, o) \/ RecoverApplied(w, o)
      PROVE  Refined
  <2>1. CASE RecoverApplied(w, o)
    <3>1. /\ pubState[o] = "active"
          /\ RecordProof(o)
          /\ UNCHANGED <<ledgerVars, pubVars, tombstones>>
      BY <2>1 DEF RecoverApplied, RecordProof, MayReattest, PublishedAsPlanned
    <3> QED BY <3>1, RecordReports DEF Facts!FactsNext
  <2>2. CASE BeginPreview(w, o) \/ Plan(w, o)
    <3>1. UNCHANGED <<factVersion, authority, tombstones, active, pubState, request>>
      BY <2>2 DEF BeginPreview, Plan, ledgerVars, pubVars, approvalVars
    <3> QED BY <3>1, InvisibleSteps
  <2> QED BY <1>2, <2>1, <2>2
<1>3. ASSUME NEW o \in Operation, Approve(o)
      PROVE  Refined
  <2>1. /\ UNCHANGED <<factVersion, authority, tombstones, active, pubState>>
        /\ request \in [Operation -> RequestState]
    BY <1>3, OneRequestPerOperation
       DEF Approve, ledgerVars, pubVars, ClientInv, DataInv, ApprovalInv,
           ApprovalTypeOK
  <2>2. \A p \in Operation :
            request'[p] = "acknowledged" <=> request[p] = "acknowledged"
    <3>1. \E next \in {"pending", "confirmed", "issued"} :
              \/ request[o] # "acknowledged" /\ request' = [request EXCEPT ![o] = next]
              \/ request' = request
      BY <1>3 DEF Approve, RequestApproval, Confirm, Expire, Issue, MayBind
    <3> QED BY <2>1, <3>1
  <2> QED BY <2>1, <2>2, InvisibleSteps
<1>4. ASSUME NEW s \in Deletable, Delete(s)
      PROVE  Refined
  <2>1. Facts!Remove(s)
    BY <1>4 DEF Delete, Facts!Remove, ledgerVars, pubVars, approvalVars
  <2> QED BY <2>1, SourcesAreKnown DEF Facts!FactsNext
<1>5. ASSUME UNCHANGED clientVars
      PROVE  Refined
  <2>1. UNCHANGED <<factVersion, authority, tombstones, active, pubState, request>>
    BY <1>5 DEF clientVars, approvalVars, ledgerVars, pubVars
  <2> QED BY <2>1, InvisibleSteps
<1>6. Refined
  <2>1. CASE ClientNext
    BY <2>1, <1>1, <1>2, <1>3, <1>4 DEF ClientNext
  <2> QED BY <2>1, <1>5
<1> QED BY <1>6 DEF Facts!factVars, ledgerView, Shown, Published, Reported

\* The publication protocol, with its workers, crashes and interleavings,
\* implements the abstract ledger.
THEOREM PublicationRefinesFacts == ClientSpec => ImplementsPublishedFacts
<1>1. ClientSpec => [](ClientInv /\ ProjectionNeverRegresses)
  BY ClientInvariant, ProjectionsGrow, PTL
<1>2. ClientInv /\ ProjectionNeverRegresses' /\ [ClientNext]_clientVars
          => [Facts!FactsNext]_(Facts!factVars)
  BY StepsRefine
<1> QED
  BY <1>1, <1>2, FactsInitially, PTL
     DEF ClientSpec, ImplementsPublishedFacts, Facts!FactsSpec

\* Nothing drawn from a deleted source is ever switched to, although the
\* deletion may land between any two steps of the publication.
THEOREM DeletedStaysHidden == ClientSpec => NeverActivatesDeleted
<1>1. ASSUME ClientInv, [ClientNext]_clientVars
      PROVE  [active' # active =>
                  \A p \in closure[active'] : SourceOf[p] \notin tombstones]_clientVars
  <2>1. ASSUME NEW w \in Worker, Activate(w)
        PROVE  \A p \in closure[active'] : SourceOf[p] \notin tombstones
    BY <2>1 DEF Activate, ActivateExpected, MayActivate, Visible, Lineage
  <2>2. CASE UNCHANGED active
    BY <2>2
  <2> QED
    BY <1>1, <2>1, <2>2
       DEF ClientNext, WorkerStep, clientVars, pubVars, RegisterPreview, CommitFacts, AppendFacts, InsertPrepared,
           FindCommitted, BeginVerify, Verify, MarkVerified, BeginActivate, Return, Raise, Crash,
           Stop, BeginPreview, Plan, RecoverApplied, Approve, Delete
<1> QED BY <1>1, ClientInvariant, PTL DEF ClientSpec, NeverActivatesDeleted

=============================================================================
