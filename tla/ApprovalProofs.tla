--------------------------- MODULE ApprovalProofs ---------------------------
(***************************************************************************)
(* The safety properties of Approval, for any numbers of requests and      *)
(* operations.                                                             *)
(***************************************************************************)
EXTENDS Approval, TLAPS

\* A committed write leaves an execution row behind, which is what stops the
\* next one.
WritesLeaveRows ==
    \A r \in Request :
        /\ writes[r] <= 1
        /\ writes[r] > 0 => \E o \in Operation : execution[o] = r

ApprovalInv ==
    /\ ApprovalTypeOK
    /\ ExecutionMatchesBinding
    /\ AcknowledgedWasApplied
    /\ WritesLeaveRows

-----------------------------------------------------------------------------
(* One lemma per action.                                                   *)

LEMMA ControlPlaneInv ==
    ASSUME ApprovalInv, NEW r \in Request,
           RequestApproval(r) \/ Expire(r) \/ Confirm(r)
    PROVE  ApprovalInv'
<1> USE NoneIsNoOperation, NoneIsNoRequest
<1>1. ApprovalTypeOK'
  BY DEF ApprovalInv, ApprovalTypeOK, RequestState, RequestApproval, Expire, Confirm
<1>2. UNCHANGED <<binding, execution, writes>>
  BY DEF RequestApproval, Expire, Confirm
<1>3. ExecutionMatchesBinding' /\ WritesLeaveRows'
  BY <1>2 DEF ApprovalInv, ExecutionMatchesBinding, WritesLeaveRows
<1>4. AcknowledgedWasApplied'
  BY <1>2 DEF ApprovalInv, ApprovalTypeOK, AcknowledgedWasApplied,
              RequestApproval, Expire, Confirm
<1> QED BY <1>1, <1>3, <1>4 DEF ApprovalInv

\* The bound receipt is consumed by no execution yet: an executed request is
\* bound already.
LEMMA IssueInv ==
    ASSUME ApprovalInv, NEW r \in Request, NEW o \in Operation, Issue(r, o)
    PROVE  ApprovalInv'
<1> USE NoneIsNoOperation, NoneIsNoRequest DEF Issue, MayBind
<1>1. ApprovalTypeOK'
  BY DEF ApprovalInv, ApprovalTypeOK, RequestState
<1>2. ExecutionMatchesBinding'
  BY DEF ApprovalInv, ApprovalTypeOK, ExecutionMatchesBinding
<1>3. AcknowledgedWasApplied'
  BY DEF ApprovalInv, ApprovalTypeOK, AcknowledgedWasApplied
<1>4. WritesLeaveRows'
  BY DEF ApprovalInv, WritesLeaveRows
<1> QED BY <1>1, <1>2, <1>3, <1>4 DEF ApprovalInv

\* The claimed request has no row yet, so this is its first write.
LEMMA ApplyInv ==
    ASSUME ApprovalInv, NEW r \in Request, NEW o \in Operation, Apply(r, o)
    PROVE  ApprovalInv'
<1> USE NoneIsNoOperation, NoneIsNoRequest
    DEF Apply, MayApply, TicketValid, Unused
<1>1. ApprovalTypeOK'
  BY DEF ApprovalInv, ApprovalTypeOK
<1>2. ExecutionMatchesBinding'
  BY DEF ApprovalInv, ApprovalTypeOK, ExecutionMatchesBinding
<1>3. AcknowledgedWasApplied'
  BY DEF ApprovalInv, ApprovalTypeOK, AcknowledgedWasApplied
<1>4. WritesLeaveRows'
  <2> SUFFICES ASSUME NEW q \in Request
               PROVE  /\ writes'[q] <= 1
                      /\ writes'[q] > 0 => \E p \in Operation : execution'[p] = q
    BY DEF WritesLeaveRows
  <2>1. CASE q = r
    <3>1. writes[r] = 0
      BY DEF ApprovalInv, ApprovalTypeOK, WritesLeaveRows
    <3> QED BY <2>1, <3>1 DEF ApprovalInv, ApprovalTypeOK
  <2>2. CASE q # r
    <3>1. writes'[q] = writes[q]
      BY <2>2 DEF ApprovalInv, ApprovalTypeOK
    <3>2. ASSUME NEW p \in Operation, execution[p] = q PROVE execution'[p] = q
      BY <2>2, <3>2 DEF ApprovalInv, ApprovalTypeOK
    <3> QED BY <3>1, <3>2 DEF ApprovalInv, WritesLeaveRows
  <2> QED BY <2>1, <2>2
<1> QED BY <1>1, <1>2, <1>3, <1>4 DEF ApprovalInv

LEMMA AcknowledgeInv ==
    ASSUME ApprovalInv, NEW r \in Request, NEW o \in Operation, Acknowledge(r, o)
    PROVE  ApprovalInv'
<1> USE NoneIsNoOperation, NoneIsNoRequest DEF Acknowledge, ProofOf, TicketValid
<1>1. ApprovalTypeOK'
  BY DEF ApprovalInv, ApprovalTypeOK, RequestState
<1>2. AcknowledgedWasApplied'
  BY DEF ApprovalInv, ApprovalTypeOK, AcknowledgedWasApplied
<1>3. ExecutionMatchesBinding' /\ WritesLeaveRows'
  BY DEF ApprovalInv, ExecutionMatchesBinding, WritesLeaveRows
<1> QED BY <1>1, <1>2, <1>3 DEF ApprovalInv

LEMMA ApprovalStutterInv ==
    ASSUME ApprovalInv, UNCHANGED approvalVars
    PROVE  ApprovalInv'
BY DEF ApprovalInv, approvalVars, ApprovalTypeOK, ExecutionMatchesBinding,
       AcknowledgedWasApplied, WritesLeaveRows

LEMMA ApprovalInitInv == ApprovalInit => ApprovalInv
BY NoneIsNoOperation, NoneIsNoRequest
   DEF ApprovalInit, ApprovalInv, ApprovalTypeOK, RequestState,
       ExecutionMatchesBinding, AcknowledgedWasApplied, WritesLeaveRows

LEMMA ApprovalNextInv ==
    ApprovalInv /\ [ApprovalNext]_approvalVars => ApprovalInv'
<1> SUFFICES ASSUME ApprovalInv, [ApprovalNext]_approvalVars
             PROVE  ApprovalInv'
  OBVIOUS
<1>1. CASE \E r \in Request : RequestApproval(r) \/ Expire(r) \/ Confirm(r)
  BY <1>1, ControlPlaneInv
<1>2. ASSUME NEW r \in Request, NEW o \in Operation, Issue(r, o)
      PROVE  ApprovalInv'
  BY <1>2, IssueInv
<1>3. ASSUME NEW r \in Request, NEW o \in Operation, Apply(r, o)
      PROVE  ApprovalInv'
  BY <1>3, ApplyInv
<1>4. ASSUME NEW r \in Request, NEW o \in Operation, Acknowledge(r, o)
      PROVE  ApprovalInv'
  BY <1>4, AcknowledgeInv
<1>5. CASE UNCHANGED approvalVars
  BY <1>5, ApprovalStutterInv
<1> QED BY <1>1, <1>2, <1>3, <1>4, <1>5 DEF ApprovalNext

\* The invariant of the protocol, over every number of requests and
\* operations that compete for them (approvals/store.py, execution.py).
THEOREM ApprovalInvariant == ApprovalSpec => []ApprovalInv
BY ApprovalInitInv, ApprovalNextInv, PTL DEF ApprovalSpec

\* Every variable keeps its type: the states of approval_requests.state and
\* the two nullable references between the databases.
THEOREM ApprovalTypes == ApprovalSpec => []ApprovalTypeOK
<1>1. ApprovalInv => ApprovalTypeOK
  BY DEF ApprovalInv
<1> QED BY <1>1, ApprovalInvariant, PTL

\* However apply_in_transaction is retried, and by whichever operation, the
\* business callback of one approval commits at most once.
THEOREM ApprovalIsOneShot == ApprovalSpec => []WrittenOnce
<1>1. ApprovalInv => WrittenOnce
  BY DEF ApprovalInv, WritesLeaveRows, WrittenOnce
<1> QED BY <1>1, ApprovalInvariant, PTL

\* The control plane and the target database agree on the operation that
\* consumed an approval.
THEOREM DatabasesAgree == ApprovalSpec => []ExecutionMatchesBinding
<1>1. ApprovalInv => ExecutionMatchesBinding
  BY DEF ApprovalInv
<1> QED BY <1>1, ApprovalInvariant, PTL

\* acknowledge records only what the target database has committed.
THEOREM AcknowledgementIsTrue == ApprovalSpec => []AcknowledgedWasApplied
<1>1. ApprovalInv => AcknowledgedWasApplied
  BY DEF ApprovalInv
<1> QED BY <1>1, ApprovalInvariant, PTL

\* issue_for_execution never binds a receipt again.
THEOREM BindingsAreFinal == ApprovalSpec => BindingIsFinal
<1>1. ASSUME ApprovalInv, [ApprovalNext]_approvalVars
      PROVE  [\A r \in Request : binding[r] # None => binding'[r] = binding[r]]_approvalVars
  <2>1. CASE \E r \in Request, o \in Operation : Issue(r, o)
    <3>1. PICK r \in Request, o \in Operation : Issue(r, o)
      BY <2>1
    <3>2. binding[r] = None /\ binding' = [binding EXCEPT ![r] = o]
      BY <3>1 DEF Issue, MayBind
    <3> QED BY <3>2 DEF ApprovalInv, ApprovalTypeOK
  <2>2. CASE UNCHANGED binding
    BY <2>2
  <2> QED
    BY <1>1, <2>1, <2>2
       DEF ApprovalNext, approvalVars, RequestApproval, Expire, Confirm, Apply,
           Acknowledge
<1> QED BY <1>1, ApprovalInvariant, PTL DEF ApprovalSpec, BindingIsFinal

=============================================================================
