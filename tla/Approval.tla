------------------------------ MODULE Approval ------------------------------
(***************************************************************************)
(* The one-shot approval protocol of consultation_kb/approvals.            *)
(*                                                                         *)
(* Two SQLite databases take part.  The control plane (store.py) keeps an  *)
(* approval request and, once a counselor confirmed it, a receipt that is  *)
(* bound to at most one operation.  The target database (execution.py)     *)
(* keeps one approval_executions row per operation, written in the same    *)
(* transaction as the business write it authorises.                        *)
(*                                                                         *)
(* An executor holds a ticket exactly when the receipt is bound to its     *)
(* operation (the ticket is re-derivable), and a proof exactly when the    *)
(* execution row is committed.  Any executor may therefore take any step   *)
(* at any time: crashes, retries and duplicated calls are interleavings    *)
(* of the actions below.                                                   *)
(***************************************************************************)
EXTENDS Naturals

CONSTANTS Request,      \* approval request identifiers
          Operation,    \* operation identifiers
          None          \* SQL NULL

ASSUME NoneIsNoOperation == None \notin Operation
ASSUME NoneIsNoRequest == None \notin Request

VARIABLES
    request,    \* approval_requests.state of each request, "none" without a row
    expired,    \* the requests whose expires_at has passed
    binding,    \* approval_receipts.operation_id of each request
    execution,  \* approval_executions.request_id of each operation, APPLIED rows
    writes      \* history: committed business callbacks of each request

approvalVars == <<request, expired, binding, execution, writes>>

RequestState == {"none", "pending", "confirmed", "issued", "acknowledged"}

ApprovalTypeOK ==
    /\ request \in [Request -> RequestState]
    /\ expired \subseteq Request
    /\ binding \in [Request -> Operation \cup {None}]
    /\ execution \in [Operation -> Request \cup {None}]
    /\ writes \in [Request -> Nat]

ApprovalInit ==
    /\ request = [r \in Request |-> "none"]
    /\ expired = {}
    /\ binding = [r \in Request |-> None]
    /\ execution = [o \in Operation |-> None]
    /\ writes = [r \in Request |-> 0]

-----------------------------------------------------------------------------
(* The control plane: ApprovalService.                                     *)

\* A request is stored once; a call that repeats a reserved identifier
\* returns the stored request and changes nothing.
RequestApproval(r) ==
    /\ request[r] = "none"
    /\ request' = [request EXCEPT ![r] = "pending"]
    /\ UNCHANGED <<expired, binding, execution, writes>>

\* The clock reaches expires_at.
Expire(r) ==
    /\ request[r] # "none"
    /\ r \notin expired
    /\ expired' = expired \cup {r}
    /\ UNCHANGED <<request, binding, execution, writes>>

\* The counselor confirms a pending request in time; the receipt is stored
\* with no operation.
Confirm(r) ==
    /\ request[r] = "pending"
    /\ r \notin expired
    /\ request' = [request EXCEPT ![r] = "confirmed"]
    /\ UNCHANGED <<expired, binding, execution, writes>>

\* approval_receipts.operation_id is UNIQUE.
BoundElsewhere(r, o) == \E q \in Request \ {r} : binding[q] = o

\* Mutant: a bound receipt may be bound again.
MayBindAgain(r, o) ==
    /\ request[r] \in {"confirmed", "issued"}
    /\ r \notin expired
    /\ ~BoundElsewhere(r, o)

\* The receipt exists, is not bound yet and has not expired.
MayBind(r, o) ==
    /\ request[r] = "confirmed"
    /\ binding[r] = None
    /\ r \notin expired
    /\ ~BoundElsewhere(r, o)

\* issue_for_execution binds the receipt to the operation.  A later call for
\* the same operation rebuilds the same ticket, even after expiry, and
\* changes nothing; a call for another operation is refused.
Issue(r, o) ==
    /\ MayBind(r, o)
    /\ binding' = [binding EXCEPT ![r] = o]
    /\ request' = [request EXCEPT ![r] = "issued"]
    /\ UNCHANGED <<expired, execution, writes>>

\* Mutant: any bound ticket will do.
TicketExists(r, o) == binding[r] # None

\* verify_ticket: the ticket names the operation the receipt is bound to.
TicketValid(r, o) == binding[r] = o

-----------------------------------------------------------------------------
(* The target database: ApprovalExecutionGuard.                            *)

\* Mutant: existing execution rows are not looked up.
UnusedUnchecked(r, o) == TRUE

\* No execution row has this operation or this request (or its nonce, which
\* is unique per request).
Unused(r, o) ==
    /\ execution[o] = None
    /\ \A p \in Operation : execution[p] # r

\* What apply_in_transaction needs before it runs the business callback.
MayApply(r, o) ==
    /\ TicketValid(r, o)
    /\ Unused(r, o)
    /\ r \notin expired

\* The transaction claims the approval, runs the callback, allocates the
\* commit version and marks the row APPLIED, all or nothing.  A call that
\* finds its own APPLIED row runs no callback and only attests it again.
\*
\* The expiry is compared once, at the start of the transaction, and the clock
\* does not wait for it: the step stands for the transaction at the time it
\* read, and a write may well land when the approval has expired meanwhile.
\* The commit version is left out: the fact ledger allocates its own, other
\* operations take MAX + 1 of the same column, and nothing compares them.
Apply(r, o) ==
    /\ MayApply(r, o)
    /\ execution' = [execution EXCEPT ![o] = r]
    /\ writes' = [writes EXCEPT ![r] = @ + 1]
    /\ UNCHANGED <<request, expired, binding>>

\* Mutant: the ticket is taken for the proof.
ProofByTicket(r, o) == binding[r] = o

\* The attestation the guard returns after the commit.
ProofOf(r, o) == execution[o] = r

\* The control plane records the proof; a repeated proof changes nothing.
Acknowledge(r, o) ==
    /\ ProofOf(r, o)
    /\ TicketValid(r, o)
    /\ request[r] # "acknowledged"
    /\ request' = [request EXCEPT ![r] = "acknowledged"]
    /\ UNCHANGED <<expired, binding, execution, writes>>

-----------------------------------------------------------------------------
ApprovalNext ==
    \/ \E r \in Request : RequestApproval(r) \/ Expire(r) \/ Confirm(r)
    \/ \E r \in Request, o \in Operation :
           Issue(r, o) \/ Apply(r, o) \/ Acknowledge(r, o)

ApprovalSpec == ApprovalInit /\ [][ApprovalNext]_approvalVars

-----------------------------------------------------------------------------
(* Properties.                                                             *)

\* The business write of an approval is committed at most once, however
\* often execution is retried and by whichever operation.
WrittenOnce == \A r \in Request : writes[r] <= 1

\* An execution row belongs to the operation its receipt is bound to, so the
\* two databases never disagree on who consumed an approval.
ExecutionMatchesBinding ==
    \A o \in Operation : execution[o] # None => binding[execution[o]] = o

\* The control plane calls a request acknowledged only when the target has
\* committed its write.
AcknowledgedWasApplied ==
    \A r \in Request :
        request[r] = "acknowledged" =>
            \E o \in Operation : binding[r] = o /\ execution[o] = r

\* A bound receipt keeps its operation for ever, so a retry after a crash can
\* only continue the operation it had begun.
BindingIsFinal ==
    [][\A r \in Request : binding[r] # None => binding'[r] = binding[r]]_approvalVars

=============================================================================
