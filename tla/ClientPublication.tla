------------------------- MODULE ClientPublication -------------------------
(***************************************************************************)
(* Publication of approved facts in one client database                    *)
(* (client/publication.py, lifecycle/publish.py, storage/manifests.py and  *)
(* the fact ledger, driven by security/worker_main.py).                    *)
(*                                                                         *)
(* A preview plans an operation against the current epoch and the current  *)
(* commit version.  Once approved, a worker rebuilds the same plan, commits *)
(* the facts together with a PREPARED publication under the approval       *)
(* guard, verifies the publication and switches the runtime epoch to it.   *)
(* Every session has its own worker process; all of them share the         *)
(* database, and each step between two transactions is an interleaving     *)
(* point.  An error in a step ends the worker (ScopeDenied), as a crash or *)
(* a timeout does; StartupRecovery models what the next process does.      *)
(***************************************************************************)
EXTENDS Approval, FiniteSets

CONSTANTS Worker,       \* the worker processes
          Source,       \* the sources facts are drawn from
          Deletable,    \* the sources that are tombstoned in a run
          SourceOf      \* the source of the fact each operation adds

\* A preview belongs to one approval request, whose descriptor it fixes: the
\* model gives both the same name.
ASSUME OneRequestPerOperation == Request = Operation
ASSUME SourcesAreKnown ==
    /\ SourceOf \in [Operation -> Source]
    /\ Deletable \subseteq Source

VARIABLES
    draft,        \* review_diff_objects: base version and runtime epoch, or None
    authority,    \* client_fact_authority.commit_version
    factVersion,  \* fact_events.commit_version of each operation, 0 without rows
    pubState,     \* publication_operations.state, "none" without a row
    closure,      \* the operations whose facts the manifests contain
    boundTombs,   \* the tombstones bound when the publication was inserted
    active,       \* operation of the ACTIVE runtime epoch, or None
    epochOf,      \* publication_operations.runtime_epoch, 0 for NULL
    tombstones,   \* the tombstoned sources
    phase,        \* where each worker is
    job,          \* the operation each worker executes, or None
    seen          \* what each worker read for the preview it draws up, or None

workerVars == <<phase, job, seen>>
pubVars == <<pubState, closure, boundTombs, active, epochOf>>
ledgerVars == <<authority, factVersion>>
clientVars == <<approvalVars, draft, ledgerVars, pubVars, tombstones, workerVars>>

PubState == {"none", "prepared", "verified", "active", "failed"}

ClientPhase == {"idle", "drafting", "planned", "applied", "verifying",
                "verified", "activating", "published", "down"}

Draft == [base : Nat, runtime : Nat \ {0}]

ClientTypeOK ==
    /\ ApprovalTypeOK
    /\ draft \in [Operation -> Draft \cup {None}]
    /\ authority \in Nat
    /\ factVersion \in [Operation -> Nat]
    /\ pubState \in [Operation -> PubState]
    /\ closure \in [Operation -> SUBSET Operation]
    /\ boundTombs \in [Operation -> SUBSET Source]
    /\ active \in Operation \cup {None}
    /\ epochOf \in [Operation -> Nat]
    /\ tombstones \subseteq Source
    /\ phase \in [Worker -> ClientPhase]
    /\ job \in [Worker -> Operation \cup {None}]
    /\ seen \in [Worker -> Draft \cup {None}]

ClientInit ==
    /\ ApprovalInit
    /\ draft = [o \in Operation |-> None]
    /\ authority = 0
    /\ factVersion = [o \in Operation |-> 0]
    /\ pubState = [o \in Operation |-> "none"]
    /\ closure = [o \in Operation |-> {}]
    /\ boundTombs = [o \in Operation |-> {}]
    /\ active = None
    /\ epochOf = [o \in Operation |-> 0]
    /\ tombstones = {}
    /\ phase = [w \in Worker |-> "idle"]
    /\ job = [w \in Worker |-> None]
    /\ seen = [w \in Worker |-> None]

-----------------------------------------------------------------------------
(* The runtime epoch and visibility.                                       *)

\* RuntimeEpochRepository.current, 0 without an ACTIVE epoch
ActiveEpoch == IF active = None THEN 0 ELSE epochOf[active]

\* publication_operations.expected_current_epoch, 0 for NULL
ExpectedEpoch(o) == draft[o].runtime - 1

\* The manifests carry the lineage of every fact they contain.
Lineage(o) == {SourceOf[p] : p \in closure[o]}

\* VisibilityGuard: no source of the closure is tombstoned.
Visible(o) == Lineage(o) \cap tombstones = {}

\* Mutant: facts planned for the same epoch are overlooked.
ProjectedEarlier(o) ==
    {p \in Operation : /\ factVersion[p] > 0
                       /\ draft[p].runtime < draft[o].runtime}

\* The facts the planner finds in the ledger: all those committed so far
\* whose visible_runtime_epoch is not later than the planned epoch.
ProjectedFacts(o) ==
    {p \in Operation : /\ factVersion[p] > 0
                       /\ draft[p].runtime <= draft[o].runtime}

GoTo(w, there) == phase' = [phase EXCEPT ![w] = there]

-----------------------------------------------------------------------------
(* Preview and approval.                                                   *)

\* A preview has a fresh operation identifier.  Its worker reads the commit
\* version and the active epoch ...
BeginPreview(w, o) ==
    /\ phase[w] = "idle"
    /\ draft[o] = None
    /\ \A v \in Worker : ~(phase[v] = "drafting" /\ job[v] = o)
    /\ GoTo(w, "drafting")
    /\ job' = [job EXCEPT ![w] = o]
    /\ seen' = [seen EXCEPT ![w] = [base |-> authority, runtime |-> ActiveEpoch + 1]]
    /\ UNCHANGED <<approvalVars, draft, ledgerVars, pubVars, tombstones>>

\* ... and the ledger, plans, and registers the plan if the commit version is
\* still the same.
RegisterPreview(w) ==
    LET o == job[w]
    IN  /\ phase[w] = "drafting"
        /\ authority = seen[w].base
        /\ draft' = [draft EXCEPT ![o] = seen[w]]
        /\ GoTo(w, "idle")
        /\ job' = [job EXCEPT ![w] = None]
        /\ seen' = [seen EXCEPT ![w] = None]
        /\ UNCHANGED <<approvalVars, ledgerVars, pubVars, tombstones>>

\* The control plane: request, confirmation, expiry and the binding ticket.
Approve(o) ==
    /\ \/ draft[o] # None /\ RequestApproval(o)
       \/ Confirm(o)
       \/ Expire(o)
       \/ Issue(o, o)
    /\ UNCHANGED <<draft, ledgerVars, pubVars, tombstones, workerVars>>

-----------------------------------------------------------------------------
(* Execution: ClientPublicationExecutor and PublishCoordinator.            *)

\* Mutant: the authority is not compared.
AtAnyBase(o) == TRUE

\* The authority is still the one the operation was planned on.
AtBase(o) == authority = draft[o].base

\* The worker accepts a claim for a bound, unexpired ticket and prepares the
\* plan again; it must meet the registered base and epoch.
CanPlan(o) ==
    /\ TicketValid(o, o)
    /\ o \notin expired
    /\ AtBase(o)
    /\ draft[o].runtime = ActiveEpoch + 1

Plan(w, o) ==
    /\ phase[w] = "idle"
    /\ CanPlan(o)
    /\ GoTo(w, "planned")
    /\ job' = [job EXCEPT ![w] = o]
    /\ UNCHANGED <<approvalVars, draft, ledgerVars, pubVars, tombstones, seen>>

\* authority_version of the plan: the facts and the manifests carry it.
NextVersion(o) == draft[o].base + 1

\* append_batch_in_transaction
AppendFacts(o) ==
    /\ AtBase(o)
    /\ authority' = NextVersion(o)
    /\ factVersion' = [factVersion EXCEPT ![o] = NextVersion(o)]

\* PublishCoordinator.prepare inserts the publication with its manifests, and
\* the recovery binding with the tombstones it was planned under.
InsertPrepared(o) ==
    /\ pubState' = [pubState EXCEPT ![o] = "prepared"]
    /\ closure' = [closure EXCEPT ![o] = ProjectedFacts(o) \cup {o}]
    /\ boundTombs' = [boundTombs EXCEPT ![o] = tombstones]
    /\ UNCHANGED <<active, epochOf>>

\* One transaction claims the approval, appends the facts at the next commit
\* version and inserts the PREPARED publication.
CommitFacts(w) ==
    LET o == job[w]
    IN  /\ phase[w] = "planned"
        /\ Apply(o, o)
        /\ AppendFacts(o)
        /\ InsertPrepared(o)
        /\ GoTo(w, "applied")
        /\ UNCHANGED <<draft, tombstones, job, seen>>

\* Another worker has committed the operation: the guard finds its APPLIED row,
\* expired or not, runs no callback, and this worker publishes as well.
FindCommitted(w) ==
    /\ phase[w] = "planned"
    /\ ProofOf(job[w], job[w])
    /\ GoTo(w, "applied")
    /\ UNCHANGED <<approvalVars, draft, ledgerVars, pubVars, tombstones, job, seen>>

\* PublishCoordinator.verify reads the state and the files.  It skips the
\* transaction when another process was faster.
BeginVerify(w) ==
    LET o == job[w]
    IN  /\ phase[w] = "applied"
        /\ Visible(o)
        /\ \/ pubState[o] = "prepared" /\ GoTo(w, "verifying")
           \/ pubState[o] = "verified" /\ GoTo(w, "verified")
           \/ pubState[o] = "active" /\ GoTo(w, "published")
        /\ UNCHANGED <<approvalVars, draft, ledgerVars, pubVars, tombstones, job, seen>>

\* UPDATE ... SET state = 'VERIFIED' WHERE state = 'PREPARED'
MarkVerified(o) ==
    /\ pubState[o] = "prepared"
    /\ pubState' = [pubState EXCEPT ![o] = "verified"]
    /\ UNCHANGED <<closure, boundTombs, active, epochOf>>

Verify(w) ==
    /\ phase[w] = "verifying"
    /\ MarkVerified(job[w])
    /\ GoTo(w, "verified")
    /\ UNCHANGED <<approvalVars, draft, ledgerVars, tombstones, job, seen>>

\* PublishCoordinator.activate reads the state and the files once more.
BeginActivate(w) ==
    LET o == job[w]
    IN  /\ phase[w] = "verified"
        /\ Visible(o)
        /\ \/ pubState[o] = "verified" /\ GoTo(w, "activating")
           \/ pubState[o] = "active" /\ GoTo(w, "published")
        /\ UNCHANGED <<approvalVars, draft, ledgerVars, pubVars, tombstones, job, seen>>

\* Mutant: the expected epoch is not compared.
MayActivateAnyEpoch(o) ==
    /\ pubState[o] = "verified"
    /\ Visible(o)
    /\ ProofOf(o, o)

\* Mutant: visibility is checked before the transaction only.
MayActivateUnseen(o) ==
    /\ pubState[o] = "verified"
    /\ ProofOf(o, o)
    /\ ActiveEpoch = ExpectedEpoch(o)

\* What the activation transaction checks again.
MayActivate(o) ==
    /\ pubState[o] = "verified"
    /\ Visible(o)
    /\ ProofOf(o, o)
    /\ ActiveEpoch = ExpectedEpoch(o)

\* n = COALESCE(MAX(epoch), 0) + 1
IsNextEpoch(n) == \A p \in Operation : epochOf[p] < n

\* ManifestRepository.activate_expected retires the current epoch and makes
\* the operation's manifests the next one.
ActivateExpected(o) ==
    /\ MayActivate(o)
    /\ \E p \in Operation :
           /\ IsNextEpoch(epochOf[p] + 1)
           /\ epochOf' = [epochOf EXCEPT ![o] = epochOf[p] + 1]
    /\ active' = o
    /\ pubState' = [pubState EXCEPT ![o] = "active"]
    /\ UNCHANGED <<closure, boundTombs>>

Activate(w) ==
    /\ phase[w] = "activating"
    /\ ActivateExpected(job[w])
    /\ GoTo(w, "published")
    /\ UNCHANGED <<approvalVars, draft, ledgerVars, tombstones, job, seen>>

\* The attested operation became the epoch it was planned for.
PublishedAsPlanned(o) ==
    /\ pubState[o] = "active"
    /\ epochOf[o] = draft[o].runtime

\* The control plane records the proof; repeating it changes nothing.
RecordProof(o) ==
    \/ Acknowledge(o, o)
    \/ request[o] = "acknowledged" /\ UNCHANGED approvalVars

\* The worker's answer reaches the control plane.
Return(w) ==
    LET o == job[w]
    IN  /\ phase[w] = "published"
        /\ PublishedAsPlanned(o)
        /\ RecordProof(o)
        /\ GoTo(w, "idle")
        /\ job' = [job EXCEPT ![w] = None]
        /\ UNCHANGED <<draft, ledgerVars, pubVars, tombstones, seen>>

\* Mutant: a committed execution is enough.
MayReattestCommitted(o) ==
    /\ TicketValid(o, o)
    /\ ProofOf(o, o)
    /\ factVersion[o] = NextVersion(o)

\* The answer was lost: another worker attests the committed execution again,
\* expired or not, if the publication is complete.
MayReattest(o) ==
    /\ TicketValid(o, o)
    /\ ProofOf(o, o)
    /\ factVersion[o] = NextVersion(o)
    /\ PublishedAsPlanned(o)

RecoverApplied(w, o) ==
    /\ phase[w] = "idle"
    /\ MayReattest(o)
    /\ Acknowledge(o, o)
    /\ UNCHANGED <<draft, ledgerVars, pubVars, tombstones, workerVars>>

-----------------------------------------------------------------------------
(* Failure and deletion.                                                   *)

Stop(w) ==
    /\ GoTo(w, "down")
    /\ job' = [job EXCEPT ![w] = None]
    /\ seen' = [seen EXCEPT ![w] = None]
    /\ UNCHANGED <<approvalVars, draft, ledgerVars, pubVars, tombstones>>

\* The operation is in the ledger, and the ledger has not moved on since.
CommittedLast(o) == ProofOf(o, o) /\ authority = NextVersion(o)

\* A step whose check fails raises, and the worker is shut down.  The ledger
\* is read before the transaction: a worker whose operation was committed by
\* another may go on or raise once the ledger has moved past it.
Raise(w) ==
    LET o == job[w]
    IN  /\ \/ phase[w] = "drafting" /\ authority # seen[w].base
           \/ /\ phase[w] = "planned"
              /\ ~(MayApply(o, o) /\ AtBase(o))
              /\ ~CommittedLast(o)
           \/ phase[w] = "applied" /\ (pubState[o] = "failed" \/ ~Visible(o))
           \/ phase[w] = "verifying" /\ pubState[o] # "prepared"
           \/ phase[w] = "verified" /\ (pubState[o] = "failed" \/ ~Visible(o))
           \/ phase[w] = "activating" /\ ~MayActivate(o)
        /\ Stop(w)

\* The process dies, rejects a request, or its caller gives up waiting and
\* kills it.
Crash(w) ==
    /\ phase[w] # "down"
    /\ Stop(w)

\* An approved deletion makes a source invisible at once.
Delete(s) ==
    /\ s \notin tombstones
    /\ tombstones' = tombstones \cup {s}
    /\ UNCHANGED <<approvalVars, draft, ledgerVars, pubVars, workerVars>>

-----------------------------------------------------------------------------
WorkerStep(w) ==
    \/ RegisterPreview(w) \/ CommitFacts(w) \/ FindCommitted(w)
    \/ BeginVerify(w) \/ Verify(w) \/ BeginActivate(w) \/ Activate(w)
    \/ Return(w) \/ Raise(w)

ClientNext ==
    \/ \E w \in Worker : WorkerStep(w) \/ Crash(w)
    \/ \E w \in Worker, o \in Operation :
           BeginPreview(w, o) \/ Plan(w, o) \/ RecoverApplied(w, o)
    \/ \E o \in Operation : Approve(o)
    \/ \E s \in Deletable : Delete(s)

ClientSpec == ClientInit /\ [][ClientNext]_clientVars

-----------------------------------------------------------------------------
(* Properties.                                                             *)

\* Two processes never commit on the same base: the operations in the ledger
\* carry the commit versions 1 .. authority, each once.
LedgerIsDense ==
    /\ \A n \in 1 .. authority : \E o \in Operation : factVersion[o] = n
    /\ \A o, p \in Operation :
           factVersion[o] > 0 /\ factVersion[o] = factVersion[p] => o = p
    /\ \A o \in Operation : factVersion[o] <= authority

\* Every epoch was switched to from the epoch its operation expected, and is
\* the epoch that its facts, profile and graph name inside their hashed
\* content, although it is allocated only when the switch happens.
EpochsAsPlanned ==
    \A o \in Operation :
        pubState[o] = "active" =>
            /\ epochOf[o] = draft[o].runtime
            /\ epochOf[o] > 1 =>
                   \E p \in Operation : /\ pubState[p] = "active"
                                        /\ epochOf[p] = ExpectedEpoch(o)

\* The published projection is complete: it contains every fact that was
\* committed up to its version, those of operations that never became active
\* themselves included.
ActiveClosureComplete ==
    \A o \in Operation :
        pubState[o] = "active" =>
            closure[o] = {p \in Operation : factVersion[p] \in 1 .. factVersion[o]}

\* A later epoch never shows an older ledger.
ProjectionNeverRegresses ==
    \A o, p \in Operation :
        /\ pubState[o] = "active"
        /\ pubState[p] = "active"
        /\ epochOf[o] < epochOf[p]
        => factVersion[o] < factVersion[p]

\* The counselor is told that a change is published only when it is.
AcknowledgedIsPublished ==
    \A o \in Operation : request[o] = "acknowledged" => pubState[o] = "active"

\* A deletion that lands between two steps of a publication stops it: no
\* epoch is switched to content drawn from a source deleted by then.
NeverActivatesDeleted ==
    [][active' # active =>
           \A p \in closure[active'] : SourceOf[p] \notin tombstones]_clientVars

\* The publication protocol implements the simple ledger of PublishedFacts:
\* queries see a prefix of the approved changes that only grows.
Facts == INSTANCE PublishedFacts WITH
    version <- factVersion,
    length <- authority,
    shown <- IF active = None THEN 0 ELSE factVersion[active],
    published <- {o \in Operation : pubState[o] = "active"},
    deleted <- tombstones,
    reported <- {o \in Operation : request[o] = "acknowledged"}

ImplementsPublishedFacts == Facts!FactsSpec

=============================================================================
