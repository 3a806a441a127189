-------------------------- MODULE CasePublication --------------------------
(***************************************************************************)
(* An approved case goes from its client's database to the global one.     *)
(* The worker of the client writes an event to an outbox in the            *)
(* transaction that executes the approval.  The manager of the session,    *)
(* in the server process, drains that outbox: it exports an event, lets    *)
(* the publisher copy, prepare and activate the case in the global         *)
(* database, and acknowledges the event with a signed proof.  Nothing      *)
(* spans the two databases, any process may die between two steps, and a   *)
(* second server may take the session over at any time.                    *)
(*                                                                         *)
(* The events are those of one session.  They are numbered by the time of  *)
(* their approval, the order in which the outbox hands them out.  A step   *)
(* reads the clock once, before its transaction: the step is taken at the  *)
(* time it read.                                                           *)
(***************************************************************************)
EXTENDS Naturals

CONSTANTS
    Event,          \* approved candidates, in order of approval
    Case,           \* identifiers of global cases
    Manager,        \* server processes
    None,
    MaxEpoch,       \* bound on the switches of the global epoch
    MaxFaults       \* bound on crashes and take-overs

ASSUME EventsAreOrdered == Event \subseteq Nat
ASSUME NoneIsNothing == None \notin Event \cup Case \cup Manager

VARIABLES
    outbox,         \* client: Event -> none, PENDING, CLAIMED or PUBLISHED
    proof,          \* client: Event -> the proof stored when published
    expired,        \* events whose case may no longer be shared: its reuse
                    \* authorization ran out or was withdrawn
    source,         \* global: Case -> its event, None while unused
    saga,           \* global: Case -> state of the saga that publishes it
    revoked,        \* global: cases a deletion has revoked
    planned,        \* global: Case -> the epoch its operation expects
    body,           \* global: cases whose body is in the content store
    epoch,          \* global: active epoch
    holder,         \* the manager whose capability is valid
    at,             \* Manager -> where it is
    target,         \* Manager -> the only event it drains, None for all
    job,            \* Manager -> exported event
    run,            \* Manager -> its case
    seen,           \* Manager -> state of the case as it read it
    faults

clientVars == <<outbox, proof>>
globalVars == <<source, saga, revoked, planned, body>>
managerVars == <<at, target, job, run, seen>>
vars == <<clientVars, expired, globalVars, epoch, holder, managerVars, faults>>

SagaState == {"none", "RECEIVED", "COPIED", "PREPARED", "ACTIVE"}
Proof == [case : Case, planned : Nat]

TypeOK ==
    /\ outbox \in [Event -> {"none", "PENDING", "CLAIMED", "PUBLISHED"}]
    /\ proof \in [Event -> Proof \cup {None}]
    /\ expired \subseteq Event
    /\ source \in [Case -> Event \cup {None}]
    /\ saga \in [Case -> SagaState]
    /\ revoked \subseteq Case
    /\ planned \in [Case -> Nat]
    /\ body \subseteq Case
    /\ epoch \in Nat /\ faults \in Nat
    /\ holder \in Manager \cup {None}
    /\ at \in [Manager -> {"out", "idle", "export", "receive", "look", "act",
                           "mark", "ack"}]
    /\ target \in [Manager -> Event \cup {None}]
    /\ job \in [Manager -> Event \cup {None}]
    /\ run \in [Manager -> Case \cup {None}]
    /\ seen \in [Manager -> SagaState]

Init ==
    /\ outbox = [e \in Event |-> "none"]
    /\ proof = [e \in Event |-> None]
    /\ expired = {}
    /\ source = [c \in Case |-> None]
    /\ saga = [c \in Case |-> "none"]
    /\ revoked = {}
    /\ planned = [c \in Case |-> 0]
    /\ body = {}
    /\ epoch = 0 /\ faults = 0
    /\ holder = None
    /\ at = [m \in Manager |-> "out"]
    /\ target = [m \in Manager |-> None]
    /\ job = [m \in Manager |-> None]
    /\ run = [m \in Manager |-> None]
    /\ seen = [m \in Manager |-> "none"]

-----------------------------------------------------------------------------
(* The session.                                                            *)

Go(m, s) == at' = [at EXCEPT ![m] = s]

\* A manager out of its drain forgets where it was.
Leave(m, s) ==
    /\ Go(m, s)
    /\ target' = [target EXCEPT ![m] = None]
    /\ job' = [job EXCEPT ![m] = None]
    /\ run' = [run EXCEPT ![m] = None]
    /\ seen' = [seen EXCEPT ![m] = "none"]

Drain(m, e) ==
    /\ Go(m, "export")
    /\ target' = [target EXCEPT ![m] = e]
    /\ UNCHANGED <<job, run, seen>>

\* The session is begun or resumed: the capability is renewed, and what an
\* earlier process left in the outbox is drained.  Taking a session over from
\* a manager that still holds it counts as a fault.
Open(m) ==
    /\ at[m] \in {"out", "idle"}
    /\ IF \A n \in Manager : at[n] = "out"
       THEN UNCHANGED faults
       ELSE faults < MaxFaults /\ faults' = faults + 1
    /\ holder' = m
    /\ Drain(m, None)
    /\ UNCHANGED <<clientVars, expired, globalVars, epoch>>

\* The server dies, or its worker does, or an answer comes too late.
Crash(m) ==
    /\ at[m] # "out"
    /\ faults < MaxFaults
    /\ faults' = faults + 1
    /\ Leave(m, "out")
    /\ UNCHANGED <<clientVars, expired, globalVars, epoch, holder>>

\* The approval of a case is executed: its candidate leaves the draft state
\* and the event enters the outbox, in one transaction.  Asked again, the
\* worker attests what is there.  Then this event is drained.
Commit(m, e) ==
    /\ at[m] = "idle"
    /\ holder = m
    /\ outbox' = [outbox EXCEPT ![e] = IF @ = "none" THEN "PENDING" ELSE @]
    /\ IF outbox[e] = "PUBLISHED" THEN UNCHANGED managerVars ELSE Drain(m, e)
    /\ UNCHANGED <<proof, expired, globalVars, epoch, holder, faults>>

-----------------------------------------------------------------------------
(* The drain.  Its calls to the worker need the capability.                *)

Unpublished == {e \in Event : outbox[e] \in {"PENDING", "CLAIMED"}}

\* Mutant: a claimed event is not handed out again.
WantedPending(m) == {e \in Unpublished : outbox[e] = "PENDING" /\ target[m] \in {None, e}}

Wanted(m) == {e \in Unpublished : target[m] \in {None, e}}

IsFirst(e, S) == e \in S /\ \A f \in S : e <= f

\* Mutant: the event is exported and claimed only when it is acknowledged.
ClaimLater(e) == UNCHANGED outbox

Claim(e) == outbox' = [outbox EXCEPT ![e] = "CLAIMED"]

\* The worker claims the first event and exports it.  If the case may no
\* longer be shared it refuses, the event being claimed already, and ends.
Export(m) ==
    /\ at[m] = "export"
    /\ holder = m
    /\ \/ Wanted(m) = {} /\ Leave(m, "idle") /\ UNCHANGED outbox
       \/ \E e \in Event :
            /\ IsFirst(e, Wanted(m))
            /\ Claim(e)
            /\ IF e \in expired
               THEN Leave(m, "out")
               ELSE /\ Go(m, "receive")
                    /\ job' = [job EXCEPT ![m] = e]
                    /\ UNCHANGED <<target, run, seen>>
    /\ UNCHANGED <<proof, expired, globalVars, epoch, holder, faults>>

Stays(m) == Go(m, "look") /\ UNCHANGED <<target, job, run, seen>>

\* Mutant: every replay of an event starts a case.
ReceiveAnew(m) ==
    /\ at[m] = "receive"
    /\ \E c \in Case :
        /\ source[c] = None
        /\ source' = [source EXCEPT ![c] = job[m]]
        /\ saga' = [saga EXCEPT ![c] = "RECEIVED"]
        /\ run' = [run EXCEPT ![m] = c]
    /\ Go(m, "look")
    /\ UNCHANGED <<clientVars, expired, revoked, planned, body, epoch, holder,
                   target, job, seen, faults>>

\* The publisher finds the saga of the event or starts one.
Receive(m) ==
    /\ at[m] = "receive"
    /\ \E c \in Case :
        /\ IF \E d \in Case : source[d] = job[m]
           THEN source[c] = job[m] /\ UNCHANGED <<source, saga>>
           ELSE /\ source[c] = None
                /\ source' = [source EXCEPT ![c] = job[m]]
                /\ saga' = [saga EXCEPT ![c] = "RECEIVED"]
        /\ run' = [run EXCEPT ![m] = c]
    /\ Go(m, "look")
    /\ UNCHANGED <<clientVars, expired, revoked, planned, body, epoch, holder,
                   target, job, seen, faults>>

\* It reads the saga again after each of its transactions.
Look(m) ==
    /\ at[m] = "look"
    /\ seen' = [seen EXCEPT ![m] = saga[run[m]]]
    /\ Go(m, "act")
    /\ UNCHANGED <<clientVars, expired, globalVars, epoch, holder, target, job,
                   run, faults>>

\* The body goes to the content store, under the hash of what it says.
Copy(m) ==
    /\ at[m] = "act" /\ seen[m] = "RECEIVED"
    /\ body' = body \cup {run[m]}
    /\ Go(m, "mark")
    /\ UNCHANGED <<clientVars, expired, source, saga, revoked, planned, epoch,
                   holder, target, job, run, seen, faults>>

MarkCopied(m) ==
    /\ at[m] = "mark"
    /\ saga' = [saga EXCEPT ![run[m]] = IF @ = "RECEIVED" THEN "COPIED" ELSE @]
    /\ Stays(m)
    /\ UNCHANGED <<clientVars, expired, source, revoked, planned, body, epoch,
                   holder, faults>>

\* Someone else took this step meanwhile.
Overtaken(m) ==
    /\ at[m] = "act" /\ seen[m] \in {"COPIED", "PREPARED"}
    /\ saga[run[m]] # seen[m]
    /\ Stays(m)
    /\ UNCHANGED <<clientVars, expired, globalVars, epoch, holder, faults>>

\* In the transaction of the step that its saga is at, the publisher asks the
\* worker for the live authority of the case and checks what is recorded.
Asks(m) == at[m] = "act" /\ seen[m] # "RECEIVED" /\ saga[run[m]] = seen[m]

Agreed(m) ==
    /\ job[m] \notin expired
    /\ seen[m] = "COPIED" => run[m] \in body
    /\ seen[m] = "PREPARED" => planned[run[m]] = epoch
    /\ seen[m] = "ACTIVE" => run[m] \notin revoked

\* The case, its provenance, its manifest and the operation are written, for
\* the epoch that is active now.
Prepare(m) ==
    /\ Asks(m) /\ seen[m] = "COPIED"
    /\ holder = m /\ Agreed(m)
    /\ saga' = [saga EXCEPT ![run[m]] = "PREPARED"]
    /\ planned' = [planned EXCEPT ![run[m]] = epoch]
    /\ Stays(m)
    /\ UNCHANGED <<clientVars, expired, source, revoked, body, epoch, holder, faults>>

Activate(m) ==
    /\ Asks(m) /\ seen[m] = "PREPARED"
    /\ holder = m /\ Agreed(m)
    /\ saga' = [saga EXCEPT ![run[m]] = "ACTIVE"]
    /\ Stays(m)
    /\ UNCHANGED <<clientVars, expired, source, revoked, planned, body, epoch,
                   holder, faults>>

\* Mutant: the proof is signed before the case is activated.
SignPrepared(m) ==
    /\ Asks(m) /\ seen[m] \in {"PREPARED", "ACTIVE"}
    /\ holder = m /\ Agreed(m)
    /\ Go(m, "ack")
    /\ UNCHANGED <<clientVars, expired, globalVars, epoch, holder, target, job,
                   run, seen, faults>>

\* An active case is looked up in the catalog and the proof is signed.
Sign(m) ==
    /\ Asks(m) /\ seen[m] = "ACTIVE"
    /\ holder = m /\ Agreed(m)
    /\ Go(m, "ack")
    /\ UNCHANGED <<clientVars, expired, globalVars, epoch, holder, target, job,
                   run, seen, faults>>

\* A refusal ends the drain and is not reported; the session goes on.
Refused(m) ==
    /\ Asks(m)
    /\ holder = m /\ ~Agreed(m)
    /\ Leave(m, "idle")
    /\ UNCHANGED <<clientVars, expired, globalVars, epoch, holder, faults>>

\* A call with a capability that was renewed elsewhere ends the worker.
Denied(m) ==
    /\ at[m] \in {"idle", "export", "ack"} \/ Asks(m)
    /\ holder # m
    /\ Leave(m, "out")
    /\ UNCHANGED <<clientVars, expired, globalVars, epoch, holder, faults>>

\* The worker stores the proof and ends the event, whatever state it is in;
\* an event that is published already is told the same again.
Acknowledge(m) ==
    /\ at[m] = "ack"
    /\ holder = m
    /\ LET signed == [case |-> run[m], planned |-> planned[run[m]]] IN
       IF \/ job[m] \in expired
          \/ outbox[job[m]] = "PUBLISHED" /\ proof[job[m]] # signed
       THEN Leave(m, "out") /\ UNCHANGED clientVars
       ELSE /\ outbox' = [outbox EXCEPT ![job[m]] = "PUBLISHED"]
            /\ proof' = [proof EXCEPT ![job[m]] = signed]
            /\ IF target[m] = None
               THEN /\ Go(m, "export")
                    /\ job' = [job EXCEPT ![m] = None]
                    /\ run' = [run EXCEPT ![m] = None]
                    /\ seen' = [seen EXCEPT ![m] = "none"]
                    /\ UNCHANGED target
               ELSE Leave(m, "idle")
    /\ UNCHANGED <<expired, globalVars, epoch, holder, faults>>

-----------------------------------------------------------------------------
(* What happens beside it.                                                 *)

Expire(e) ==
    /\ e \notin expired
    /\ expired' = expired \cup {e}
    /\ UNCHANGED <<clientVars, globalVars, epoch, holder, managerVars, faults>>

\* A deletion revokes an active case.
Revoke(c) ==
    /\ saga[c] = "ACTIVE" /\ c \notin revoked
    /\ revoked' = revoked \cup {c}
    /\ UNCHANGED <<clientVars, expired, source, saga, planned, body, epoch,
                   holder, managerVars, faults>>

\* A global publication or rebuild switches the epoch.
SwitchEpoch ==
    /\ epoch < MaxEpoch
    /\ epoch' = epoch + 1
    /\ UNCHANGED <<clientVars, expired, globalVars, holder, managerVars, faults>>

-----------------------------------------------------------------------------
PublisherStep(m) ==
    \/ Receive(m) \/ Look(m) \/ Copy(m) \/ MarkCopied(m) \/ Overtaken(m)
    \/ Prepare(m) \/ Activate(m) \/ Sign(m) \/ Refused(m)

DrainStep(m) == Export(m) \/ PublisherStep(m) \/ Acknowledge(m) \/ Denied(m)

Next ==
    \/ \E m \in Manager :
        \/ Open(m) \/ Crash(m) \/ DrainStep(m)
        \/ \E e \in Event : Commit(m, e)
    \/ \E e \in Event : Expire(e)
    \/ \E c \in Case : Revoke(c)
    \/ SwitchEpoch

Spec == Init /\ [][Next]_vars

\* A server takes its next step, and one that lost its capability learns of it
\* at its next call; a session nobody holds is opened again.
Fairness ==
    \A m \in Manager :
        /\ WF_vars(DrainStep(m))
        /\ WF_vars(Open(m) /\ \A n \in Manager : at[n] = "out")

LiveSpec == Spec /\ Fairness

-----------------------------------------------------------------------------
(* Properties.                                                             *)

\* However often an event is replayed, and by however many servers at once,
\* it makes one case.
OneCasePerEvent ==
    \A c, d \in Case : source[c] = source[d] /\ source[c] # None => c = d

\* What the client's database holds as published was activated, and its proof
\* is about that case and the operation that activated it.
AcknowledgedIsActive ==
    \A e \in Event :
        outbox[e] = "PUBLISHED" =>
            \E c \in Case :
                /\ source[c] = e
                /\ saga[c] = "ACTIVE"
                /\ proof[e] = [case |-> c, planned |-> planned[c]]

\* A case that retrieval may show is complete, and its event has left the
\* client's database for good: it was approved there and claimed.
ShownIsWhole ==
    \A c \in Case :
        saga[c] = "ACTIVE" =>
            c \in body /\ outbox[source[c]] \in {"CLAIMED", "PUBLISHED"}

Blocks(e) ==
    /\ e \in Unpublished
    /\ \/ e \in expired
       \/ \E c \in Case :
            /\ source[c] = e
            /\ \/ c \in revoked
               \/ saga[c] = "PREPARED" /\ planned[c] # epoch

\* Every event of the outbox is published eventually, whatever died on the
\* way, unless one is expired, was revoked before it was acknowledged, or was
\* prepared for an epoch that has passed.  Such an event blocks itself and
\* those behind it.
EventuallyPublished ==
    []~(\E e \in Event : Blocks(e)) =>
        \A e \in Event : e \in Unpublished ~> outbox[e] = "PUBLISHED"

StatusOf(e) ==
    IF \A c \in Case : source[c] = e => saga[c] # "ACTIVE" THEN "private"
    ELSE IF \E c \in Case : source[c] = e /\ saga[c] = "ACTIVE" /\ c \notin revoked
    THEN "shared"
    ELSE "withdrawn"

Shared == INSTANCE SharedCases WITH
    status <- [e \in Event |-> StatusOf(e)],
    told <- {e \in Event : outbox[e] = "PUBLISHED"}

ImplementsSharedCases == Shared!Spec
=============================================================================
