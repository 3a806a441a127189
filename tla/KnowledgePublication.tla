------------------------ MODULE KnowledgePublication ------------------------
(***************************************************************************)
(* The publication of the shared knowledge: wiki pages and the revisions   *)
(* of a counselling theory they rest on                                    *)
(* (publication/global_knowledge.py, knowledge/publication.py).            *)
(*                                                                         *)
(* An approved page is prepared: a row of the catalog, shown to nobody.    *)
(* A server then plans the next runtime epoch, whose closure is that page  *)
(* and every page that is active.  Once the plan is approved any server    *)
(* may execute it: it records the operation, verifies its artifacts, and   *)
(* publishes, checking the plan against the catalog in one transaction and *)
(* again in a second one, which turns the rows and switches the epoch.     *)
(* Meanwhile the catalog grows, a claim or a theory is revoked, which      *)
(* retires the epoch at once, an administrator rebuilds the closure, and   *)
(* servers die.  A starting server first resolves the operations it finds  *)
(* unfinished: it may switch the epoch, and leaves the rows alone.         *)
(*                                                                         *)
(* The model has one theory, with its versions; 0 stands for none.  A page *)
(* names the version it rests on; it may cite all claims of that version,  *)
(* some, or none, and only citing ties it to the fate of the version.  The *)
(* epochs of authorizations and of tombstones rise together and are one    *)
(* counter, revocations.                                                   *)
(***************************************************************************)
EXTENDS Naturals

CONSTANTS
    Server,
    Page,           \* revisions of wiki pages
    WikiOf,         \* Page -> its wiki
    RevisionOf,     \* Page -> its number among the revisions of that wiki
    Version,        \* versions of the theory
    TheoryOf,       \* Page -> the version it names, or 0
    Cited,          \* Page -> how much of that version's claims it cites
    Claim,          \* claims from other sources than the theory
    ClaimsOf,       \* Page -> the claims it cites
    Initial,        \* the pages that are active at first
    Operation,
    Genesis,        \* the operation of the rebuild that shows them
    None,
    MaxCrashes      \* bound on the deaths of servers

ASSUME PagesAreTyped ==
    /\ RevisionOf \in [Page -> Nat]
    /\ TheoryOf \in [Page -> Version \cup {0}]
    /\ Cited \in [Page -> {"nothing", "some", "all"}]
    /\ \A p \in Page : TheoryOf[p] = 0 => Cited[p] = "nothing"
    /\ ClaimsOf \in [Page -> SUBSET Claim]
    /\ DOMAIN WikiOf = Page
    /\ Version \subseteq Nat \ {0}
ASSUME GenesisIsAnOperation == Genesis \in Operation
ASSUME NoneIsNothing == None \notin Operation \cup Page

\* Pages that are shown together name one version of the theory.
OneVersion(S) ==
    \A p, q \in S : TheoryOf[p] # 0 /\ TheoryOf[q] # 0 => TheoryOf[p] = TheoryOf[q]

ASSUME InitialIsAClosure ==
    /\ Initial \subseteq Page
    /\ \A p, q \in Initial : WikiOf[p] = WikiOf[q] => p = q
    /\ OneVersion(Initial)

VARIABLES
    page,           \* wiki_revisions: Page -> review_status
    theory,         \* theory_revisions: Version -> status
    revokedClaims,
    catalog,        \* catalog_version
    revocations,    \* authorization_epoch and tombstone_epoch
    op,             \* Operation -> its state; "planned" waits for approval
    plan,           \* Operation -> what it publishes
    bound,          \* Operation -> revocations when it was recorded
    active,         \* operation of the active runtime epoch, or None
    recovered,      \* history: operations that recovery has activated
    at,             \* Server -> where it is
    job,            \* Server -> the operation it works on
    draft,          \* Server -> the plan it is making
    todo,           \* Server -> the operations its recovery has left
    seen,           \* Server -> catalog when its recovery began
    healthy,        \* Server -> the active closure was in order then
    crashes

rowVars == <<page, theory, revokedClaims>>
authorityVars == <<rowVars, catalog, revocations>>
epochVars == <<op, plan, bound, active, recovered>>
recoveryVars == <<todo, seen, healthy>>
serverVars == <<at, job, draft, recoveryVars>>
vars == <<authorityVars, epochVars, serverVars, crashes>>

Status == {"none", "prepared", "active", "superseded", "revoked"}

\* A rebuild has no target and, its approval being that of a job, no proof of
\* approval that recovery accepts.
Plan == [target : Page \cup {None}, version : Nat, closure : SUBSET Page,
         expected : Operation \cup {None}, combined : BOOLEAN, catalog : Nat]

TypeOK ==
    /\ page \in [Page -> Status]
    /\ theory \in [Version -> Status]
    /\ revokedClaims \subseteq Claim
    /\ catalog \in Nat /\ revocations \in Nat /\ crashes \in Nat
    /\ op \in [Operation -> {"none", "planned", "PREPARED", "VERIFIED", "ACTIVE", "FAILED"}]
    /\ plan \in [Operation -> Plan \cup {None}]
    /\ bound \in [Operation -> Nat]
    /\ active \in Operation \cup {None}
    /\ recovered \subseteq Operation
    /\ at \in [Server -> {"out", "idle", "plan", "verify", "check", "publish",
                          "recover", "retire", "resume"}]
    /\ job \in [Server -> Operation \cup {None}]
    /\ draft \in [Server -> Plan \cup {None}]
    /\ todo \in [Server -> SUBSET Operation]
    /\ seen \in [Server -> Nat]
    /\ healthy \in [Server -> BOOLEAN]

ActivePages == {p \in Page : page[p] = "active"}

Rebuilt == [target |-> None, version |-> catalog, closure |-> ActivePages,
            expected |-> active, combined |-> FALSE, catalog |-> catalog]

Init ==
    /\ page = [p \in Page |-> IF p \in Initial THEN "active" ELSE "none"]
    /\ theory = [v \in Version |->
                    IF \E p \in Initial : TheoryOf[p] = v THEN "active" ELSE "none"]
    /\ revokedClaims = {}
    /\ catalog = 1 /\ revocations = 0 /\ crashes = 0
    /\ op = [o \in Operation |-> IF o = Genesis THEN "ACTIVE" ELSE "none"]
    /\ plan = [o \in Operation |->
                  IF o = Genesis
                  THEN [target |-> None, version |-> 1, closure |-> Initial,
                        expected |-> None, combined |-> FALSE, catalog |-> 1]
                  ELSE None]
    /\ bound = [o \in Operation |-> 0]
    /\ active = Genesis
    /\ recovered = {}
    /\ at = [s \in Server |-> "idle"]
    /\ job = [s \in Server |-> None]
    /\ draft = [s \in Server |-> None]
    /\ todo = [s \in Server |-> {}]
    /\ seen = [s \in Server |-> 0]
    /\ healthy = [s \in Server |-> FALSE]

-----------------------------------------------------------------------------
(* The catalog.  Each of these is one transaction of an idle server, and   *)
(* each raises the version of the catalog.                                 *)

\* A version follows the one before it, unless that was revoked.
ApproveTheory(v) ==
    /\ \A u \in Version : theory[u] # "none" <=> u < v
    /\ \A u \in Version : u + 1 = v => theory[u] # "revoked"
    /\ theory' = [theory EXCEPT ![v] = "prepared"]
    /\ catalog' = catalog + 1
    /\ UNCHANGED <<page, revokedClaims, revocations, epochVars, serverVars, crashes>>

\* The version that p names and the claims it cites may be used.
Supported(p) ==
    /\ TheoryOf[p] # 0 => theory[TheoryOf[p]] \in {"prepared", "active"}
    /\ ClaimsOf[p] \cap revokedClaims = {}

ApprovePage(p) ==
    /\ \A q \in Page :
        WikiOf[q] = WikiOf[p] => (page[q] # "none" <=> RevisionOf[q] < RevisionOf[p])
    /\ Supported(p)
    /\ page' = [page EXCEPT ![p] = "prepared"]
    /\ catalog' = catalog + 1
    /\ UNCHANGED <<theory, revokedClaims, revocations, epochVars, serverVars, crashes>>

\* What rests on something that is revoked is revoked with it, and the active
\* epoch is retired: nothing is shown until the next publication.
Withdraw(S) ==
    /\ page' = [p \in Page |->
                   IF p \in S /\ page[p] \in {"prepared", "active"} THEN "revoked" ELSE page[p]]
    /\ active' = None
    /\ catalog' = catalog + 1
    /\ revocations' = revocations + 1
    /\ UNCHANGED <<op, plan, bound, recovered, serverVars, crashes>>

Cites(p, v) == TheoryOf[p] = v /\ Cited[p] # "nothing"

\* A page that names the version and cites none of its claims stays as it is.
RevokeTheory(v) ==
    /\ theory[v] \in {"prepared", "active"}
    /\ theory' = [theory EXCEPT ![v] = "revoked"]
    /\ Withdraw({p \in Page : Cites(p, v)})
    /\ UNCHANGED revokedClaims

RevokeClaim(c) ==
    /\ c \notin revokedClaims
    /\ revokedClaims' = revokedClaims \cup {c}
    /\ Withdraw({p \in Page : c \in ClaimsOf[p]})
    /\ UNCHANGED theory

-----------------------------------------------------------------------------
(* The plan.                                                               *)

Go(s, a) == at' = [at EXCEPT ![s] = a]

\* A server keeps nothing when it is done with a request, or dies.
Leave(s, a) ==
    /\ Go(s, a)
    /\ job' = [job EXCEPT ![s] = None]
    /\ draft' = [draft EXCEPT ![s] = None]
    /\ todo' = [todo EXCEPT ![s] = {}]
    /\ seen' = [seen EXCEPT ![s] = 0]
    /\ healthy' = [healthy EXCEPT ![s] = FALSE]

\* Mutant: the closure is the new page.
GovernedAlone(p) == {p}

\* The closure of the next epoch: the new page in place of the old revision.
Governed(p) == {q \in ActivePages : WikiOf[q] # WikiOf[p]} \cup {p}

\* Mutant: pages may rest on several versions of the theory.
GovernableMixed(S) ==
    \A p \in S : page[p] \in {"prepared", "active"} /\ Supported(p)

Governable(S) ==
    /\ \A p \in S : page[p] \in {"prepared", "active"} /\ Supported(p)
    /\ OneVersion(S)

Recorded == {o \in Operation : op[o] \notin {"none", "planned"}}

IsLatest(o) ==
    o \in Recorded /\ \A q \in Recorded : plan[q].version <= plan[o].version

\* The server reads the epoch, the versions and the rows one after the other;
\* what it is to publish together with a version of the theory that is not
\* active yet becomes a combined publication.
Draft(s, p) ==
    /\ at[s] = "idle"
    /\ page[p] = "prepared" /\ Governable(Governed(p))
    /\ \E o \in Operation :
        /\ IsLatest(o)
        /\ draft' = [draft EXCEPT ![s] =
             [target |-> p, version |-> plan[o].version + 1, closure |-> Governed(p),
              expected |-> active, catalog |-> 0,
              combined |-> TheoryOf[p] # 0 /\ theory[TheoryOf[p]] = "prepared"]]
    /\ Go(s, "plan")
    /\ UNCHANGED <<authorityVars, epochVars, job, recoveryVars, crashes>>

\* What a plan says of its rows holds in the catalog now.
Confirmed(d) ==
    /\ active = d.expected
    /\ page[d.target] = "prepared"
    /\ d.combined => theory[TheoryOf[d.target]] = "prepared"
    /\ Governable(d.closure)

\* The snapshot of the catalog is taken, the artifacts are built for it, and
\* the approval is asked for.
Fix(s, o) ==
    /\ at[s] = "plan"
    /\ op[o] = "none"
    /\ Confirmed(draft[s])
    /\ op' = [op EXCEPT ![o] = "planned"]
    /\ plan' = [plan EXCEPT ![o] = [draft[s] EXCEPT !.catalog = catalog]]
    /\ Leave(s, "idle")
    /\ UNCHANGED <<authorityVars, bound, active, recovered, crashes>>

-----------------------------------------------------------------------------
(* The execution of an approved plan.                                      *)

Open == {o \in Operation : op[o] \in {"PREPARED", "VERIFIED"}}

\* The approval is consumed and the operation recorded in one transaction; a
\* server that finds that done is told so again, and goes on from there.
Execute(s, o) ==
    /\ at[s] = "idle"
    /\ op[o] \in {"planned", "PREPARED", "VERIFIED"}
    /\ IF op[o] = "planned"
       THEN /\ op' = [op EXCEPT ![o] = "PREPARED"]
            /\ bound' = [bound EXCEPT ![o] = revocations]
       ELSE UNCHANGED <<op, bound>>
    /\ Go(s, "verify")
    /\ job' = [job EXCEPT ![s] = o]
    /\ UNCHANGED <<authorityVars, plan, active, recovered, draft, recoveryVars, crashes>>

Verify(s) ==
    /\ at[s] = "verify"
    /\ job[s] \in Open
    /\ op' = [op EXCEPT ![job[s]] = "VERIFIED"]
    /\ Go(s, "check")
    /\ UNCHANGED <<authorityVars, plan, bound, active, recovered, job, draft,
                   recoveryVars, crashes>>

\* The manifests of a plan list the pages that are governed now.
ListsGoverned(d) == d.closure = Governed(d.target)

\* The linter finds an error once a version was superseded or revoked: its
\* claims have no authority any more, and no claim is ever taken out.
LintsClean == \A v \in Version : theory[v] \notin {"superseded", "revoked"}

\* The plan is what the planner would make of the catalog as it is now.
Current(o) ==
    /\ op[o] = "VERIFIED"
    /\ LintsClean
    /\ plan[o].catalog = catalog
    /\ Confirmed(plan[o])
    /\ ListsGoverned(plan[o])

\* A page that brings its version along cites all claims of it; a publication
\* of a page alone needs its version to be active.
Check(s) ==
    LET d == plan[job[s]] IN
    /\ at[s] = "check"
    /\ Current(job[s])
    /\ IF d.combined
       THEN Cited[d.target] = "all"
       ELSE TheoryOf[d.target] # 0 => theory[TheoryOf[d.target]] = "active"
    /\ Go(s, "publish")
    /\ UNCHANGED <<authorityVars, epochVars, job, draft, recoveryVars, crashes>>

\* The page becomes active in place of the old revision, and with it the
\* version of the theory it brings along.
Turn(d) ==
    /\ page' = [q \in Page |->
                   IF q = d.target THEN "active"
                   ELSE IF WikiOf[q] = WikiOf[d.target] /\ page[q] = "active"
                   THEN "superseded" ELSE page[q]]
    /\ theory' = IF d.combined
                 THEN [v \in Version |->
                          IF v = TheoryOf[d.target] THEN "active"
                          ELSE IF theory[v] = "active" THEN "superseded" ELSE theory[v]]
                 ELSE theory

Activate(o) ==
    /\ op' = [op EXCEPT ![o] = "ACTIVE"]
    /\ active' = o

\* Mutant: the second transaction relies on the check of the first, of the
\* epoch and of all else but the row of its page.
PublishUnchecked(s) ==
    LET o == job[s] IN
    /\ at[s] = "publish"
    /\ op[o] = "VERIFIED"
    /\ page[plan[o].target] = "prepared"
    /\ Turn(plan[o])
    /\ Activate(o)
    /\ Leave(s, "idle")
    /\ UNCHANGED <<revokedClaims, catalog, revocations, plan, bound, recovered, crashes>>

\* Rows and epoch, in the transaction that checks the plan again.
Publish(s) ==
    /\ at[s] = "publish"
    /\ Current(job[s])
    /\ Turn(plan[job[s]])
    /\ Activate(job[s])
    /\ Leave(s, "idle")
    /\ UNCHANGED <<revokedClaims, catalog, revocations, plan, bound, recovered, crashes>>

\* Any of these steps may be refused: a check fails, a builder finds an error,
\* a file of the content store does not read back.
GiveUp(s) ==
    /\ at[s] \in {"plan", "verify", "check", "publish"}
    /\ Leave(s, "idle")
    /\ UNCHANGED <<authorityVars, epochVars, crashes>>

\* A rebuild of the active pages.  Its plan and its activation are tied to
\* the epoch and to the version of the catalog, so it is one step.  It is
\* planned like a publication, but does not ask the linter.
Rebuild(o) ==
    /\ op[o] = "none"
    /\ ActivePages # {} /\ Governable(ActivePages)
    /\ plan' = [plan EXCEPT ![o] = Rebuilt]
    /\ bound' = [bound EXCEPT ![o] = revocations]
    /\ Activate(o)
    /\ UNCHANGED <<authorityVars, recovered, serverVars, crashes>>

-----------------------------------------------------------------------------
(* A server dies and starts again; StartupRecovery has the same recovery   *)
(* in detail.                                                              *)

Crash(s) ==
    /\ at[s] # "out"
    /\ crashes < MaxCrashes
    /\ crashes' = crashes + 1
    /\ Leave(s, "out")
    /\ UNCHANGED <<authorityVars, epochVars>>

\* An operation agrees with the authority of now.
Valid(o) ==
    /\ plan[o].version = catalog
    /\ bound[o] = revocations
    /\ plan[o].target # None

Scan(s) ==
    /\ at[s] = "out"
    /\ Go(s, "recover")
    /\ todo' = [todo EXCEPT ![s] = Open]
    /\ seen' = [seen EXCEPT ![s] = catalog]
    /\ healthy' = [healthy EXCEPT ![s] = active # None => Valid(active)]
    /\ UNCHANGED <<authorityVars, epochVars, job, draft, crashes>>

\* Each decision is made again and must be the one of the scan.
Decide(s, o) ==
    /\ at[s] = "recover"
    /\ o \in todo[s]
    /\ o \in Open /\ catalog = seen[s]
    /\ Go(s, IF Valid(o) THEN "resume" ELSE "retire")
    /\ job' = [job EXCEPT ![s] = o]
    /\ UNCHANGED <<authorityVars, epochVars, draft, recoveryVars, crashes>>

Resolved(s) ==
    /\ Go(s, "recover")
    /\ job' = [job EXCEPT ![s] = None]
    /\ todo' = [todo EXCEPT ![s] = @ \ {job[s]}]

Retire(s) ==
    /\ at[s] = "retire"
    /\ job[s] \in Open
    /\ op' = [op EXCEPT ![job[s]] = "FAILED"]
    /\ Resolved(s)
    /\ UNCHANGED <<authorityVars, plan, bound, active, recovered, draft, seen,
                   healthy, crashes>>

\* Mutant: recovery switches whatever epoch is shown by then.
ResumeAnyEpoch(s) ==
    LET o == job[s] IN
    /\ at[s] = "resume"
    /\ \/ o \in Open /\ Activate(o) /\ recovered' = recovered \cup {o}
       \/ op[o] = "ACTIVE" /\ UNCHANGED <<op, active, recovered>>
    /\ Resolved(s)
    /\ UNCHANGED <<authorityVars, plan, bound, draft, seen, healthy, crashes>>

\* The epoch is switched, the rows stay as they are.  What its own server has
\* published meanwhile is left alone.
Resume(s) ==
    LET o == job[s] IN
    /\ at[s] = "resume"
    /\ \/ /\ o \in Open /\ active = plan[o].expected
          /\ Activate(o)
          /\ recovered' = recovered \cup {o}
       \/ op[o] = "ACTIVE" /\ UNCHANGED <<op, active, recovered>>
    /\ Resolved(s)
    /\ UNCHANGED <<authorityVars, plan, bound, draft, seen, healthy, crashes>>

\* A start fails when something changed under its recovery, or when the epoch
\* that an operation expects is gone; it ends when the active closure was not
\* in order, whatever recovery did about it.
Blocked(s) ==
    /\ at[s] \in {"recover", "retire", "resume"}
    /\ \/ at[s] = "recover" /\ \E o \in todo[s] : (o \notin Open \/ catalog # seen[s])
       \/ at[s] = "recover" /\ todo[s] = {} /\ ~healthy[s]
       \/ at[s] = "retire" /\ job[s] \notin Open
       \/ /\ at[s] = "resume"
          /\ op[job[s]] # "ACTIVE"
          /\ (job[s] \in Open => active # plan[job[s]].expected)
    /\ Leave(s, "out")
    /\ UNCHANGED <<authorityVars, epochVars, crashes>>

Serve(s) ==
    /\ at[s] = "recover" /\ todo[s] = {} /\ healthy[s]
    /\ Leave(s, "idle")
    /\ UNCHANGED <<authorityVars, epochVars, crashes>>

-----------------------------------------------------------------------------
CatalogStep ==
    \/ \E v \in Version : ApproveTheory(v) \/ RevokeTheory(v)
    \/ \E p \in Page : ApprovePage(p)
    \/ \E c \in Claim : RevokeClaim(c)

PublicationStep(s) ==
    \/ \E p \in Page : Draft(s, p)
    \/ \E o \in Operation : Fix(s, o) \/ Execute(s, o)
    \/ Verify(s) \/ Check(s) \/ Publish(s) \/ GiveUp(s)

RecoveryStep(s) ==
    \/ Scan(s) \/ Retire(s) \/ Resume(s) \/ Blocked(s) \/ Serve(s)
    \/ \E o \in Operation : Decide(s, o)

Next ==
    \/ (\E s \in Server : at[s] = "idle") /\ CatalogStep
    \/ \E s \in Server : PublicationStep(s) \/ RecoveryStep(s) \/ Crash(s)
    \/ \E o \in Operation : Rebuild(o)

Spec == Init /\ [][Next]_vars

-----------------------------------------------------------------------------
(* Properties.                                                             *)

\* knowledge/publication.py: the switch of the epoch and the rows of the
\* catalog share one transaction.  Whatever changed between the plan, the two
\* checks and the switch, the active closure holds exactly the active pages.
\* An epoch that recovery has switched shows its page beside them, which the
\* catalog still calls prepared; unless nothing was shown when it was planned.
ShownIsGoverned ==
    /\ active # None /\ active \notin recovered => plan[active].closure = ActivePages
    /\ active \in recovered /\ plan[active].expected # None =>
           /\ plan[active].closure = Governed(plan[active].target)
           /\ page[plan[active].target] = "prepared"

\* A publication, a rebuild and a recovery that follow one another take no
\* wiki from the readers, at most its old revision: only a revocation does.
PagesStay ==
    [][active # None /\ active \notin recovered /\ revocations' = revocations =>
           /\ active' # None
           /\ \A p \in plan[active].closure :
                \E q \in plan'[active'].closure : WikiOf[q] = WikiOf[p]]_vars

\* What an active page cites has authority: claims of the active version of
\* the theory, and no revoked claim, whichever pages and versions were
\* published and revoked in between.  (A page that only names a version may
\* stay active when that is revoked.)
PagesAreBacked ==
    \A p \in ActivePages :
        /\ Cited[p] # "nothing" => theory[TheoryOf[p]] = "active"
        /\ ClaimsOf[p] \cap revokedClaims = {}

Shown == IF active = None THEN {} ELSE plan[active].closure
Retired == {p \in Page : page[p] \in {"superseded", "revoked"}}

Readers == INSTANCE ShownKnowledge WITH
    NoTheory <- 0, current <- ActivePages, retired <- Retired,
    open <- active # None, shown <- Shown

\* Plans, checks, restarts and recoveries amount, for the readers, to whole
\* publications, one page at a time, of pages that fit together.
ImplementsShownKnowledge == Readers!Spec

=============================================================================
