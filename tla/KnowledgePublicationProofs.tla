--------------------- MODULE KnowledgePublicationProofs ---------------------
(***************************************************************************)
(* The safety properties of KnowledgePublication, for any pages, versions, *)
(* claims, servers and operations.                                         *)
(***************************************************************************)
EXTENDS KnowledgePublication, TLAPS

-----------------------------------------------------------------------------
(* The inductive invariant.                                                *)

\* A plan that may still be executed, or is being made.
Pending == {o \in Operation : op[o] \in {"planned", "PREPARED", "VERIFIED"}}

\* A plan has a target; what it expects was active once, a page it would
\* publish alone did not wait for its theory, and its pages fit together.
PlanInOrder(d) ==
    /\ d \in Plan
    /\ d.target \in Page
    /\ d.expected # None => op[d.expected] = "ACTIVE"
    /\ ~d.combined /\ TheoryOf[d.target] # 0 =>
           theory[TheoryOf[d.target]] \notin {"none", "prepared"}
    /\ d.combined => TheoryOf[d.target] # 0
    /\ Readers!Coherent(d.closure)

\* While the epoch that a plan expects is active, the plan is the one that
\* would be drafted now: an epoch that was left is never active again.
AsDrafted(d) ==
    active = d.expected /\ active # None =>
        d.closure = Governed(d.target) /\ page[d.target] = "prepared"

PlansInOrder ==
    /\ \A o \in Pending : PlanInOrder(plan[o]) /\ AsDrafted(plan[o])
    /\ \A o \in Operation :
          op[o] # "none" => plan[o] \in Plan /\ Readers!Coherent(plan[o].closure)

ServersInOrder ==
    \A s \in Server :
        /\ at[s] = "plan" => PlanInOrder(draft[s]) /\ AsDrafted(draft[s])
        /\ at[s] \in {"verify", "check", "publish", "retire", "resume"} =>
               job[s] \in Recorded

ActiveWasActivated ==
    /\ active # None => op[active] = "ACTIVE"
    /\ \A o \in recovered : op[o] = "ACTIVE" /\ plan[o].target \in Page

PagesFit == Readers!Coherent(ActivePages)

KnowledgeInv ==
    /\ TypeOK
    /\ PlansInOrder
    /\ ServersInOrder
    /\ ActiveWasActivated
    /\ ShownIsGoverned
    /\ PagesAreBacked
    /\ PagesFit

LEMMA KnowledgeInvInit == Init => KnowledgeInv
<1> SUFFICES ASSUME Init PROVE KnowledgeInv
  OBVIOUS
<1> USE PagesAreTyped, GenesisIsAnOperation, NoneIsNothing, InitialIsAClosure
<1>1. TypeOK
  BY DEF Init, TypeOK, Status, Plan
<1>2. PlansInOrder /\ ServersInOrder /\ ActiveWasActivated
  BY DEF Init, PlansInOrder, Pending, ServersInOrder, ActiveWasActivated, Plan,
         Readers!Coherent, OneVersion
<1>3. ActivePages = Initial
  BY DEF Init, ActivePages
<1>4. ShownIsGoverned
  BY <1>3 DEF Init, ShownIsGoverned
<1>5. PagesAreBacked
  BY <1>3 DEF Init, PagesAreBacked
<1>6. PagesFit
  BY <1>3 DEF PagesFit, Readers!Coherent, OneVersion
<1> QED BY <1>1, <1>2, <1>4, <1>5, <1>6 DEF KnowledgeInv

-----------------------------------------------------------------------------
(* Steps that leave the database alone.                                    *)

LEMMA DataStays ==
    ASSUME KnowledgeInv, UNCHANGED <<authorityVars, epochVars>>
    PROVE  /\ PlansInOrder' /\ ActiveWasActivated' /\ ShownIsGoverned' /\ PagesAreBacked'
           /\ PagesFit'
           /\ Recorded' = Recorded
           /\ page' = page /\ theory' = theory /\ op' = op /\ active' = active
           /\ recovered' = recovered /\ ActivePages' = ActivePages
<1>1. UNCHANGED <<page, theory, revokedClaims, catalog, revocations, op, plan, bound,
                  active, recovered>>
  BY DEF authorityVars, rowVars, epochVars
<1>2. ActivePages' = ActivePages /\ Recorded' = Recorded /\ Pending' = Pending
  BY <1>1 DEF ActivePages, Recorded, Pending
<1>3. PlansInOrder'
  BY <1>1, <1>2 DEF KnowledgeInv, PlansInOrder, PlanInOrder, AsDrafted, Governed
<1>4. ActiveWasActivated' /\ ShownIsGoverned' /\ PagesAreBacked' /\ PagesFit'
  BY <1>1, <1>2 DEF KnowledgeInv, ActiveWasActivated, ShownIsGoverned, Governed,
                    PagesAreBacked, PagesFit
<1> QED BY <1>1, <1>2, <1>3, <1>4

\* A server that goes on with what it has, or leaves.
LEMMA WalkInv ==
    ASSUME KnowledgeInv, UNCHANGED <<authorityVars, epochVars>>, NEW s \in Server,
           crashes' \in Nat, TypeOK',
           \A r \in Server \ {s} : at'[r] = at[r] /\ job'[r] = job[r] /\ draft'[r] = draft[r],
           at'[s] = "plan" => PlanInOrder(draft[s])' /\ AsDrafted(draft[s])',
           at'[s] \in {"verify", "check", "publish", "retire", "resume"} =>
               job'[s] \in Recorded
    PROVE  KnowledgeInv'
<1>1. ServersInOrder'
  <2> SUFFICES ASSUME NEW r \in Server
               PROVE  /\ at'[r] = "plan" => PlanInOrder(draft[r])' /\ AsDrafted(draft[r])'
                      /\ at'[r] \in {"verify", "check", "publish", "retire", "resume"} =>
                             job'[r] \in Recorded'
    BY DEF ServersInOrder
  <2>1. CASE r = s
    BY <2>1, DataStays
  <2>2. CASE r # s
    BY <2>2, DataStays DEF KnowledgeInv, ServersInOrder, PlanInOrder, AsDrafted, Governed
  <2> QED BY <2>1, <2>2
<1> QED BY <1>1, DataStays DEF KnowledgeInv

LEMMA LeaveInv ==
    ASSUME KnowledgeInv, NEW s \in Server,
           GiveUp(s) \/ Crash(s) \/ Blocked(s) \/ Serve(s)
    PROVE  KnowledgeInv'
<1>1. UNCHANGED <<authorityVars, epochVars>>
  BY DEF GiveUp, Crash, Blocked, Serve
<1>2. PICK a \in {"idle", "out"} : Leave(s, a)
  BY DEF GiveUp, Crash, Blocked, Serve
<1>3. crashes' \in Nat
  BY DEF KnowledgeInv, TypeOK, GiveUp, Crash, Blocked, Serve
<1>4. TypeOK'
  BY <1>1, <1>2, <1>3 DEF KnowledgeInv, TypeOK, Leave, Go, authorityVars, rowVars, epochVars
<1>5. /\ at'[s] = a
      /\ \A r \in Server \ {s} : at'[r] = at[r] /\ job'[r] = job[r] /\ draft'[r] = draft[r]
  BY <1>2 DEF KnowledgeInv, TypeOK, Leave, Go
<1> QED BY <1>1, <1>3, <1>4, <1>5, WalkInv

LEMMA DraftInv ==
    ASSUME KnowledgeInv, NEW s \in Server, NEW p \in Page, Draft(s, p)
    PROVE  KnowledgeInv'
<1>1. UNCHANGED <<authorityVars, epochVars>>
  BY DEF Draft
<1>2. PICK o \in Recorded :
        draft' = [draft EXCEPT ![s] =
             [target |-> p, version |-> plan[o].version + 1, closure |-> Governed(p),
              expected |-> active, catalog |-> 0,
              combined |-> TheoryOf[p] # 0 /\ theory[TheoryOf[p]] = "prepared"]]
  BY DEF Draft, IsLatest
<1> DEFINE d == [target |-> p, version |-> plan[o].version + 1, closure |-> Governed(p),
                 expected |-> active, catalog |-> 0,
                 combined |-> TheoryOf[p] # 0 /\ theory[TheoryOf[p]] = "prepared"]
<1>3. plan[o].version \in Nat
  BY DEF KnowledgeInv, PlansInOrder, Recorded, Plan
<1>4. Governed(p) \subseteq Page
  BY DEF Governed, ActivePages
<1>5. d \in Plan
  <2>1. active \in Operation \cup {None}
    BY DEF KnowledgeInv, TypeOK
  <2> QED BY <1>3, <1>4, <2>1 DEF Plan
<1>6. TheoryOf[p] # 0 => theory[TheoryOf[p]] \in {"prepared", "active"}
  BY DEF Draft, Governable, Governed, Supported
<1>7. Readers!Coherent(Governed(p))
  <2>1. OneVersion(Governed(p))
    BY DEF Draft, Governable
  <2>2. \A q, r \in ActivePages : WikiOf[q] = WikiOf[r] => q = r
    BY DEF KnowledgeInv, PagesFit, Readers!Coherent
  <2> QED BY <2>1, <2>2 DEF Readers!Coherent, OneVersion, Governed
<1>8. PlanInOrder(d) /\ AsDrafted(d)
  <2>1. PlanInOrder(d)
    BY <1>5, <1>6, <1>7 DEF PlanInOrder, KnowledgeInv, ActiveWasActivated
  <2>2. AsDrafted(d)
    BY DEF AsDrafted, Draft
  <2> QED BY <2>1, <2>2
<1>9. at' = [at EXCEPT ![s] = "plan"] /\ draft' = [draft EXCEPT ![s] = d]
  BY <1>2 DEF Draft, Go
<1>10. UNCHANGED <<job, recoveryVars, crashes>>
  BY DEF Draft
<1> HIDE DEF d
<1>11. TypeOK'
  BY <1>1, <1>5, <1>9, <1>10 DEF KnowledgeInv, TypeOK, authorityVars, rowVars, epochVars,
                                 recoveryVars
<1>12. /\ at'[s] = "plan" /\ draft'[s] = d
       /\ \A r \in Server \ {s} : at'[r] = at[r] /\ job'[r] = job[r] /\ draft'[r] = draft[r]
  BY <1>9, <1>10 DEF KnowledgeInv, TypeOK
<1>13. PlanInOrder(draft[s])' /\ AsDrafted(draft[s])'
  BY <1>1, <1>8, <1>12, DataStays DEF PlanInOrder, AsDrafted, Governed
<1>14. crashes' \in Nat
  BY <1>11 DEF TypeOK
<1> QED BY <1>1, <1>11, <1>12, <1>13, <1>14, WalkInv

LEMMA StepInv ==
    ASSUME KnowledgeInv, NEW s \in Server,
           Check(s) \/ Scan(s) \/ \E o \in Operation : Decide(s, o)
    PROVE  KnowledgeInv'
<1>1. UNCHANGED <<authorityVars, epochVars>> /\ crashes' = crashes
  BY DEF Check, Scan, Decide
<1>2. TypeOK'
  <2> USE <1>1 DEF KnowledgeInv, TypeOK, Go, authorityVars, rowVars, epochVars, recoveryVars
  <2>1. CASE Check(s)
    BY <2>1 DEF Check
  <2>2. CASE Scan(s)
    <3>1. (active # None => Valid(active)) \in BOOLEAN
      OBVIOUS
    <3>2. Open \subseteq Operation
      BY DEF Open
    <3> QED BY <2>2, <3>1, <3>2 DEF Scan
  <2>3. CASE \E o \in Operation : Decide(s, o)
    BY <2>3 DEF Decide
  <2> QED BY <2>1, <2>2, <2>3
<1>3. \A r \in Server \ {s} : at'[r] = at[r] /\ job'[r] = job[r] /\ draft'[r] = draft[r]
  BY DEF KnowledgeInv, TypeOK, Check, Scan, Decide, Go
<1>4. at'[s] # "plan"
  BY DEF KnowledgeInv, TypeOK, Check, Scan, Decide, Go
<1>5. at'[s] \in {"verify", "check", "publish", "retire", "resume"} => job'[s] \in Recorded
  BY DEF KnowledgeInv, TypeOK, ServersInOrder, Check, Scan, Decide, Go, Open, Recorded
<1>6. crashes' \in Nat
  BY <1>1 DEF KnowledgeInv, TypeOK
<1> QED BY <1>1, <1>2, <1>3, <1>4, <1>5, <1>6, WalkInv

-----------------------------------------------------------------------------
(* Steps of the catalog.                                                   *)

\* What a change of the catalog must respect: a version that was active does
\* not wait again, and active pages change only when the epoch is retired.
LEMMA CatalogInv ==
    ASSUME KnowledgeInv, UNCHANGED <<op, plan, bound, recovered, serverVars>>, TypeOK',
           active' = None \/ (active' = active /\ ActivePages' = ActivePages),
           \A v \in Version :
               theory[v] \notin {"none", "prepared"} => theory'[v] \notin {"none", "prepared"},
           active' # None => \A p \in Page : page[p] = "prepared" => page'[p] = "prepared",
           ActivePages' \subseteq ActivePages,
           PagesAreBacked'
    PROVE  KnowledgeInv'
<1>1. Pending' = Pending /\ Recorded' = Recorded
  BY DEF Pending, Recorded
<1>2. UNCHANGED <<at, job, draft>>
  BY DEF serverVars
<1>3. \A d \in Plan : PlanInOrder(d) =>
        /\ d.expected # None => op'[d.expected] = "ACTIVE"
        /\ ~d.combined /\ TheoryOf[d.target] # 0 =>
               theory'[TheoryOf[d.target]] \notin {"none", "prepared"}
  BY PagesAreTyped DEF PlanInOrder
<1>4. active' # None => \A p \in Page : Governed(p)' = Governed(p)
  BY DEF Governed
<1>5. ASSUME NEW d \in Plan, PlanInOrder(d), AsDrafted(d)
      PROVE  PlanInOrder(d)' /\ AsDrafted(d)'
  <2>1. PlanInOrder(d)'
    BY <1>3, <1>5 DEF PlanInOrder
  <2>2. AsDrafted(d)'
    BY <1>4, <1>5 DEF PlanInOrder, AsDrafted
  <2> QED BY <2>1, <2>2
<1>6. PlansInOrder'
  <2>1. ASSUME NEW o \in Pending PROVE PlanInOrder(plan[o])' /\ AsDrafted(plan[o])'
    <3>1. plan[o] \in Plan /\ PlanInOrder(plan[o]) /\ AsDrafted(plan[o]) /\ plan' = plan
      BY DEF KnowledgeInv, PlansInOrder, PlanInOrder
    <3> QED BY <1>5, <3>1 DEF PlanInOrder, AsDrafted
  <2> QED BY <1>1, <2>1 DEF KnowledgeInv, PlansInOrder
<1>7. ServersInOrder'
  <2>1. ASSUME NEW s \in Server, at[s] = "plan"
        PROVE  PlanInOrder(draft[s])' /\ AsDrafted(draft[s])'
    <3>1. /\ draft[s] \in Plan /\ PlanInOrder(draft[s]) /\ AsDrafted(draft[s])
          /\ draft' = draft
      BY <1>2, <2>1 DEF KnowledgeInv, ServersInOrder, PlanInOrder
    <3> QED BY <1>5, <3>1 DEF PlanInOrder, AsDrafted
  <2> QED BY <1>1, <1>2, <2>1 DEF KnowledgeInv, ServersInOrder
<1>8. ActiveWasActivated' /\ PagesFit'
  BY DEF KnowledgeInv, ActiveWasActivated, PagesFit, Readers!Coherent
<1>9. ShownIsGoverned'
  <2>1. None \notin recovered
    BY NoneIsNothing DEF KnowledgeInv, TypeOK
  <2>2. CASE active' = None
    BY <2>1, <2>2 DEF ShownIsGoverned
  <2>3. CASE active' # None
    <3>1. active \in recovered => plan[active].target \in Page
      BY DEF KnowledgeInv, ActiveWasActivated
    <3> QED BY <1>4, <2>3, <3>1 DEF KnowledgeInv, ShownIsGoverned
  <2> QED BY <2>2, <2>3
<1> QED BY <1>6, <1>7, <1>8, <1>9 DEF KnowledgeInv

LEMMA ApproveInv ==
    ASSUME KnowledgeInv,
           (\E v \in Version : ApproveTheory(v)) \/ (\E p \in Page : ApprovePage(p))
    PROVE  KnowledgeInv'
<1>1. CASE \E v \in Version : ApproveTheory(v)
  <2> PICK v \in Version : ApproveTheory(v)
    BY <1>1
  <2>1. theory[v] = "none"
    BY PagesAreTyped DEF ApproveTheory
  <2>2. /\ theory' = [theory EXCEPT ![v] = "prepared"] /\ catalog' = catalog + 1
        /\ UNCHANGED <<page, revokedClaims, revocations, op, plan, bound, active,
                       recovered, serverVars, crashes>>
    BY DEF ApproveTheory, epochVars
  <2>3. TypeOK'
    BY <2>2 DEF KnowledgeInv, TypeOK, Status, serverVars, recoveryVars
  <2>4. ActivePages' = ActivePages
    BY <2>2 DEF ActivePages
  <2>5. PagesAreBacked'
    BY <2>1, <2>2, <2>4, PagesAreTyped DEF KnowledgeInv, TypeOK, PagesAreBacked, ActivePages
  <2> QED BY <2>1, <2>2, <2>3, <2>4, <2>5, CatalogInv DEF KnowledgeInv, TypeOK
<1>2. CASE \E p \in Page : ApprovePage(p)
  <2> PICK p \in Page : ApprovePage(p)
    BY <1>2
  <2>1. page[p] = "none"
    BY PagesAreTyped DEF ApprovePage
  <2>2. /\ page' = [page EXCEPT ![p] = "prepared"] /\ catalog' = catalog + 1
        /\ UNCHANGED <<theory, revokedClaims, revocations, op, plan, bound, active,
                       recovered, serverVars, crashes>>
    BY DEF ApprovePage, epochVars
  <2>3. TypeOK'
    BY <2>2 DEF KnowledgeInv, TypeOK, Status, serverVars, recoveryVars
  <2>4. ActivePages' = ActivePages
    BY <2>1, <2>2 DEF ActivePages, KnowledgeInv, TypeOK
  <2>5. PagesAreBacked'
    BY <2>2, <2>4 DEF KnowledgeInv, PagesAreBacked
  <2> QED BY <2>2, <2>3, <2>4, <2>5, CatalogInv
<1> QED BY <1>1, <1>2

LEMMA RevokeInv ==
    ASSUME KnowledgeInv,
           (\E v \in Version : RevokeTheory(v)) \/ (\E c \in Claim : RevokeClaim(c))
    PROVE  KnowledgeInv'
<1>1. CASE \E v \in Version : RevokeTheory(v)
  <2> PICK v \in Version : RevokeTheory(v)
    BY <1>1
  <2>1. /\ theory' = [theory EXCEPT ![v] = "revoked"]
        /\ active' = None /\ catalog' = catalog + 1 /\ revocations' = revocations + 1
        /\ page' = [p \in Page |-> IF Cites(p, v) /\ page[p] \in {"prepared", "active"}
                                   THEN "revoked" ELSE page[p]]
        /\ UNCHANGED <<revokedClaims, op, plan, bound, recovered, serverVars, crashes>>
    BY DEF RevokeTheory, Withdraw
  <2>2. TypeOK'
    BY <2>1 DEF KnowledgeInv, TypeOK, Status, serverVars, recoveryVars
  <2>3. ActivePages' = {p \in ActivePages : ~Cites(p, v)}
    BY <2>1 DEF ActivePages
  <2>4. PagesAreBacked'
    <3> SUFFICES ASSUME NEW p \in ActivePages, ~Cites(p, v)
                 PROVE  /\ Cited[p] # "nothing" => theory'[TheoryOf[p]] = "active"
                        /\ ClaimsOf[p] \cap revokedClaims = {}
      BY <2>1, <2>3 DEF PagesAreBacked
    <3>1. p \in Page /\ TheoryOf[p] \in Version \cup {0}
      BY PagesAreTyped DEF ActivePages
    <3>2. ASSUME Cited[p] # "nothing" PROVE theory'[TheoryOf[p]] = theory[TheoryOf[p]]
      <4>1. TheoryOf[p] # v /\ TheoryOf[p] \in Version
        BY <3>1, <3>2, PagesAreTyped DEF Cites
      <4> QED BY <2>1, <4>1 DEF KnowledgeInv, TypeOK
    <3> QED BY <3>2 DEF KnowledgeInv, PagesAreBacked
  <2> QED BY <2>1, <2>2, <2>3, <2>4, CatalogInv DEF KnowledgeInv, TypeOK
<1>2. CASE \E c \in Claim : RevokeClaim(c)
  <2> PICK c \in Claim : RevokeClaim(c)
    BY <1>2
  <2>1. /\ revokedClaims' = revokedClaims \cup {c}
        /\ active' = None /\ catalog' = catalog + 1 /\ revocations' = revocations + 1
        /\ page' = [p \in Page |-> IF c \in ClaimsOf[p] /\ page[p] \in {"prepared", "active"}
                                   THEN "revoked" ELSE page[p]]
        /\ UNCHANGED <<theory, op, plan, bound, recovered, serverVars, crashes>>
    BY DEF RevokeClaim, Withdraw
  <2>2. TypeOK'
    BY <2>1 DEF KnowledgeInv, TypeOK, Status, serverVars, recoveryVars
  <2>3. ActivePages' = {p \in ActivePages : c \notin ClaimsOf[p]}
    BY <2>1 DEF ActivePages
  <2>4. PagesAreBacked'
    BY <2>1, <2>3 DEF KnowledgeInv, PagesAreBacked
  <2> QED BY <2>1, <2>2, <2>3, <2>4, CatalogInv
<1> QED BY <1>1, <1>2

-----------------------------------------------------------------------------
(* Steps of an operation that leave rows and epoch alone.                  *)

LEMMA OperationInv ==
    ASSUME KnowledgeInv, UNCHANGED <<authorityVars, active, recovered>>, TypeOK',
           NEW s \in Server, NEW o \in Operation,
           \A q \in Operation \ {o} : op'[q] = op[q] /\ plan'[q] = plan[q],
           op[o] # "ACTIVE", op'[o] # "none", o \in Recorded => o \in Recorded',
           plan'[o] \in Plan, Readers!Coherent(plan'[o].closure),
           o \in Pending' => PlanInOrder(plan'[o]) /\ AsDrafted(plan'[o]),
           \A r \in Server \ {s} : at'[r] = at[r] /\ job'[r] = job[r] /\ draft'[r] = draft[r],
           at'[s] # "plan",
           at'[s] \in {"verify", "check", "publish", "retire", "resume"} => job'[s] \in Recorded'
    PROVE  KnowledgeInv'
<1>1. UNCHANGED <<page, theory, revokedClaims, catalog, revocations, active, recovered>>
  BY DEF authorityVars, rowVars
<1>2. ActivePages' = ActivePages
  BY <1>1 DEF ActivePages
<1>3. Recorded \subseteq Recorded' /\ Pending' \subseteq Pending \cup {o}
  BY DEF Recorded, Pending
<1>4. \A q \in Operation : op[q] = "ACTIVE" => op'[q] = "ACTIVE"
  OBVIOUS
<1>5. \A d \in Plan : d.expected # None => d.expected \in Operation
  BY DEF Plan
<1>6. PlansInOrder'
  <2>1. ASSUME NEW q \in Pending' PROVE PlanInOrder(plan[q])' /\ AsDrafted(plan[q])'
    <3>1. PlanInOrder(plan'[q]) /\ AsDrafted(plan'[q])
      BY <1>3 DEF KnowledgeInv, PlansInOrder, Pending
    <3> QED BY <1>1, <1>2, <1>4, <1>5, <3>1 DEF PlanInOrder, AsDrafted, Governed
  <2>2. ASSUME NEW q \in Operation, op'[q] # "none"
        PROVE  plan'[q] \in Plan /\ Readers!Coherent(plan'[q].closure)
    BY <2>2 DEF KnowledgeInv, PlansInOrder
  <2> QED BY <2>1, <2>2 DEF PlansInOrder
<1>7. ServersInOrder'
  <2> SUFFICES ASSUME NEW r \in Server
               PROVE  /\ at'[r] = "plan" => PlanInOrder(draft[r])' /\ AsDrafted(draft[r])'
                      /\ at'[r] \in {"verify", "check", "publish", "retire", "resume"} =>
                             job'[r] \in Recorded'
    BY DEF ServersInOrder
  <2>1. CASE r = s
    BY <2>1
  <2>2. CASE r # s
    BY <1>1, <1>2, <1>3, <1>4, <1>5, <2>2
       DEF KnowledgeInv, ServersInOrder, PlanInOrder, AsDrafted, Governed
  <2> QED BY <2>1, <2>2
<1>8. /\ ActiveWasActivated'
      /\ active # None => plan'[active] = plan[active]
  BY <1>1, <1>4 DEF KnowledgeInv, TypeOK, ActiveWasActivated
<1>9. ShownIsGoverned' /\ PagesAreBacked' /\ PagesFit'
  <2>1. None \notin recovered
    BY NoneIsNothing DEF KnowledgeInv, TypeOK
  <2> QED BY <1>1, <1>2, <1>8, <2>1
             DEF KnowledgeInv, ShownIsGoverned, Governed, PagesAreBacked, PagesFit
<1> QED BY <1>6, <1>7, <1>8, <1>9 DEF KnowledgeInv

LEMMA FixInv ==
    ASSUME KnowledgeInv, NEW s \in Server, NEW o \in Operation, Fix(s, o)
    PROVE  KnowledgeInv'
<1> DEFINE d == [draft[s] EXCEPT !.catalog = catalog]
<1>1. PlanInOrder(draft[s]) /\ AsDrafted(draft[s])
  BY DEF KnowledgeInv, ServersInOrder, Fix
<1>2. d \in Plan /\ PlanInOrder(d) /\ AsDrafted(d) /\ Readers!Coherent(d.closure)
  BY <1>1 DEF PlanInOrder, AsDrafted, Plan, KnowledgeInv, TypeOK
<1>3. /\ op' = [op EXCEPT ![o] = "planned"] /\ plan' = [plan EXCEPT ![o] = d]
      /\ op[o] = "none" /\ Leave(s, "idle")
      /\ UNCHANGED <<authorityVars, bound, active, recovered, crashes>>
  BY DEF Fix
<1> HIDE DEF d
<1>4. TypeOK'
  BY <1>2, <1>3 DEF KnowledgeInv, TypeOK, Leave, Go, authorityVars, rowVars
<1>5. /\ at'[s] = "idle" /\ plan'[o] = d
      /\ \A r \in Server \ {s} : at'[r] = at[r] /\ job'[r] = job[r] /\ draft'[r] = draft[r]
  BY <1>3 DEF KnowledgeInv, TypeOK, Leave, Go
<1>6. \A q \in Operation \ {o} : op'[q] = op[q] /\ plan'[q] = plan[q]
  BY <1>3 DEF KnowledgeInv, TypeOK
<1>7. op[o] # "ACTIVE" /\ op'[o] # "none" /\ o \notin Recorded
  BY <1>3 DEF KnowledgeInv, TypeOK, Recorded
<1> QED BY <1>2, <1>3, <1>4, <1>5, <1>6, <1>7, OperationInv

LEMMA ExecutionInv ==
    ASSUME KnowledgeInv, NEW s \in Server,
           (\E o \in Operation : Execute(s, o)) \/ Verify(s) \/ Retire(s)
    PROVE  KnowledgeInv'
<1>1. PICK o \in Pending : /\ job'[s] = o \/ (at'[s] = "recover" /\ job'[s] = None)
                           /\ \A q \in Operation \ {o} : op'[q] = op[q]
                           /\ op'[o] \in {"PREPARED", "VERIFIED", "FAILED"}
  <2>1. CASE \E o \in Operation : Execute(s, o)
    BY <2>1 DEF KnowledgeInv, TypeOK, Execute, Pending
  <2>2. CASE Verify(s)
    BY <2>2 DEF KnowledgeInv, TypeOK, Verify, Open, Pending
  <2>3. CASE Retire(s)
    BY <2>3 DEF KnowledgeInv, TypeOK, Retire, Resolved, Go, Open, Pending
  <2> QED BY <2>1, <2>2, <2>3
<1>2. /\ UNCHANGED <<authorityVars, plan, active, recovered, draft>>
      /\ \A r \in Server \ {s} : at'[r] = at[r] /\ job'[r] = job[r]
      /\ at'[s] # "plan"
  BY DEF KnowledgeInv, TypeOK, Execute, Verify, Retire, Resolved, Go
<1>3. TypeOK'
  <2> USE DEF KnowledgeInv, TypeOK, Go, authorityVars, rowVars, recoveryVars
  <2>1. CASE \E p \in Operation : Execute(s, p)
    BY <2>1 DEF Execute
  <2>2. CASE Verify(s)
    BY <2>2 DEF Verify, Open
  <2>3. CASE Retire(s)
    BY <2>3 DEF Retire, Resolved, Open
  <2> QED BY <2>1, <2>2, <2>3
<1>4. /\ plan'[o] \in Plan /\ PlanInOrder(plan'[o]) /\ AsDrafted(plan'[o])
      /\ Readers!Coherent(plan'[o].closure)
  BY <1>2 DEF KnowledgeInv, PlansInOrder, PlanInOrder
<1>5. o \in Operation /\ op[o] # "ACTIVE" /\ op'[o] # "none" /\ o \in Recorded'
  BY <1>1 DEF Pending, Recorded
<1>6. at'[s] \in {"verify", "check", "publish", "retire", "resume"} => job'[s] \in Recorded'
  BY <1>1, <1>5
<1>7. \A q \in Operation \ {o} : op'[q] = op[q] /\ plan'[q] = plan[q]
  BY <1>1, <1>2
<1>8. \A r \in Server \ {s} : at'[r] = at[r] /\ job'[r] = job[r] /\ draft'[r] = draft[r]
  BY <1>2
<1> QED BY <1>2, <1>3, <1>4, <1>5, <1>6, <1>7, <1>8, OperationInv

-----------------------------------------------------------------------------
(* Steps that switch the epoch.                                            *)

\* No plan expects the operation that is activated now, so the new epoch owes
\* the others nothing.
LEMMA ActivationInv ==
    ASSUME KnowledgeInv, NEW o \in Operation, op[o] # "ACTIVE", Activate(o),
           \A q \in Operation \ {o} : plan'[q] = plan[q],
           plan'[o] \in Plan, TypeOK', Readers!Coherent(plan'[o].closure), PagesFit',
           recovered' = recovered \/ (recovered' = recovered \cup {o} /\ plan'[o].target \in Page),
           ShownIsGoverned',
           \A v \in Version :
               theory[v] \notin {"none", "prepared"} => theory'[v] \notin {"none", "prepared"},
           PagesAreBacked',
           \A r \in Server : at'[r] = "plan" => at[r] = "plan" /\ draft'[r] = draft[r],
           \A r \in Server :
               at'[r] \in {"verify", "check", "publish", "retire", "resume"} =>
                   /\ at[r] \in {"verify", "check", "publish", "retire", "resume"}
                   /\ job'[r] = job[r]
    PROVE  KnowledgeInv'
<1>1. op' = [op EXCEPT ![o] = "ACTIVE"] /\ active' = o /\ o # None
  BY NoneIsNothing DEF Activate
<1>2. op'[o] = "ACTIVE" /\ \A q \in Operation \ {o} : op'[q] = op[q]
  BY <1>1 DEF KnowledgeInv, TypeOK
<1>3. \A d \in Plan : d.expected \in Operation \cup {None}
  BY DEF Plan
<1>4. ASSUME NEW d, PlanInOrder(d)
      PROVE  /\ d.expected # active'
             /\ d.expected # None => op'[d.expected] = "ACTIVE"
             /\ ~d.combined /\ TheoryOf[d.target] # 0 =>
                    theory'[TheoryOf[d.target]] \notin {"none", "prepared"}
  <2>1. d.expected # o
    BY <1>1, <1>4 DEF PlanInOrder
  <2>2. d.expected # None => op'[d.expected] = "ACTIVE"
    BY <1>2, <1>3, <1>4 DEF PlanInOrder
  <2>3. ~d.combined /\ TheoryOf[d.target] # 0 =>
            theory'[TheoryOf[d.target]] \notin {"none", "prepared"}
    BY <1>4, PagesAreTyped DEF PlanInOrder
  <2> QED BY <1>1, <2>1, <2>2, <2>3
<1>5. PlansInOrder'
  <2>1. ASSUME NEW q \in Pending' PROVE PlanInOrder(plan[q])' /\ AsDrafted(plan[q])'
    <3>1. q \in Operation \ {o} /\ q \in Pending /\ plan'[q] = plan[q]
      BY <1>2 DEF Pending
    <3>2. PlanInOrder(plan[q])
      BY <3>1 DEF KnowledgeInv, PlansInOrder
    <3> QED BY <1>4, <3>1, <3>2 DEF PlanInOrder, AsDrafted
  <2>2. ASSUME NEW q \in Operation, op'[q] # "none"
        PROVE  plan'[q] \in Plan /\ Readers!Coherent(plan'[q].closure)
    BY <1>2, <2>2 DEF KnowledgeInv, PlansInOrder
  <2> QED BY <2>1, <2>2 DEF PlansInOrder
<1>6. ServersInOrder'
  <2> SUFFICES ASSUME NEW r \in Server
               PROVE  /\ at'[r] = "plan" => PlanInOrder(draft[r])' /\ AsDrafted(draft[r])'
                      /\ at'[r] \in {"verify", "check", "publish", "retire", "resume"} =>
                             job'[r] \in Recorded'
    BY DEF ServersInOrder
  <2>1. ASSUME at'[r] = "plan" PROVE PlanInOrder(draft[r])' /\ AsDrafted(draft[r])'
    <3>1. PlanInOrder(draft[r]) /\ draft'[r] = draft[r]
      BY <2>1 DEF KnowledgeInv, ServersInOrder
    <3> QED BY <1>4, <3>1 DEF PlanInOrder, AsDrafted
  <2>2. Recorded \subseteq Recorded'
    BY <1>2 DEF Recorded
  <2>3. ASSUME at'[r] \in {"verify", "check", "publish", "retire", "resume"}
        PROVE  job'[r] \in Recorded'
    BY <2>2, <2>3 DEF KnowledgeInv, ServersInOrder
  <2> QED BY <2>1, <2>3
<1>7. ActiveWasActivated'
  BY <1>1, <1>2 DEF KnowledgeInv, TypeOK, ActiveWasActivated
<1> QED BY <1>5, <1>6, <1>7 DEF KnowledgeInv

\* What a publication shows is the closure that it checked.
LEMMA PublishShows ==
    ASSUME KnowledgeInv, NEW s \in Server, Publish(s)
    PROVE  /\ job[s] \in Pending /\ PlanInOrder(plan[job[s]])
           /\ plan[job[s]].closure = Governed(plan[job[s]].target)
           /\ ActivePages' = Governed(plan[job[s]].target)
           /\ Governable(Governed(plan[job[s]].target))
           /\ Readers!Coherent(Governed(plan[job[s]].target))
           /\ job[s] \notin recovered
<1>1. at[s] = "publish" /\ Current(job[s]) /\ Turn(plan[job[s]])
  BY DEF Publish
<1>2. job[s] \in Pending
  BY <1>1 DEF KnowledgeInv, ServersInOrder, Recorded, Current, Pending
<1>3. PlanInOrder(plan[job[s]])
  BY <1>2 DEF KnowledgeInv, PlansInOrder
<1>4. plan[job[s]].closure = Governed(plan[job[s]].target) /\ Governable(plan[job[s]].closure)
  BY <1>1 DEF Current, Confirmed, ListsGoverned
<1>5. ActivePages' = Governed(plan[job[s]].target)
  BY <1>1, <1>3 DEF ActivePages, Governed, Turn, PlanInOrder
<1>6. Readers!Coherent(Governed(plan[job[s]].target))
  BY <1>3, <1>4 DEF PlanInOrder
<1>7. job[s] \notin recovered
  BY <1>2 DEF Pending, KnowledgeInv, ActiveWasActivated
<1> QED BY <1>2, <1>3, <1>4, <1>5, <1>6, <1>7

LEMMA PublishInv ==
    ASSUME KnowledgeInv, NEW s \in Server, Publish(s)
    PROVE  KnowledgeInv'
<1> DEFINE o == job[s]
           d == plan[o]
<1>1. /\ o \in Pending /\ PlanInOrder(d) /\ d.closure = Governed(d.target)
      /\ ActivePages' = Governed(d.target) /\ Governable(Governed(d.target))
  BY PublishShows
<1>2. o \in Operation /\ op[o] # "ACTIVE" /\ d \in Plan /\ d.target \in Page
  BY <1>1 DEF Pending, PlanInOrder
<1>3. /\ Turn(d) /\ Activate(o) /\ Leave(s, "idle")
      /\ UNCHANGED <<revokedClaims, catalog, revocations, plan, bound, recovered, crashes>>
  BY DEF Publish
<1> HIDE DEF o, d
<1>4. d = plan[o]
  BY DEF d, o
<1>5. page' \in [Page -> Status] /\ theory' \in [Version -> Status]
  <2>1. \A p \in Page : page[p] \in Status
    BY DEF KnowledgeInv, TypeOK
  <2>2. \A v \in Version : theory[v] \in Status
    BY DEF KnowledgeInv, TypeOK
  <2>3. "active" \in Status /\ "superseded" \in Status
    BY DEF Status
  <2>4. page' \in [Page -> Status]
    BY <1>3, <2>1, <2>3 DEF Turn
  <2>5. theory' \in [Version -> Status]
    BY <1>3, <2>2, <2>3 DEF Turn, KnowledgeInv, TypeOK
  <2> QED BY <2>4, <2>5
<1>6. TypeOK'
  BY <1>2, <1>3, <1>5 DEF KnowledgeInv, TypeOK, Activate, Leave, Go
<1>7. ASSUME NEW v \in Version, theory[v] \notin {"none", "prepared"}
      PROVE  theory'[v] \notin {"none", "prepared"}
  BY <1>3, <1>7 DEF Turn
<1>8. PagesAreBacked'
  <2> SUFFICES ASSUME NEW p \in Governed(d.target)
               PROVE  /\ Cited[p] # "nothing" => theory'[TheoryOf[p]] = "active"
                      /\ ClaimsOf[p] \cap revokedClaims = {}
    BY <1>1, <1>3 DEF PagesAreBacked
  <2>1. p \in Page /\ d.target \in Governed(d.target)
    BY <1>2 DEF Governed, ActivePages
  <2>2. Supported(p) /\ Supported(d.target) /\ OneVersion(Governed(d.target))
    BY <1>1, <2>1 DEF Governable
  <2>3. ASSUME Cited[p] # "nothing", d.combined PROVE theory'[TheoryOf[p]] = "active"
    <3>1. TheoryOf[p] = TheoryOf[d.target] /\ TheoryOf[p] \in Version
      BY <1>1, <2>1, <2>2, <2>3, PagesAreTyped DEF OneVersion, PlanInOrder
    <3> QED BY <1>3, <2>3, <3>1 DEF Turn
  <2>4. ASSUME Cited[p] # "nothing", ~d.combined PROVE theory'[TheoryOf[p]] = "active"
    <3>1. theory' = theory
      BY <1>3, <2>4 DEF Turn
    <3>2. CASE p = d.target
      BY <1>1, <2>1, <2>2, <2>4, <3>1, <3>2, PagesAreTyped DEF PlanInOrder, Supported
    <3>3. CASE p \in ActivePages
      BY <2>4, <3>1, <3>3 DEF KnowledgeInv, PagesAreBacked
    <3> QED BY <3>2, <3>3 DEF Governed
  <2> QED BY <2>2, <2>3, <2>4 DEF Supported
<1>9. /\ \A r \in Server : at'[r] = "plan" => at[r] = "plan" /\ draft'[r] = draft[r]
      /\ \A r \in Server :
            at'[r] \in {"verify", "check", "publish", "retire", "resume"} =>
                /\ at[r] \in {"verify", "check", "publish", "retire", "resume"}
                /\ job'[r] = job[r]
  BY <1>3 DEF KnowledgeInv, TypeOK, Leave, Go
<1>10. plan' = plan
  BY <1>3
<1>11. /\ plan'[o].closure = ActivePages' /\ plan'[o] \in Plan
       /\ Readers!Coherent(plan'[o].closure) /\ PagesFit'
  BY <1>1, <1>2, <1>4, <1>10, PublishShows DEF PagesFit, o, d
<1>12. ShownIsGoverned' /\ recovered' = recovered
  BY <1>3, <1>11, PublishShows DEF ShownIsGoverned, Activate, o
<1> QED BY <1>2, <1>3, <1>6, <1>7, <1>8, <1>9, <1>10, <1>11, <1>12, ActivationInv

LEMMA RebuildInv ==
    ASSUME KnowledgeInv, NEW o \in Operation, Rebuild(o)
    PROVE  KnowledgeInv'
<1>1. /\ op[o] = "none" /\ plan' = [plan EXCEPT ![o] = Rebuilt] /\ Activate(o)
      /\ bound' = [bound EXCEPT ![o] = revocations]
      /\ UNCHANGED <<page, theory, revokedClaims, catalog, revocations, recovered,
                     serverVars, crashes>>
  BY DEF Rebuild, authorityVars, rowVars
<1>2. Rebuilt \in Plan /\ Rebuilt.closure = ActivePages
  BY DEF Rebuilt, Plan, ActivePages, KnowledgeInv, TypeOK
<1>3. plan'[o] = Rebuilt /\ \A q \in Operation \ {o} : plan'[q] = plan[q]
  BY <1>1 DEF KnowledgeInv, TypeOK
<1>4. ActivePages' = ActivePages
  BY <1>1 DEF ActivePages
<1>5. TypeOK'
  BY <1>1, <1>2 DEF KnowledgeInv, TypeOK, Activate, serverVars, recoveryVars
<1>6. PagesAreBacked'
  BY <1>1, <1>4 DEF KnowledgeInv, PagesAreBacked
<1>7. at' = at /\ job' = job /\ draft' = draft
  BY <1>1 DEF serverVars
<1>8. Readers!Coherent(plan'[o].closure) /\ PagesFit'
  BY <1>2, <1>3, <1>4 DEF KnowledgeInv, PagesFit
<1>9. o \notin recovered
  BY <1>1 DEF KnowledgeInv, ActiveWasActivated
<1>10. ShownIsGoverned'
  BY <1>1, <1>2, <1>3, <1>4, <1>9 DEF ShownIsGoverned, Activate
<1> QED BY <1>1, <1>2, <1>3, <1>5, <1>6, <1>7, <1>8, <1>10, ActivationInv

\* A resumed operation is one that was pending, or was activated meanwhile.
LEMMA ResumeInv ==
    ASSUME KnowledgeInv, NEW s \in Server, Resume(s)
    PROVE  KnowledgeInv'
<1> DEFINE o == job[s]
<1>1. UNCHANGED <<authorityVars, plan, bound, draft, seen, healthy, crashes>>
  BY DEF Resume
<1>2. /\ UNCHANGED <<page, theory, revokedClaims, catalog, revocations>>
      /\ ActivePages' = ActivePages
  BY <1>1 DEF authorityVars, rowVars, ActivePages
<1>3. /\ at' = [at EXCEPT ![s] = "recover"] /\ job' = [job EXCEPT ![s] = None]
      /\ todo' = [todo EXCEPT ![s] = @ \ {o}]
  BY DEF Resume, Resolved, Go
<1>4. CASE o \in Open /\ Activate(o) /\ recovered' = recovered \cup {o}
  <2>1. o \in Operation /\ op[o] # "ACTIVE" /\ op[o] # "none"
    BY <1>4 DEF Open
  <2>2. plan'[o] \in Plan /\ Readers!Coherent(plan'[o].closure) /\ PagesFit'
    BY <1>1, <1>2, <2>1 DEF KnowledgeInv, PlansInOrder, PagesFit
  <2>3. TypeOK'
    BY <1>1, <1>2, <1>3, <1>4, <2>1 DEF KnowledgeInv, TypeOK, Activate
  <2>4. PagesAreBacked'
    BY <1>2 DEF KnowledgeInv, PagesAreBacked
  <2>5. /\ \A r \in Server : at'[r] = "plan" => at[r] = "plan" /\ draft'[r] = draft[r]
        /\ \A r \in Server :
              at'[r] \in {"verify", "check", "publish", "retire", "resume"} =>
                  /\ at[r] \in {"verify", "check", "publish", "retire", "resume"}
                  /\ job'[r] = job[r]
    BY <1>1, <1>3 DEF KnowledgeInv, TypeOK
  <2>6. PlanInOrder(plan[o]) /\ AsDrafted(plan[o])
    BY <1>4 DEF KnowledgeInv, PlansInOrder, Open, Pending
  <2>7. active = plan[o].expected
    BY <1>4, <2>1 DEF Resume
  <2> HIDE DEF o
  <2>8. /\ recovered' = recovered \cup {o} /\ plan'[o].target \in Page
        /\ plan' = plan /\ theory' = theory /\ active' = o
    BY <1>1, <1>2, <1>4, <2>6 DEF Activate, PlanInOrder
  <2>9. ShownIsGoverned'
    BY <1>2, <2>6, <2>7, <2>8 DEF ShownIsGoverned, AsDrafted, Governed
  <2> QED BY <1>4, <2>1, <2>2, <2>3, <2>4, <2>5, <2>8, <2>9, ActivationInv
<1>5. CASE UNCHANGED <<op, active, recovered>>
  <2>1. UNCHANGED <<authorityVars, epochVars>>
    BY <1>1, <1>5 DEF epochVars
  <2>2. TypeOK'
    BY <1>1, <1>2, <1>3, <1>5 DEF KnowledgeInv, TypeOK
  <2>3. /\ at'[s] = "recover" /\ crashes' \in Nat
        /\ \A r \in Server \ {s} : at'[r] = at[r] /\ job'[r] = job[r] /\ draft'[r] = draft[r]
    BY <1>1, <1>3 DEF KnowledgeInv, TypeOK
  <2> QED BY <2>1, <2>2, <2>3, WalkInv
<1> QED BY <1>4, <1>5 DEF Resume

-----------------------------------------------------------------------------
(* The theorems.                                                           *)

LEMMA KnowledgeInvNext == KnowledgeInv /\ [Next]_vars => KnowledgeInv'
<1> SUFFICES ASSUME KnowledgeInv, [Next]_vars PROVE KnowledgeInv'
  OBVIOUS
<1>1. CASE UNCHANGED vars
  <2>1. UNCHANGED <<page, theory, revokedClaims, catalog, revocations, op, plan, bound,
                    active, recovered, at, job, draft, todo, seen, healthy, crashes>>
    BY <1>1 DEF vars, authorityVars, rowVars, epochVars, serverVars, recoveryVars
  <2>2. UNCHANGED <<authorityVars, epochVars>>
    BY <1>1 DEF vars
  <2>3. TypeOK'
    BY <2>1 DEF KnowledgeInv, TypeOK
  <2>4. ServersInOrder'
    BY <2>1, <2>2, DataStays DEF KnowledgeInv, ServersInOrder, PlanInOrder, AsDrafted,
                                 Governed
  <2> QED BY <2>2, <2>3, <2>4, DataStays DEF KnowledgeInv
<1>2. CASE CatalogStep
  BY <1>2, ApproveInv, RevokeInv DEF CatalogStep
<1>3. ASSUME NEW s \in Server, PublicationStep(s) PROVE KnowledgeInv'
  BY <1>3, DraftInv, FixInv, ExecutionInv, StepInv, PublishInv, LeaveInv DEF PublicationStep
<1>4. ASSUME NEW s \in Server, RecoveryStep(s) PROVE KnowledgeInv'
  BY <1>4, StepInv, ExecutionInv, ResumeInv, LeaveInv DEF RecoveryStep
<1>5. ASSUME NEW s \in Server, Crash(s) PROVE KnowledgeInv'
  BY <1>5, LeaveInv
<1>6. ASSUME NEW o \in Operation, Rebuild(o) PROVE KnowledgeInv'
  BY <1>6, RebuildInv
<1> QED BY <1>1, <1>2, <1>3, <1>4, <1>5, <1>6 DEF Next

\* The invariant holds in every state, whatever the pages and operations.
THEOREM KnowledgeInvariant == Spec => []KnowledgeInv
<1>1. Init => KnowledgeInv
  BY KnowledgeInvInit
<1>2. KnowledgeInv /\ [Next]_vars => KnowledgeInv'
  BY KnowledgeInvNext
<1> QED BY <1>1, <1>2, PTL DEF Spec

\* Unless recovery switched it, the active epoch shows exactly the pages that
\* the catalog calls active (the publication switches both at once).
THEOREM KnowledgeShown == Spec => []ShownIsGoverned
<1>1. KnowledgeInv => ShownIsGoverned
  BY DEF KnowledgeInv
<1> QED BY <1>1, KnowledgeInvariant, PTL

\* What active pages cite of the theory belongs to its active version, and no
\* claim they cite is revoked, in whatever order versions and pages were
\* approved, published and revoked.
THEOREM KnowledgeBacked == Spec => []PagesAreBacked
<1>1. KnowledgeInv => PagesAreBacked
  BY DEF KnowledgeInv
<1> QED BY <1>1, KnowledgeInvariant, PTL

StaysNow ==
    active # None /\ active \notin recovered /\ revocations' = revocations =>
        /\ active' # None
        /\ \A p \in plan[active].closure :
             \E q \in plan'[active'].closure : WikiOf[q] = WikiOf[p]

\* A step that leaves the epoch and the plan of the active operation alone.
LEMMA QuietStay ==
    ASSUME active' = active, active # None => plan'[active] = plan[active]
    PROVE  StaysNow
  BY DEF StaysNow

LEMMA PublicationStays ==
    ASSUME KnowledgeInv, NEW s \in Server, PublicationStep(s)
    PROVE  StaysNow
<1>1. ASSUME NEW p \in Page, Draft(s, p) PROVE StaysNow
  BY <1>1, QuietStay DEF Draft, epochVars
<1>2. ASSUME NEW o \in Operation, Fix(s, o) PROVE StaysNow
  <2>1. active' = active /\ plan' = [plan EXCEPT ![o] = [draft[s] EXCEPT !.catalog = catalog]]
        /\ op[o] = "none"
    BY <1>2 DEF Fix
  <2>2. active # None => active # o /\ active \in Operation
    BY <2>1 DEF KnowledgeInv, TypeOK, ActiveWasActivated
  <2>3. active # None => plan'[active] = plan[active]
    BY <2>1, <2>2 DEF KnowledgeInv, TypeOK
  <2> QED BY <2>1, <2>3, QuietStay
<1>3. ASSUME NEW o \in Operation, Execute(s, o) PROVE StaysNow
  BY <1>3, QuietStay DEF Execute
<1>4. CASE Verify(s) \/ Check(s) \/ GiveUp(s)
  BY <1>4, QuietStay DEF Verify, Check, GiveUp, epochVars
<1>5. CASE Publish(s)
  <2>1. /\ job[s] \in Operation /\ plan[job[s]].target \in Page
        /\ plan[job[s]].closure = Governed(plan[job[s]].target)
    BY <1>5, PublishShows DEF Pending, PlanInOrder
  <2>2. active' = job[s] /\ plan' = plan
    BY <1>5 DEF Publish, Activate
  <2>3. job[s] # None
    BY <2>1, NoneIsNothing
  <2>4. active # None /\ active \notin recovered => plan[active].closure = ActivePages
    BY DEF KnowledgeInv, ShownIsGoverned
  <2>5. \A p \in ActivePages :
            \E q \in Governed(plan[job[s]].target) : WikiOf[q] = WikiOf[p]
    BY DEF Governed
  <2> QED BY <2>1, <2>2, <2>3, <2>4, <2>5 DEF StaysNow
<1> QED BY <1>1, <1>2, <1>3, <1>4, <1>5 DEF PublicationStep

LEMMA RecoveryStays ==
    ASSUME KnowledgeInv, NEW s \in Server, RecoveryStep(s)
    PROVE  StaysNow
<1>1. ASSUME NEW o \in Operation, Decide(s, o) PROVE StaysNow
  BY <1>1, QuietStay DEF Decide, epochVars
<1>2. CASE Scan(s) \/ Retire(s) \/ Blocked(s) \/ Serve(s)
  BY <1>2, QuietStay DEF Scan, Retire, Blocked, Serve, epochVars
<1>3. CASE Resume(s)
  <2>1. plan' = plan
    BY <1>3 DEF Resume
  <2>2. CASE active' = active
    BY <2>1, <2>2, QuietStay
  <2>3. CASE job[s] \in Open /\ active = plan[job[s]].expected /\ active' = job[s]
    <3>1. job[s] # None /\ job[s] \in Pending
      BY <2>3, NoneIsNothing DEF Open, Pending
    <3>2. AsDrafted(plan[job[s]])
      BY <3>1 DEF KnowledgeInv, PlansInOrder
    <3>3. active # None /\ active \notin recovered => plan[active].closure = ActivePages
      BY DEF KnowledgeInv, ShownIsGoverned
    <3> QED BY <2>1, <2>3, <3>1, <3>2, <3>3 DEF AsDrafted, Governed, StaysNow
  <2> QED BY <1>3, <2>2, <2>3 DEF Resume, Activate
<1> QED BY <1>1, <1>2, <1>3 DEF RecoveryStep

\* Publications, rebuilds and recoveries that race take no wiki from the
\* readers: only a revocation empties the epoch.
THEOREM KnowledgeStays == Spec => PagesStay
<1>1. KnowledgeInv /\ [Next]_vars => StaysNow
  <2> SUFFICES ASSUME KnowledgeInv, [Next]_vars PROVE StaysNow
    OBVIOUS
  <2>1. CASE UNCHANGED vars
    BY <2>1, QuietStay DEF vars, epochVars
  <2>2. CASE CatalogStep
    <3>1. ASSUME NEW v \in Version, ApproveTheory(v) PROVE StaysNow
      BY <3>1, QuietStay DEF ApproveTheory, epochVars
    <3>2. ASSUME NEW p \in Page, ApprovePage(p) PROVE StaysNow
      BY <3>2, QuietStay DEF ApprovePage, epochVars
    <3>3. ASSUME NEW S, Withdraw(S) PROVE StaysNow
      BY <3>3 DEF Withdraw, StaysNow, KnowledgeInv, TypeOK
    <3> QED BY <2>2, <3>1, <3>2, <3>3 DEF CatalogStep, RevokeTheory, RevokeClaim
  <2>3. ASSUME NEW s \in Server, PublicationStep(s) PROVE StaysNow
    BY <2>3, PublicationStays
  <2>4. ASSUME NEW s \in Server, RecoveryStep(s) PROVE StaysNow
    BY <2>4, RecoveryStays
  <2>5. ASSUME NEW s \in Server, Crash(s) PROVE StaysNow
    BY <2>5, QuietStay DEF Crash, epochVars
  <2>6. ASSUME NEW o \in Operation, Rebuild(o) PROVE StaysNow
    <3>1. active' = o /\ plan'[o] = Rebuilt /\ o # None
      BY <2>6, NoneIsNothing DEF Rebuild, Activate, KnowledgeInv, TypeOK
    <3>2. active # None /\ active \notin recovered => plan[active].closure = ActivePages
      BY DEF KnowledgeInv, ShownIsGoverned
    <3> QED BY <3>1, <3>2 DEF StaysNow, Rebuilt
  <2> QED BY <2>1, <2>2, <2>3, <2>4, <2>5, <2>6 DEF Next
<1>2. KnowledgeInv /\ [Next]_vars =>
        (active # None /\ active \notin recovered /\ revocations' = revocations =>
            /\ active' # None
            /\ \A p \in plan[active].closure :
                 \E q \in plan'[active'].closure : WikiOf[q] = WikiOf[p])
  BY <1>1 DEF StaysNow
<1> QED BY <1>2, KnowledgeInvariant, PTL DEF Spec, PagesStay

-----------------------------------------------------------------------------
(* What is retired is not shown.                                           *)

\* Nothing that was replaced or revoked is shown, in whatever order servers
\* published, rebuilt, revoked and recovered; the one way back is a recovery
\* that completes a publication planned when nothing was shown.
THEOREM RetiredIsHidden ==
    Spec => [](active # None /\ (active \in recovered => plan[active].expected # None)
                   => Shown \cap Retired = {})
<1>1. KnowledgeInv =>
        (active # None /\ (active \in recovered => plan[active].expected # None)
             => Shown \cap Retired = {})
  <2> SUFFICES ASSUME KnowledgeInv, active # None,
                      active \in recovered => plan[active].expected # None,
                      NEW p \in Shown
               PROVE  p \notin Retired
    OBVIOUS
  <2>1. CASE active \notin recovered
    BY <2>1 DEF KnowledgeInv, ShownIsGoverned, Shown, ActivePages, Retired
  <2>2. CASE active \in recovered
    BY <2>2 DEF KnowledgeInv, ShownIsGoverned, Shown, ActivePages, Governed, Retired
  <2> QED BY <2>1, <2>2
<1> QED BY <1>1, KnowledgeInvariant, PTL

-----------------------------------------------------------------------------
(* The refinement.                                                         *)

Unseen ==
    /\ ActivePages' = ActivePages /\ Retired' = Retired
    /\ (active' # None) = (active # None) /\ Shown' = Shown

\* Steps that readers do not see: rows at most become prepared, and the epoch
\* and its plan stay.
LEMMA StepIsUnseen ==
    ASSUME active' = active, active # None => plan'[active] = plan[active],
           \A p \in Page :
               page'[p] = page[p] \/ (page[p] = "none" /\ page'[p] = "prepared")
    PROVE  Unseen
<1>1. ActivePages' = ActivePages
  BY DEF ActivePages
<1>2. Retired' = Retired
  BY DEF Retired
<1>3. Shown' = Shown
  BY DEF Shown
<1> QED BY <1>1, <1>2, <1>3 DEF Unseen

LEMMA CatalogRefines ==
    ASSUME KnowledgeInv, CatalogStep
    PROVE  Readers!Next \/ Unseen
<1>1. ASSUME NEW v \in Version, ApproveTheory(v) PROVE Unseen
  BY <1>1, StepIsUnseen DEF ApproveTheory, epochVars
<1>2. ASSUME NEW p \in Page, ApprovePage(p) PROVE Unseen
  <2>1. page[p] = "none" /\ page' = [page EXCEPT ![p] = "prepared"]
    BY <1>2, PagesAreTyped DEF ApprovePage
  <2>2. active' = active /\ plan' = plan
    BY <1>2 DEF ApprovePage, epochVars
  <2>3. \A q \in Page :
            page'[q] = page[q] \/ (page[q] = "none" /\ page'[q] = "prepared")
    BY <2>1 DEF KnowledgeInv, TypeOK
  <2> QED BY <2>2, <2>3, StepIsUnseen
<1>3. ASSUME NEW S, Withdraw(S) PROVE Readers!Withdraw
  <2>1. /\ page' = [p \in Page |->
                        IF p \in S /\ page[p] \in {"prepared", "active"}
                        THEN "revoked" ELSE page[p]]
        /\ active' = None
    BY <1>3 DEF Withdraw
  <2>2. Retired \subseteq Retired' /\ Retired' \subseteq Page
    BY <2>1 DEF Retired
  <2>3. ActivePages' = ActivePages \ Retired'
    BY <2>1 DEF ActivePages, Retired
  <2>4. (active' # None) = FALSE /\ Shown' = {}
    BY <2>1 DEF Shown
  <2> QED BY <2>2, <2>3, <2>4 DEF Readers!Withdraw
<1> QED BY <1>1, <1>2, <1>3
        DEF CatalogStep, RevokeTheory, RevokeClaim, Readers!Next

LEMMA PublishRefines ==
    ASSUME KnowledgeInv, NEW s \in Server, Publish(s)
    PROVE  Readers!Next
<1> DEFINE o == job[s]
           p == plan[o].target
<1>1. /\ p \in Page /\ plan[o].closure = Governed(p) /\ ActivePages' = Governed(p)
      /\ Readers!Coherent(Governed(p)) /\ o \in Operation
  BY PublishShows DEF PlanInOrder, Pending
<1>2. page[p] = "prepared" /\ Turn(plan[o]) /\ active' = o /\ plan' = plan
  BY DEF Publish, Current, Confirmed, Activate
<1>3. o # None
  BY <1>1, NoneIsNothing
<1> HIDE DEF o
<1>4. Readers!With(p) = Governed(p)
  BY DEF Readers!With, Governed
<1>5. p \notin ActivePages \cup Retired
  BY <1>2 DEF ActivePages, Retired
<1>6. Retired' = Retired \cup (ActivePages \ Governed(p))
  BY <1>1, <1>2 DEF Turn, Retired, ActivePages, Governed
<1>7. (active' # None) = TRUE /\ Shown' = Governed(p)
  BY <1>1, <1>2, <1>3 DEF Shown
<1>8. Readers!Coherent(Shown')
  BY <1>1, <1>7
<1>9. Readers!Publish(p)
  BY <1>1, <1>4, <1>5, <1>6, <1>7, <1>8 DEF Readers!Publish
<1> QED BY <1>1, <1>9 DEF Readers!Next

LEMMA ResumeRefines ==
    ASSUME KnowledgeInv, NEW s \in Server, Resume(s)
    PROVE  Readers!Next \/ Unseen
<1> DEFINE o == job[s]
           p == plan[o].target
<1>1. page' = page /\ plan' = plan
  BY DEF Resume, authorityVars, rowVars
<1>2. ActivePages' = ActivePages /\ Retired' = Retired
  BY <1>1 DEF ActivePages, Retired
<1>3. CASE active' = active
  BY <1>1, <1>3, StepIsUnseen
<1>4. CASE o \in Open /\ active = plan[o].expected /\ active' = o
  <2>1. PlanInOrder(plan[o]) /\ AsDrafted(plan[o]) /\ o \in Operation /\ o # None
    BY <1>4, NoneIsNothing DEF Open, KnowledgeInv, PlansInOrder, Pending
  <2>2. p \in Page /\ plan[o].closure \subseteq Page /\ Readers!Coherent(plan[o].closure)
    BY <2>1 DEF PlanInOrder, Plan
  <2>3. (active' # None) = TRUE /\ Shown' = plan[o].closure
    BY <1>1, <1>4, <2>1 DEF Shown
  <2>4. CASE active = None
    BY <1>2, <2>2, <2>3, <2>4 DEF Readers!Next, Readers!Reopen
  <2>5. CASE active # None
    <3>1. plan[o].closure = Governed(p) /\ page[p] = "prepared"
      BY <1>4, <2>1, <2>5 DEF AsDrafted
    <3>2. Readers!With(p) = Governed(p)
      BY DEF Readers!With, Governed
    <3>3. p \notin ActivePages \cup Retired
      BY <3>1 DEF ActivePages, Retired
    <3>4. Shown' = Readers!With(p) /\ Readers!Coherent(Shown')
      BY <2>2, <2>3, <3>1, <3>2
    <3>5. Readers!Complete(p)
      BY <1>2, <2>3, <2>5, <3>3, <3>4 DEF Readers!Complete
    <3> QED BY <2>2, <3>5 DEF Readers!Next
  <2> QED BY <2>4, <2>5
<1> QED BY <1>3, <1>4 DEF Resume, Activate

LEMMA FixIsUnseen ==
    ASSUME KnowledgeInv, NEW s \in Server, NEW o \in Operation, Fix(s, o)
    PROVE  Unseen
<1>1. active' = active /\ page' = page /\ op[o] = "none"
      /\ plan' = [plan EXCEPT ![o] = [draft[s] EXCEPT !.catalog = catalog]]
  BY DEF Fix, authorityVars, rowVars
<1>2. active # None => active # o /\ active \in Operation
  BY <1>1 DEF KnowledgeInv, TypeOK, ActiveWasActivated
<1>3. active # None => plan'[active] = plan[active]
  BY <1>1, <1>2 DEF KnowledgeInv, TypeOK
<1> QED BY <1>1, <1>3, StepIsUnseen

LEMMA ServerRefines ==
    ASSUME KnowledgeInv, NEW s \in Server, PublicationStep(s) \/ RecoveryStep(s) \/ Crash(s)
    PROVE  Readers!Next \/ Unseen
<1>1. ASSUME NEW o \in Operation, Fix(s, o) PROVE Unseen
  BY <1>1, FixIsUnseen
<1>2. CASE Publish(s)
  BY <1>2, PublishRefines
<1>3. CASE Resume(s)
  BY <1>3, ResumeRefines
<1>4. CASE \/ \E p \in Page : Draft(s, p)
           \/ \E o \in Operation : Execute(s, o) \/ Decide(s, o)
           \/ Verify(s) \/ Check(s) \/ GiveUp(s)
           \/ Scan(s) \/ Retire(s) \/ Blocked(s) \/ Serve(s) \/ Crash(s)
  <2>1. active' = active /\ plan' = plan /\ page' = page
    BY <1>4 DEF Draft, Execute, Decide, Verify, Check, GiveUp, Scan, Retire, Blocked,
                Serve, Crash, authorityVars, rowVars, epochVars
  <2> QED BY <2>1, StepIsUnseen
<1> QED BY <1>1, <1>2, <1>3, <1>4 DEF PublicationStep, RecoveryStep

LEMMA RebuildRefines ==
    ASSUME KnowledgeInv, NEW o \in Operation, Rebuild(o)
    PROVE  Readers!Next
<1>1. active' = o /\ plan'[o] = Rebuilt /\ o # None /\ page' = page
  BY NoneIsNothing DEF Rebuild, Activate, authorityVars, rowVars, KnowledgeInv, TypeOK
<1>2. ActivePages' = ActivePages /\ Retired' = Retired
  BY <1>1 DEF ActivePages, Retired
<1>3. (active' # None) = TRUE /\ Shown' = ActivePages
  BY <1>1 DEF Shown, Rebuilt
<1> QED BY <1>2, <1>3 DEF Readers!Next, Readers!Rebuild

\* For the readers, any number of servers that plan, check, publish, crash and
\* recover do no more than publish one page at a time, whole, among pages that
\* fit together, and withdraw for ever.
THEOREM KnowledgeRefines == Spec => ImplementsShownKnowledge
<1>1. Init => Readers!Init
  <2> SUFFICES ASSUME Init PROVE Readers!Init
    OBVIOUS
  <2>1. KnowledgeInv
    BY KnowledgeInvInit
  <2>2. active = Genesis /\ Genesis # None /\ plan[Genesis].closure = Initial
    BY GenesisIsAnOperation, NoneIsNothing DEF Init
  <2>3. ActivePages = Initial /\ Retired = {}
    BY InitialIsAClosure DEF Init, ActivePages, Retired
  <2>4. Shown = ActivePages
    BY <2>2, <2>3 DEF Shown
  <2> QED BY <2>1, <2>2, <2>3, <2>4, InitialIsAClosure
          DEF Readers!Init, KnowledgeInv, PagesFit
<1>2. KnowledgeInv /\ [Next]_vars => [Readers!Next]_(Readers!vars)
  <2> SUFFICES ASSUME KnowledgeInv, [Next]_vars PROVE Readers!Next \/ Unseen
    BY DEF Unseen, Readers!vars
  <2>1. CASE UNCHANGED vars
    <3>1. active' = active /\ plan' = plan /\ page' = page
      BY <2>1 DEF vars, authorityVars, rowVars, epochVars
    <3> QED BY <3>1, StepIsUnseen
  <2>2. CASE Next
    BY <2>2, CatalogRefines, ServerRefines, RebuildRefines DEF Next
  <2> QED BY <2>1, <2>2
<1> QED BY <1>1, <1>2, KnowledgeInvariant, PTL DEF Spec, ImplementsShownKnowledge, Readers!Spec

=============================================================================
