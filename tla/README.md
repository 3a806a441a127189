# Verification of the consultation knowledge base

TLA+ models of `consultation_kb`, the local knowledge base of a counselor: the
TLC runs that check them on small instances and the TLAPS proofs that carry the
main results to every instance. Paths below are relative to `consultation_kb/`.

## 1. The system

Every client has a directory with a SQLite database and a content store; a
global database holds the control plane, shared knowledge and published cases.
A tool call reaches the MCP server, which opens a *scoped worker process* per
session. All workers of a client share the client's database; SQLite write
transactions (`BEGIN IMMEDIATE`) are the only steps they take atomically, and
nothing excludes two workers of one client from each other.

| component | state | operations | interacts with |
|---|---|---|---|
| approvals (`approvals/`) | `approval_requests`, `approval_receipts` in the control plane; `approval_executions` in each target | request, confirm, issue_for_execution, verify_ticket, acknowledge; apply_in_transaction | every governed write; two databases, no common transaction |
| client publication (`client/publication.py`, `lifecycle/publish.py`, `storage/manifests.py`, `storage/client_ledger.py`) | fact ledger and its authority version, publication operations, manifests, runtime epochs | preview, plan, commit, verify, activate, attest again | approvals, tombstones, recovery, rebuild |
| tombstones (`storage/tombstones.py`) | tombstoned sources | add, visibility guard | read by publication, recovery, every query |
| startup recovery (`lifecycle/recovery*.py`, `sqlite_recovery.py`) | decision journal, a recovery lock per purpose | scan, decide, apply, gate | publication; other workers that run |
| rebuild (`lifecycle/rebuild*.py`, `production_rebuild.py`) | rebuild jobs, empty stages | enqueue, claim, build, verify, activate, resume, discard | epochs, recovery, rollback, deletion |
| worker processes (`security/scoped_worker.py`, `worker_main.py`) | process, pipe, capability | start, request with timeout, shut down on any error | all of the above |
| case publication (`archive/case_publisher.py`, `storage/outbox.py`, `mcp/session_runtime.py`) | client outbox; sagas, case catalog and content store of the global database | commit, export, receive, copy, prepare, activate, sign, acknowledge | client worker, session capability, global epoch, deletion |
| whole-client deletion (`lifecycle/deletion.py`, `whole_client_cleanup.py`, `whole_client_closure.py`, `physical_cleanup.py`, `backup_queue.py`, `backup_destruction.py`) | deletion plan, tombstones, cleanup queue and items, backup intents, the client's directory, its entry in the identity map | preview, commit, claim, verify, scope check, remove, erase, postcheck, acknowledge | sessions, case publication, rebuild, file system |
| other deletions (`lifecycle/deletion.py`, `worker_main.py`) | plans for a fact, claim, session or case | plan, tombstone, rebuild, purge | tombstones, rebuild, approvals |
| rollback (`lifecycle/rollback.py`) | rollback intents | plan, commit, rebuild | rebuild, ledger |
| sessions (`session/`) | sessions, turns, candidate sets, replies | open, append turn, adopt, close, recover | generation, ledger drafts |
| generation (`generation/`) | stage store, evidence registry | stages of one reply | retrieval, risk |
| evaluation (`evaluation/`) | work queue with leases, runs, blind reviews | claim, renew, complete, report | global database |
| knowledge (`knowledge/`, `publication/global_knowledge.py`) | proposals, rows of wiki pages, theory versions and claims, the catalog's versions, global epochs | propose, approve, plan, execute, publish, revoke | approvals, publication, recovery, rebuild |
| retrieval, graph, risk, policy, vault, observability, CLI | read models, rules, files, logs | queries and pure computations | published artifacts |

### What is hard

* Two databases and no common transaction: an approval is spent in the target
  and acknowledged in the control plane, with a crash possible in between.
* A publication is three transactions (commit, verify, activate) and the plan
  they execute was made at preview time, against an epoch and a commit version
  that other workers move meanwhile.
* Recovery decides without a lock and applies under locks, one per purpose and
  one after the other, that running workers do not take; the manifests of one
  publication fall under two purposes.
* Tombstones take effect between any two of these steps.
* A case crosses from the client's database to the global one through five
  transactions of two processes; both may die at every step, and a second
  server may take the session over while the first still publishes.
* What a deletion has to destroy lies in two databases, a content store, the
  backups and a directory. Files go one by one, without a transaction, and
  several servers may be at it, one of them with the client still open.
* Shared knowledge is published as a whole: a plan made by one server, approved
  by a person and executed by another lists every page that is active, and the
  catalog it was made for changes meanwhile.
* Answers are lost: a call that times out kills the worker, and what it did is
  only visible in the database.

### What makes each component correct

* Approvals: one write per approval, by the operation it was bound to;
  acknowledged implies applied.
* Client publication: no lost update of the ledger; what is published is a
  complete prefix of it that only grows; nothing deleted is switched to; what
  the counselor is told happened has happened.
* Startup recovery: only justified retirements, final outcomes, a truthful
  journal, at most one recovery that completes or retires publications; every
  prepared publication resolved; the client served again.
* Rebuild: a rebuilt closure holds everything its version claims; jobs are not
  blocked for ever; an activated job is never undone by a late worker.
* Case publication: one case per approved event however often it is replayed;
  acknowledged only after it was activated; what is shown is whole; a withdrawn
  case stays withdrawn; every event published eventually.
* Whole-client deletion: nothing leads to the client from the commit on; the
  directory goes last and stays provable while anything of it is left; called
  complete only when nothing remains; completed eventually.
* Knowledge: the epoch and the rows of the catalog agree; what is shown cites
  what is approved and nothing revoked; no publication takes pages away.
* Sessions: one open turn, one adopted candidate, replays return the first
  answer.
* Evaluation: a work item is completed by the holder of its lease, once.

## 2. The modules

| module | models | state and actions |
|---|---|---|
| `Approval` | `approvals/store.py`, `execution.py` | one variable per column that decides something; one action per service call. A ticket can be rebuilt from a bound receipt and a proof from a committed row, so holding them is not state |
| `PublishedFacts` | the promise to the counselor | a ledger, the shown prefix, deletions and reports |
| `ClientPublication` | preview to acknowledgement of a fact mutation | extends `Approval`; every transaction, and every read made before one, is an action of a worker |
| `StartupRecovery` | what a starting worker does before it serves | extends `ClientPublication`; scan, lock, replay, re-check, retire or resume, journal, gate |
| `RebuildJobs` | `lifecycle/rebuild_jobs.py`, `rebuild.py`, the gate of `equivalence.py`, the drains of `worker_main.py` | a queue of ordinary, deletion and rollback jobs; a drain per process goes through claim, build, verify, activate; starts, recoveries and exits around it |
| `RebuildQueue` | what the rebuild queue promises | a job is dropped, or passes the point of no return and replaces what is served, exactly once; what is served, deletions asked for and carried out |
| `SharedCases` | the promise about an approved case | private, shared, withdrawn for ever; told only after it was shared |
| `CasePublication` | outbox, drain and publisher, from the approval's execution to the acknowledgement | one event list per session; every transaction of the worker and of the publisher, and every read made before one, is an action of a manager |
| `ErasedClient` | the promise of a deleted client | kept, retired, erased; ways that lead to it, copies, directory, identity entry |
| `ClientErasure` | whole-client deletion, and the sessions it meets | plan and commit; the cleanup of the root item step by step, per server; the other items, rebuild and backups as steps of their own |
| `KnowledgePublication` | approval of pages and theory versions, `plan_wiki`, `execute`, the two publishers, revocations, the switches of rebuild and recovery | rows, catalog and operations of the global database; what each server is doing; every transaction, and every read made before one, is an action of a server |
| `ShownKnowledge` | what readers of the shared knowledge may rely on | pages that are current, those that were, those that are shown |
| `ApprovalProofs`, `ClientPublicationProofs`, `StartupRecoveryProofs`, `RebuildJobsProofs`, `RebuildQueueProofs`, `CasePublicationProofs`, `ClientErasureProofs`, `KnowledgePublicationProofs` | | theorems and proofs |
| `MC*` | | instances for TLC |

`ClientPublication` refines `PublishedFacts` (`ImplementsPublishedFacts`), and
so does `StartupRecovery`: recovery may finish or drop what a worker began and
the counselor cannot tell the difference. `CasePublication` refines
`SharedCases` (`ImplementsSharedCases`), `ClientErasure` refines
`ErasedClient` (`ImplementsErasure`), `RebuildJobs` refines `RebuildQueue`
(`ImplementsRebuildQueue`) and `KnowledgePublication` refines `ShownKnowledge`
(`ImplementsShownKnowledge`). `RebuildQueue` knows no threads, stages or starts:
its jobs are ordered, dropped, committed, applied and done, and how often a
drain was interrupted and taken over is not visible in it. `ShownKnowledge`
knows neither plans nor operations nor epochs; the steps in which it is looser
than one would wish, `Complete` and `Reopen`, are the ones that recovery takes
without the catalog.

### How the state corresponds to the code

`Approval`: `request` and `binding` are the state and `operation_id` columns of
the control plane, `execution` and `applied` the APPLIED rows of the target.
The CLAIMED state of a row exists only inside the transaction. `writes` is a
history variable that counts committed business callbacks. `expired` replaces
the clock: an approval may expire in any state, and the write compares it where
the code does (`approvals/execution.py:132`), early in its transaction. The
clock is read again for `applied_at` (`:176`) and not compared, so a commit may
come after the expiry; nothing is claimed about that. The commit version of an
execution is not modelled. It is MAX + 1 for most operations, the plan's
authority version for a fact publication (`client/publication.py:660`), in one
column without a UNIQUE constraint: two executions of a client can carry the
same number, and `LedgerIsDense` is about the ledger, not about that column. The
tables are append-only apart from the modelled columns (triggers), hence no
deletion of rows.

`ClientPublication`: `draft` is the registered preview, `authority` and
`factVersion` the ledger, `pubState`, `epochOf`, `closure`, `boundTombs` a
publication with its manifests and recovery binding, `active` the ACTIVE epoch.
`phase` and `job` say where a worker process is between two transactions. One
operation adds one batch of facts, drawn from one source. `closure` is computed
when the facts are committed: the planner computes it from the ledger when the
plan is prepared, but the authority only grows and equals the plan's base at
both moments. `Approve` merges the control-plane calls, whose own interleavings
are `Approval`'s. A worker that finds its operation committed already, by its own
earlier request, goes on to verify it (`FindCommitted`).

`StartupRecovery`: `lock` has the two locks that a client publication meets. A
recovery applies its decisions group by group, a group being the manifests of
one purpose, and holds that purpose's lock for the group (`Unlock` ends it);
the other lock may be held by another recovery meanwhile. A `Decision` carries
what its evidence hash binds. The inventory is read in one step although the
code reads row by row without a transaction: a torn read can change `healthy`,
never what is applied, because the decision must be computed again, unchanged,
under the lock. The manifests of a publication receive the same decision; a
decision of the model stands for those of one purpose, and the first of an
operation that is applied journals the others (`Siblings`).

`RebuildJobs` stands beside `ClientPublication` and takes from it only what a
rebuild meets: a publication is a commit (`CommitFacts`) and a later switch of
the epoch (`ActivateFacts`). `jobState` is `rebuild_jobs.state`, `bound` the
authority the job's plan names, `stage`, `base` and `expected` the stage's row
of `publication_operations`, `built` the source versions of its manifests.
`at` and `run` say where a drain is; every database transaction of
`_run_build`, and every read whose result is used after it, is a step of its
own. A worker is one process with one drain: `_start_client_rebuild_runner`
does start a thread per call, and two threads of a process behave as two
workers do, which the runs have. A closure holds four artifacts in the code;
two are kept, the fact snapshot, which is read once at the start, and one that
is built later under what may be a later ledger. The order in which queued jobs
are claimed is left open. Recovery is one step here, its own interleavings being
`StartupRecovery`'s; what it decides about stages and about the rebuilt closure
is modelled (`Proven`, `Retirable`, `RecoveryRaises`).

`CasePublication`: `outbox` and `proof` are the event's row in the client's
database; `source`, `saga` and `planned` the saga's row and the operation it
prepared; `revoked` the tombstones of cases, `body` the content store, `epoch`
the ACTIVE epoch of the global database. `holder` stands for the session's
capability, which every resume renews, so that the process that held it before
is denied at its next call. `at`, `job`, `run` and `seen` are the program
counter and the locals of `publish`: the saga is read, the step that fits what
was read is taken, and the transaction of that step compares again. `target` is
the event a commit asked for, none for the drain of a resumed session. Events
are those of one session, in the order of their approval. The limit of an
export, 100 events over all sessions, is not reached by the instances and is
left out; `Sign` makes one step of the reads that precede the proof, which
compare rows that no longer change once the case is active; the authority epoch
of a case does not change between its approval and its publication. An event
carries its approval's time limit, so `expired` is per event.

`ClientErasure`: `client` is the state in the client registry; `valid` and
`lapsed` are ACTIVE capabilities and those revoked without a tombstone; `root`,
`item`, `rebuild`, `expiry` are rows of `physical_cleanup_items`, `queue` the
request over them, `backup` the rows of the destruction queue. `vault` and
`identity` are what is on disk. `first` and `mine` say what a server keeps
about its claim: whether it is the first attempt, and whether the row is still
as it left it. The versions that a plan is compared with (of the session
authority, of deletions) only grow, so `stale` says whether they have. A server
has one session at a time with a lock around each request; preparing and
activating a case are the transactions of `CasePublication` seen from here. Of
the files one directory stands for all, the order of the others being open; the
staging directory is not modelled. Two classes,
`AuthorizedPhysicalCleanupWorker` and `BackupDestructionWorker`, finish the
items beside the root. Nothing in the program starts them; they are actors of
the model that may act or not.

`KnowledgePublication`: `page` and `theory` are the status columns of
`wiki_revisions` and `theory_revisions`; the claims that belong to a version of
the theory change with it and are not kept apart, the others are `Claim`.
`catalog` and `revocations` are `knowledge_catalog_state`, whose two epochs are
raised by the same transactions. `op` is the state of a publication operation,
with `planned` for a plan that waits for its approval, `plan` what its manifests
and its catalog snapshot say, `bound` the recovery binding that the database
writes with the row, `active` the operation of the ACTIVE epoch (None after a
revocation). `at`, `job` and `draft` are the program counter and the locals of a
server. `Draft` and `Fix` are `plan_wiki`, whose reads are not one transaction:
epoch and versions come first, the snapshot of the catalog later. `Execute`,
`Verify`, `Check` and `Publish` are the transactions of `execute`. A commit of
the catalog repeats its checks inside its transaction and is one step. Recovery
is kept to what it decides about operations and what it does to the epoch
(`StartupRecovery` has the rest); a rebuild is one step because the job's plan
and its activation are tied to the catalog and the epoch (`RebuildJobs` has the
rest). There is one theory; pages, versions and the pages' references are fixed
by the constants, what is approved and when is not.

A page names a version of the theory and may cite all of that version's claims,
some, or none (`Cited`). The two are different in the code. Naming decides which
pages can be shown together (`_governed_theories`), and a named version must be
approved (`Supported`). Citing decides what a revocation takes along: `revoke`
(`knowledge/theory.py:622`) finds pages by the claims they cite, so a page that
only names the version stays PREPARED or ACTIVE. And a combined publication wants
a page that cites all (`knowledge/publication.py:1392`). `LintsClean` is the one
finding of the linter that other steps of the model bring about.

## 3. The runs

| run | instance | shows |
|---|---|---|
| `approval` | 3 requests, 3 operations | the approval properties under all retries, duplicates and expiry |
| `client_publication` | 2 workers, 3 operations, 2 sources, one deletable | the publication properties with crashes at every step |
| `recovery_pair` | 2 workers, 2 operations, 1 crash, one deletable source, two purposes | recovery beside a running worker or another recovery, the refinement |
| `recovery_live` | 1 worker, 2 operations, 2 crashes, one deletable source | `StartsFailByDeletion`, `PreparedIsResolved`, `EventuallyServing` |
| `recovery_stuck` | 2 workers, 2 operations, 1 crash | violates `PreparedIsResolved` |
| `rebuild_jobs` | 2 workers, one job of each kind, ledger up to 2 | exclusion, truthful intents, deletions and facts kept, what is served is complete, the refinement |
| `knowledge` | 2 servers, 2 wikis with 3 pages that cite all, some or nothing of 2 versions of the theory, 1 claim, 2 operations beside the first, one crash | the rows and the epoch agree, pages cite what has authority, pages stay, the refinement |
| `case_publication` | 2 servers, 2 events, 2 case identifiers, one switch of the global epoch, one crash or take-over | the case properties, the refinement, `EventuallyPublished` |
| `client_erasure` | 2 servers, 1 contributed case, 2 backups, one crash or meeting of cleanups | the deletion properties, the refinement, `EventuallyErased` |
| `erasure_shared` | 1 server, 1 case, no fault | violates `NothingStaysShared` |
| `rebuild_stuck` | 1 worker, a deletion's job | violates `JobsFinish` |
| `rebuild_reopens` | 1 worker, an ordinary job | violates `RebuildReopens` |

Bounds. Two workers are enough for every race in the code, which are all
between one process and "the others"; the third operation is needed for a
publication on top of one that was committed but not activated while another
is previewed. One deletable source distinguishes the operations it taints from
the others. Two crashes allow recovery itself to die and its successor to
replay. `MaxCrashes` bounds crashes in the recovery runs and in `knowledge`;
`ClientPublication` needs no bound since a stopped worker stays down there. Symmetry is used on
workers and on the operations that share a source, in safety runs only.
In the rebuild runs one job of each kind is enough, because jobs of one kind
meet only at the claim, where two kinds meet in the same way. `MaxVersion`
bounds the ledger: 2 lets facts be committed, or a fact be rolled back, under a
rebuild. Process exits and starts are not bounded.
`MaxEpoch` = 1 lets the global epoch move once between a case's preparation and
its activation; two events let one wait behind the other. In
`CasePublication`, `MaxFaults` counts crashes and take-overs of a session, in
`ClientErasure` crashes during a cleanup and cleanups that meet; servers are
started and stopped without bound. Three pages are the least that have both a
successor and a page that stays beside it, on two versions of the theory, so
that a closure can be mixed; two operations compete for one epoch, or one
follows the other; a crash of one server leaves the other at work beside the
recovery. The invariants of `ClientErasure`, its
refinement and the inductive invariant of its proofs were also checked with two
faults, with one backup (320 052 states) and with two (1 283 316 states). The
longest runs, `knowledge` and `rebuild_jobs`, take about three minutes
each with two workers of TLC. The refinement of `PublishedFacts` is checked in
`recovery_pair` and no longer in `client_publication`: recovery takes the steps
of the protocol too, and both refinements are proved.
Deadlock is not checked: when every operation is finished and every worker
idle, the system rests.

Fairness. A running process takes its next step (`WorkerStep`), and a client
whose worker ended gets a new one with its next request, which runs recovery
(`RecoveryStep`). Neither approvals nor new work nor deletions are assumed to
happen. In `RebuildJobs`, likewise, a drain takes its next step (`RunnerStep`)
and a client that is not served is opened again (`StartStep`); builders may
fail, jobs need not be cancelled, and processes may exit at any step.
In `CasePublication` a manager takes its next step (`DrainStep`) and a session
that nobody holds is opened again, which is when a drain is repeated. In
`ClientErasure` a cleanup takes its next step (`CleanStep`), and a server is
stopped and started again (`Stop`, `Start`): only a start, or the same commit
again, resumes a cleanup. The workers for the other items, which nothing
starts, are assumed to do nothing; `EventuallyErased` speaks of behaviours in
which those items got done (`Closed`), nobody keeps the client open (`Quiet`)
and no late request wrote into the directory (`stray`).
SQLite's write lock and the recovery lock are released by the operating
system when a process dies.

### What `recovery_stuck` shows

`lifecycle/recovery_policy.py` lists what makes a prepared publication invalid;
an expected epoch that has passed is not in the list. Worker A commits o1.
Before A activates it, worker B previews and plans o2 on top of o1's commit and
for the same epoch. A activates, B commits. o2 can no longer be activated;
every start decides to activate it, `activate_expected` raises
`ConcurrentActivation`, and the worker does not start. The design document
(`docs/superpowers/specs/2026-07-16-consultation-knowledge-base-design.md:907`
and `:1353`) says that recovery completes or cleans up what is PREPARED. With
one worker per client the property holds (`recovery_live`).

The proofs say how far this goes. `LatePublicationsStayLate`: such a publication
is never activated afterwards, by any worker or recovery, and
`RetirementIsJustified` names all that could retire it. `LonePublicationsFit`
and `LoneStartsSucceed`: with one worker at a time there is no such publication,
whatever crashes in between, and a start is refused only if something was
deleted after its scan.

`EventuallyServing` is about behaviours without deletions: after a tombstone the active
closure is stale until a rebuild replaces it, which is the business of the
rebuild jobs. The first start after a crash between commit and activation
completes the publication and still refuses to serve, because the scan that
preceded it saw a stale active closure; the second start serves.

### What `rebuild_stuck` and `rebuild_reopens` show

A job that is running or verifying when its process ends stays so.
`claim_next` takes no queued job while one is in flight, and
`recover_interrupted`, which would requeue it, is called by tests only. The
queue of the client is blocked, and the start that finds it blocked goes on to
serve. `assert_executable` (`lifecycle/rebuild.py:3586`) calls a queued job a
promise that a process can resume it after a restart. `AbandonedJobsBlock`
proves that nothing the model does repairs it: a job of a deletion or of a
rollback stays as it is for ever, an ordinary one until somebody cancels it, and
until then no queued job of the client is claimed.

Recovery serves an active closure that a publication attested or that a
rollback's plan explains. An ordinary rebuild, or a deletion's, leaves neither:
the closure can be queried until the process ends and is refused by every start
after it. `docs/consultation-kb/recovery.md:72` names a succeeded job and an
available query together as the criterion of a completed recovery.

Two consequences of the equivalence gate are reachable and are no properties,
because no document promises otherwise: a deletion does not raise the commit
version, so its rebuild of an up-to-date closure is refused and its intent ends
FAILED; and after a rollback, which writes no profile revision, an ordinary
rebuild is refused until the next publication.

### What `erasure_shared` shows

The commit of a deletion compares the plan with the client, its sessions and
the cases the plan lists (`lifecycle/deletion.py:502`). A case that becomes
active between preview and commit is in none of them: `_activate`
(`archive/case_publisher.py:980`) changes no version that the plan names. The
commit succeeds and the case stays ACTIVE, for every retrieval to find, while
`docs/consultation-kb/deletion.md:24` says that the contributed cases of the
client are included. The cleanup sees it: it answers
`CLIENT_CASE_CLOSURE_PENDING` for ever, so the directory is never touched and
the deletion never called complete. `EscapedCasesBlock` proves both halves: a
case that the deletion missed is missed for ever, and while there is one the
directory and the identity are whole and neither the root item nor the request
succeeded.

### What recovery leaves of a publication of knowledge

A server that dies after `execute` recorded its operation leaves it PREPARED or
VERIFIED. If nothing changed in the catalog, the next start activates it
(`_recover_runtime_publication`, `lifecycle/sqlite_recovery.py:1862`): the epoch
is switched, and the rows are not. The page stays PREPARED, its predecessor
ACTIVE, a version of the theory that it brings along PREPARED, although
`knowledge/publication.py:92` calls the publisher the sole activation entry
point, which changes both in one transaction. `ShownIsGoverned` therefore
excludes the epochs in `recovered`; for those, `PagesStay` still says that no
wiki was lost by the switch. A later publication or rebuild takes the rows as
they are, and so goes back to the old revision.

One consequence contradicts a comment, and no run states it: `lint.py:182`
reports every C1 claim of a version that is neither PREPARED nor ACTIVE, whatever
became of the claim, and claims are never taken out. Once a first version was
superseded or revoked, `_assert_operation_current`
(`knowledge/publication.py:1325`) refuses every publication of a page, for good;
only rebuilds and recoveries still switch the epoch. `knowledge/theory.py:640`
says that after a revocation a complete newly approved publication is required to
resume. In the model `LintsClean` stays false, so no `Check` or `Publish` follows.

Further consequences of the code, reachable in the model and promised
nowhere otherwise: two active wikis that rest on one version of a theory
cannot move to the next version, since neither page can be published without
the other (`publication/global_knowledge.py:503`); an operation is valid for
recovery only if the number it got, one more than that of any operation, is the
version of the catalog, which other approvals raise too; and a start that finds
the active operation out of step, or finds a rebuild's, ends (`Blocked`), until
a running server publishes an operation that is in step or a revocation retires
the epoch.

Two things that `ShownKnowledge` allows, and that readers may not expect, were
found with the refinement and have no run of their own. After a revocation
nothing is active, and a publication that had been planned in an earlier such
gap expects no epoch; recovery decides about it with what it read before. If
another server revokes once more between the decision and the resumption, the
start shows a page that was just revoked: the tombstones of claims and theory
versions do not match the lineage of its manifests, and the catalog is not asked
(`knowledge/theory.py:644` says that a newly approved publication is required to
resume). `RetiredIsHidden` proves that this is the only way: where something is
shown, and its epoch was not recovered from nothing, no superseded or revoked
page is among it. And nothing keeps a server from publishing an older prepared
revision of a wiki over a newer one that is active; `PagesStay` is about wikis,
not about revisions.

### What blocks an event or a deletion

`EventuallyPublished` and `EventuallyErased` name in their conditions what the
code does not get past by itself.

* An operation is prepared for the epoch that is active then. If the global
  epoch moves before the case is activated, each replay is refused with
  `CASE_PUBLISH_OPERATION_NOT_READY` (`archive/case_publisher.py:1003`). A case
  that was revoked before its event was acknowledged is refused likewise. The
  drain ends without a report, at the first event of the session, so the events
  behind it wait too. `mcp/session_runtime.py:1859` calls the publication an
  idempotent recoverable saga.
* An expired event is claimed and then refused, which ends the worker; each
  resume meets it again and ends with `CHANNEL_UNAVAILABLE`.
  `BarredEventsStayBarred` proves of both, the expired event and the one that
  was prepared for a passed epoch, that they are never published. A revoked
  case is no such event: a server that had its proof already may still
  acknowledge it.
* A capability that a failed start of a session revoked has no tombstone of the
  deletion (`lapsed`), nor has a case that another deletion withdrew or that
  was only PREPARED at the commit. The closure stays pending for ever.
* A request that was authorized before the deletion makes the sub-directory it
  writes to (`LateWrite`). If it was removed already, the marker goes and the
  directory does not; every later attempt asks for the marker.
* A cleanup that raises ends the start of its server, for all clients.
* Cleanups that alternate can fail each other's claim for ever; the model
  counts meetings as faults.
* A backup that is registered after the deletion is complete is destroyed, but
  the deletion stays complete meanwhile.

## 4. The proofs

All theorems hold for any sets of requests, operations, workers and sources
under the named assumptions of the modules: `None` is not an operation, request
or worker, a preview belongs to one approval request, every operation has a
source, `MaxCrashes` is a number. For `RebuildJobs`: deletion and rollback jobs
are different jobs, `None` is no job, `MaxVersion` is a number. For
`CasePublication`: events are numbers, `None` is no event, case or manager. For
`ClientErasure`: `MaxFaults` is a number. For `KnowledgePublication`: pages have
numbers, versions, claims, the first pages are a closure of one version, `None`
is no page or operation. Two theorems have a hypothesis beside these: in
`LonePublicationsFit` and `LoneStartsSucceed` any two workers are the same one
(`OneWorker`).

* `ApprovalProofs`. `ApprovalInv`: the binding of a request follows its state,
  an execution row agrees with the binding, and a committed write leaves its row
  (`WritesLeaveRows`). Everything else follows.
* `ClientPublicationProofs`. The properties are not inductive: that an active
  closure is complete depends on what the planner could see, hence on when
  drafts were made. `ClientInv` adds: requests have drafts
  (`RequestsAreDrafted`); facts, execution and publication are committed
  together (`CommittedTogether`); epochs form a chain in the order of the
  ledger (`EpochsAreLinear`); a draft that is still fresh has seen every epoch
  (`DraftsSeeEpochs`); the closure of a committed publication is complete, or
  its epoch has already passed (`CompleteOrLate`); each worker's phase agrees
  with its job (`WorkersOnTrack`). `CompleteOrLate` is the heart: a planner
  filters the ledger by a planned epoch number, and misses a fact only if that
  fact was planned for a later epoch, which means that its own epoch is taken.
* `StartupRecoveryProofs`. Recovery takes the steps of the client protocol or
  retires an operation, so `ClientInv` is kept; `RecoveryInv` adds where each
  recovery is, that bindings are from the past, and the cause of every
  retirement. `RecoveryKeepsPromises` and `RecoveryHidesDeleted` carry the
  promises of the protocol over to a client that recovers. With one worker
  (`LoneInv`) there is at most one unfinished publication, it expects the active
  epoch, and either the worker is about to complete it or it is down and a
  recovery that has scanned has a decision about it; decisions of that recovery
  are what would be decided now, until a tombstone is added
  (`DecisionsStand`). That an unfinished publication fits is what carries the
  rest: an activation can then not fail, and a start that fails names a
  decision taken before a deletion. That two recoveries do not both complete or
  retire (`OneApplierAtATime`) is no matter of one lock. It needs the order of the
  groups (`GroupsOnTrack`): every recovery takes the graph group first, whatever
  it retires or completes there has its siblings in the journal in the same
  transaction, so that what is left of its list for the second group is found in
  the journal and only replayed.
* `RebuildJobsProofs`. The safety properties of `RebuildJobs` follow from
  `RebuildInv`. None of them is inductive alone. Who builds a job is decided by where
  every drain is (`DrainsOnTrack`), and what a cancelled job leaves behind by
  how far its stage is (`StagesOnTrack`): together they carry `OneBuilder`,
  `OneJobInFlight`, `OutcomeIsTrue` and `IntentIsTrue`. That deletions stay
  effective and that no facts are lost is about versions: nothing shown,
  pending or built is ahead of the ledger or the epoch (`NothingAhead`), an
  epoch is still what it was made of (`ShownAsBuilt`), and whatever still
  expects the present epoch holds at least its facts (`ReplacementsHoldMore`).
  The last is the heart: a job is bound before the epoch it expects is read,
  and only the builders' comparison of the bound revision with the ledger
  makes up for what was published in between. A rollback skips that
  comparison, hence the exception for rollbacks in `RebuildKeepsFacts` and
  `LabelsAreTrue`; `WhatIsServedIsComplete` shows that the evidence recovery
  asks of a rollback closes the gap. `AbandonedJobsBlock` needs no more than that
  a drain is where its job is: a drain takes on what is activating, or what is
  queued while nothing is under way (`RunStep`), and a job moves by the drain
  that has it, or by a cancellation (`JobStep`).
* `RebuildQueueProofs`. `RebuildInv` with two additions: a deletion has an
  intent from the moment it erases something and before it has a job
  (`IntentsRecorded`), and what is served was not made under tombstones of the
  future (`ServedIsPast`). Each step takes one job further or none, and what is
  served is replaced only by the step that applies a job, by a publication, or
  by a recovery that completes one; then the deletions carried out are all that
  are requested, because the switch compares the tombstone epoch.
* `CasePublicationProofs`. That a case is unique follows from the saga's own
  key. That what is acknowledged is active does not: the manager that
  acknowledges read the saga long before. The invariant ties what each manager
  remembers to what the databases hold: its case belongs to its event, the state
  it read is one the saga has reached (`seen` is never ahead of `saga`), whoever
  is about to acknowledge has an active case, and a body exists from the copy
  on. An event that has a saga was claimed, and nobody unclaims it.
* `KnowledgePublicationProofs`. `KnowledgeInv` adds to the properties what a
  plan is worth while it waits: what it expects was active (`PlanInOrder`), and
  as long as that is active, the plan is the one that would be drafted now, and
  its page still waits (`AsDrafted`); otherwise a recovery could show a page
  that was replaced meanwhile. When an epoch is switched, no pending plan
  expects the new one, because operations are activated once
  (`ActiveWasActivated`). The pages of a plan, and the active ones, fit
  together (`PagesFit`). A page
  published alone was planned when its version of the theory no longer waited
  (`PlanInOrder`), and versions never wait again, so that the version is active
  when the plan is confirmed; `OneVersion` carries this to the other pages of a
  combined publication (`PagesAreBacked`, which is about pages that cite: one
  that only names a version may stay active after a revocation). `KnowledgeRefines` maps a publication
  and a rebuild to the steps of that name, a recovery to `Complete` while
  something is shown and to `Reopen` when nothing is.
* `ClientErasureProofs`. The invariant follows the order of a cleanup. What
  closes the client is final (`Kept`: nothing is renewed or activated once the
  client is retired, and a closure that was complete stays complete);
  whoever is past the check, or has removed anything, did so after the other
  items were done (`DoneFirst`), which is stable although others may fail their
  claims; a done item has no body (`BodiesGone`); files go in order
  (`FilesInOrder`) and the marker last (`MarkerLast`), whichever of the servers
  removes them; `QueueFollows` says which states of the request go with which
  items, and is what makes the last acknowledgement acceptable.
  A case without an item among those of the deletion (`Escaped`) gets none
  later, and an unfinished closure keeps every server out of the directory
  (`EscapedCasesBlock`).

`ClientApprovals`, `PublicationRefinesFacts`, `RecoveryRefinesFacts`,
`QueueRefinement`,
`CasePublicationRefines`, `ErasureRefines` and `KnowledgeRefines` prove the
refinements: initial states map to initial states, each step to a step or a
stutter.

Only model-checked: the liveness properties (`PreparedIsResolved`,
`EventuallyServing`, `EventuallyPublished`, `EventuallyErased`), which need
fairness and ENABLED. Every other property of a passing run is proved. Of what
three of the four violated properties show, the proofs state the part that is
safety: the state, once reached, is never left. Proved and in no run of their
own are `BindingIsFinal` of `Approval`, `ProjectionNeverRegresses` of
`ClientPublication`, `OneCasePerEvent` of `CasePublication`, `OutcomeIsTrue` of
`RebuildJobs`, the theorems about what lasts (`LatePublicationsStayLate`,
`AbandonedJobsBlock`, `BarredEventsStayBarred`, `EscapedCasesBlock`) or does
not happen (`LonePublicationsFit`, `RetiredIsHidden`), which state their
formulas themselves, and type invariants (those of `Approval` and
`ClientPublication` are part of `TypeOK` in `recovery_pair`); TLC has agreed
with each of them.

## 5. The plan

1. Approval, client publication and its refinement, startup recovery, and the
   rebuild queue with the specification of what it promises, modelled, checked
   and their safety and refinements proved: done.
2. Case publication and whole-client deletion, each with its abstract
   specification, its refinement and its safety proved: done.
3. Global knowledge publication, with recovery and rebuild beside it, what its
   readers may rely on, and both its safety and its refinement proved: done.
4. The deletion of a fact, a claim or a session, beside rebuild jobs.
5. `SessionTurns`, the generation stage store, the evaluation work queue.
6. Pure algorithms: selection of bitemporal facts, weighted path search.

## 6. Not modelled

Contents of files, hashes, signatures and Windows access control (their effect,
a check that passes or fails, is modelled); retrieval, ranking, risk rules and
de-identification (pure functions over text); MCP routing, the command line,
logging; migrations, which run before anything else; the vendored `graphify`.
Sessions, generation and evaluation are not
modelled; of knowledge, neither are proposals, the import and approval of
sources, passages and claims, more than one theory, and the index of published
cases that a rebuild may carry along; `PROJECT.json` lists every component with its status. The source
is large, and most of it is parsing, validation, text processing and queries
over published artifacts. The models cover the part where transactions,
processes and files interleave, which is a small share of its lines.

Two recovery decisions are left out: cleaning expired staging files and
queueing the cleanup of retired artifacts after the rollback window. They touch
nothing that the models read.
