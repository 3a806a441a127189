--------------------------- MODULE ClientErasure ---------------------------
(***************************************************************************)
(* A whole client is deleted.  One transaction in the global database      *)
(* retires the client, revokes its sessions and its shared cases and       *)
(* queues what has to be destroyed: the bodies of the cases, what was      *)
(* derived from them, the backups and, last, the client's directory with   *)
(* the entry of the identity map that names its owner.  That last item is  *)
(* worked on by the server that committed and by every server that starts; *)
(* servers may die at any step, and two of them may be at it.              *)
(*                                                                         *)
(* A server works in a session of its own and does one thing at a time:    *)
(* its requests hold a lock.  Of the directory the model keeps the         *)
(* database, one directory of files, the scope marker and the directory    *)
(* itself.  Approval is part of Commit.                                    *)
(***************************************************************************)
EXTENDS Naturals

CONSTANTS
    Server,         \* server processes, and the session each works in
    Case,           \* cases the client contributed
    Backup,         \* backup sets an operator may register
    MaxFaults       \* bound on crashes and on cleanups that meet

ASSUME FaultsAreNumbers == MaxFaults \in Nat

VARIABLES
    client,         \* ACTIVE or RETIRED
    valid,          \* sessions whose capability is ACTIVE
    lapsed,         \* sessions whose capability was revoked by no deletion
    case,           \* Case -> none, PREPARED, ACTIVE or REVOKED
    plan,           \* cases the deletion plan lists
    stale,          \* there is no plan, or a session or a deletion changed since
    root,           \* state of the queued item: the client itself
    item,           \* Case -> state of its item, none if not in the plan
    rebuild,        \* state of the item: rebuild what held the cases
    expiry,         \* state of the item: destroy the backups
    backup,         \* Backup -> none, pending or succeeded
    queue,          \* state of the request over all items
    body,           \* cases whose body is in the global content store
    vault,          \* what there is of the client's directory
    identity,       \* the identity map has the client's entry
    stray,          \* a late request wrote where files were removed
    at,             \* Server -> where it is
    handle,         \* servers with a live worker for the client
    starting,       \* servers that clean up before they serve
    first,          \* servers whose claim of the root was the first
    mine,           \* the server whose claim of the root is the present one
    todo,           \* Server -> entries of the directory it has yet to remove
    passed,         \* items whose gate was passed under the present claim
    faults

authorityVars == <<client, valid, lapsed, case, plan, stale>>
itemVars == <<item, rebuild, expiry, backup, passed>>
rootVars == <<root, first, mine>>
fileVars == <<vault, identity, stray>>
vars == <<authorityVars, itemVars, rootVars, queue, body, fileVars, at, handle,
          starting, todo, faults>>

Entry == {"database", "files", "marker"}
State == {"none", "PENDING", "CLAIMED", "FAILED", "SUCCEEDED"}

Cleaning == {"claim", "verify", "scope", "remove", "identity", "post", "mark",
             "failing", "refusing"}

TypeOK ==
    /\ client \in {"ACTIVE", "RETIRED"}
    /\ valid \subseteq Server /\ lapsed \subseteq Server
    /\ case \in [Case -> {"none", "PREPARED", "ACTIVE", "REVOKED"}]
    /\ plan \subseteq Case /\ stale \in BOOLEAN
    /\ root \in State /\ item \in [Case -> State]
    /\ rebuild \in State /\ expiry \in State
    /\ backup \in [Backup -> {"none", "pending", "succeeded"}]
    /\ queue \in {"none", "PENDING", "RUNNING", "PARTIAL", "FAILED", "SUCCEEDED"}
    /\ body \subseteq Case
    /\ vault \subseteq Entry \cup {"directory"}
    /\ identity \in BOOLEAN /\ stray \in BOOLEAN
    /\ at \in [Server -> {"down", "up", "opening", "calling"} \cup Cleaning]
    /\ handle \subseteq Server /\ starting \subseteq Server
    /\ first \subseteq Server /\ mine \subseteq Server
    /\ todo \in [Server -> SUBSET Entry]
    /\ passed \subseteq Case
    /\ faults \in Nat

Init ==
    /\ client = "ACTIVE" /\ valid = {} /\ lapsed = {}
    /\ case = [c \in Case |-> "none"]
    /\ plan = {} /\ stale = TRUE
    /\ root = "none" /\ item = [c \in Case |-> "none"]
    /\ rebuild = "none" /\ expiry = "none"
    /\ backup = [b \in Backup |-> "none"]
    /\ queue = "none" /\ body = {}
    /\ vault = Entry \cup {"directory"} /\ identity = TRUE /\ stray = FALSE
    /\ at = [p \in Server |-> "down"]
    /\ handle = {} /\ starting = {} /\ first = {} /\ mine = {}
    /\ todo = [p \in Server |-> {}]
    /\ passed = {} /\ faults = 0

Go(p, s) == at' = [at EXCEPT ![p] = s]

-----------------------------------------------------------------------------
(* Sessions and what they contribute.                                      *)

\* Mutant: the client is not looked up in the transaction that issues.
BeginUnchecked(p) ==
    /\ at[p] = "up"
    /\ valid' = valid \cup {p}
    /\ lapsed' = lapsed \ {p}
    /\ stale' = TRUE
    /\ Go(p, "opening")
    /\ UNCHANGED <<client, case, plan, itemVars, rootVars, queue, body, fileVars,
                   handle, starting, todo, faults>>

\* A session is begun or resumed: its capability is issued or renewed.
Begin(p) ==
    /\ at[p] = "up"
    /\ client = "ACTIVE"
    /\ valid' = valid \cup {p}
    /\ lapsed' = lapsed \ {p}
    /\ stale' = TRUE
    /\ Go(p, "opening")
    /\ UNCHANGED <<client, case, plan, itemVars, rootVars, queue, body, fileVars,
                   handle, starting, todo, faults>>

\* The worker has started, its capability was valid, and the session is open.
Opened(p) ==
    /\ at[p] = "opening"
    /\ handle' = handle \cup {p}
    /\ Go(p, "up")
    /\ UNCHANGED <<authorityVars, itemVars, rootVars, queue, body, fileVars,
                   starting, todo, faults>>

\* Or it did not start: the capability is revoked again.
OpenFailed(p) ==
    /\ at[p] = "opening"
    /\ valid' = valid \ {p}
    /\ lapsed' = IF p \in valid THEN lapsed \cup {p} ELSE lapsed
    /\ stale' = (stale \/ p \in valid)
    /\ handle' = handle \ {p}
    /\ Go(p, "up")
    /\ UNCHANGED <<client, case, plan, itemVars, rootVars, queue, body, fileVars,
                   starting, todo, faults>>

\* A request is authorized and runs in the worker.
Call(p) ==
    /\ at[p] = "up" /\ p \in handle
    /\ p \in valid /\ client = "ACTIVE"
    /\ Go(p, "calling")
    /\ UNCHANGED <<authorityVars, itemVars, rootVars, queue, body, fileVars,
                   handle, starting, todo, faults>>

Return(p) ==
    /\ at[p] = "calling"
    /\ Go(p, "up")
    /\ UNCHANGED <<authorityVars, itemVars, rootVars, queue, body, fileVars,
                   handle, starting, todo, faults>>

\* A request authorized before the deletion makes the directories it writes to.
LateWrite(p) ==
    /\ at[p] = "calling"
    /\ "directory" \in vault /\ "files" \notin vault
    /\ vault' = vault \cup {"files"}
    /\ stray' = TRUE
    /\ UNCHANGED <<authorityVars, itemVars, rootVars, queue, body, identity, at,
                   handle, starting, todo, faults>>

\* A request whose capability is no longer valid ends the worker.
Denied(p) ==
    /\ at[p] = "up" /\ p \in handle
    /\ p \notin valid
    /\ handle' = handle \ {p}
    /\ UNCHANGED <<authorityVars, itemVars, rootVars, queue, body, fileVars, at,
                   starting, todo, faults>>

\* The publisher asks for the live authority of the session within each of
\* its transactions.  No version that a deletion plan names changes.
Publishes(p) == at[p] = "up" /\ p \in handle /\ p \in valid /\ client = "ACTIVE"

PrepareCase(p, c) ==
    /\ Publishes(p)
    /\ case[c] = "none"
    /\ case' = [case EXCEPT ![c] = "PREPARED"]
    /\ body' = body \cup {c}
    /\ UNCHANGED <<client, valid, lapsed, plan, stale, itemVars, rootVars, queue,
                   fileVars, at, handle, starting, todo, faults>>

ActivateCase(p, c) ==
    /\ Publishes(p)
    /\ case[c] = "PREPARED"
    /\ case' = [case EXCEPT ![c] = "ACTIVE"]
    /\ UNCHANGED <<client, valid, lapsed, plan, stale, itemVars, rootVars, queue,
                   body, fileVars, at, handle, starting, todo, faults>>

\* Another deletion revokes a case and leaves its own tombstone.
WithdrawCase(c) ==
    /\ case[c] = "ACTIVE"
    /\ case' = [case EXCEPT ![c] = "REVOKED"]
    /\ stale' = TRUE
    /\ UNCHANGED <<client, valid, lapsed, plan, itemVars, rootVars, queue, body,
                   fileVars, at, handle, starting, todo, faults>>

-----------------------------------------------------------------------------
(* The deletion.                                                           *)

\* The plan lists the sessions and the active cases, and the versions.
Preview(p) ==
    /\ at[p] = "up" /\ p \in handle
    /\ client = "ACTIVE"
    /\ plan' = {c \in Case : case[c] = "ACTIVE"}
    /\ stale' = FALSE
    /\ UNCHANGED <<client, valid, lapsed, case, itemVars, rootVars, queue, body,
                   fileVars, at, handle, starting, todo, faults>>

\* The deletion is committed: the sessions must be those of the plan, and the
\* cases of the plan must be active.
Commit(p) ==
    /\ at[p] = "up" /\ p \in handle
    /\ client = "ACTIVE" /\ ~stale
    /\ \A c \in plan : case[c] = "ACTIVE"
    /\ client' = "RETIRED"
    /\ valid' = {}
    /\ case' = [c \in Case |-> IF c \in plan THEN "REVOKED" ELSE case[c]]
    /\ item' = [c \in Case |-> IF c \in plan THEN "PENDING" ELSE "none"]
    /\ rebuild' \in IF plan = {} THEN {"none"} ELSE {"none", "PENDING"}
    /\ root' = "PENDING" /\ expiry' = "PENDING" /\ queue' = "PENDING"
    /\ Go(p, "claim")
    /\ UNCHANGED <<lapsed, plan, stale, backup, passed, first, mine, body,
                   fileVars, handle, starting, todo, faults>>

\* The same commit again, by a server that still has its worker.
CommitAgain(p) ==
    /\ at[p] = "up" /\ p \in handle
    /\ client = "RETIRED"
    /\ Go(p, "claim")
    /\ UNCHANGED <<authorityVars, itemVars, rootVars, queue, body, fileVars,
                   handle, starting, todo, faults>>

-----------------------------------------------------------------------------
(* Cleaning up: the root item.                                             *)

\* Mutant: an item that a dead server had claimed is not taken up.
OpenUnclaimed == root \in {"PENDING", "FAILED"}

Open == root \in {"PENDING", "FAILED", "CLAIMED"}

\* Two cleanups that meet count as a fault.
Meets(p) ==
    IF \E q \in Server \ {p} : at[q] \in Cleaning
    THEN faults < MaxFaults /\ faults' = faults + 1
    ELSE UNCHANGED faults

Claim(p) ==
    /\ root' = "CLAIMED"
    /\ mine' = {p}
    /\ first' = IF root = "PENDING" THEN first \cup {p} ELSE first \ {p}
    /\ queue' = "RUNNING"
    /\ Go(p, "verify")

\* A server starts: what is left of a deletion comes first.
Start(p) ==
    /\ at[p] = "down"
    /\ IF Open
       THEN Meets(p) /\ Claim(p) /\ starting' = starting \cup {p}
       ELSE Go(p, "up") /\ UNCHANGED <<rootVars, queue, starting, faults>>
    /\ UNCHANGED <<authorityVars, itemVars, body, fileVars, handle, todo>>

\* After its commit a server closes its worker and begins.
ClaimRoot(p) ==
    /\ at[p] = "claim"
    /\ handle' = handle \ {p}
    /\ IF Open
       THEN Meets(p) /\ Claim(p)
       ELSE Go(p, "up") /\ UNCHANGED <<rootVars, queue, faults>>
    /\ UNCHANGED <<authorityVars, itemVars, body, fileVars, starting, todo>>

SessionsClosed == valid = {} /\ lapsed = {}

\* A case that was ever prepared must bear the tombstone of this deletion.
CasesClosed ==
    \A c \in Case : case[c] # "none" => case[c] = "REVOKED" /\ item[c] # "none"

SiblingsDone ==
    /\ \A c \in Case : item[c] \in {"none", "SUCCEEDED"}
    /\ rebuild \in {"none", "SUCCEEDED"}
    /\ expiry = "SUCCEEDED"

BackupsDone == \A b \in Backup : backup[b] # "pending"

Closed ==
    /\ SessionsClosed /\ CasesClosed /\ SiblingsDone
    /\ BackupsDone /\ \E b \in Backup : backup[b] = "succeeded"

\* Mutant: the items beside the root are not waited for.
VerifyAlone(p) ==
    /\ at[p] = "verify"
    /\ Go(p, IF p \notin mine THEN "refusing"
             ELSE IF SessionsClosed /\ CasesClosed THEN "scope" ELSE "failing")
    /\ UNCHANGED <<authorityVars, itemVars, rootVars, queue, body, fileVars,
                   handle, starting, todo, faults>>

\* The claim must be as it was left, and all else must be done.
Verify(p) ==
    /\ at[p] = "verify"
    /\ Go(p, IF p \notin mine THEN "refusing"
             ELSE IF Closed THEN "scope" ELSE "failing")
    /\ UNCHANGED <<authorityVars, itemVars, rootVars, queue, body, fileVars,
                   handle, starting, todo, faults>>

\* On the first attempt everything must be there; later the directory may be
\* gone or in part, as long as the marker vouches for what is left.
ScopeIsValid(p) ==
    /\ p \in first => identity /\ {"database", "marker"} \subseteq vault
    /\ vault # {} => identity
    /\ vault \cap Entry # {} => "marker" \in vault

\* Another server has the client open.
Held(p) == \E q \in Server \ {p} : q \in handle \/ at[q] \in {"opening", "calling"}

\* The worker is closed, the scope is checked and the database is emptied, which
\* may fail while another server uses it.
Scope(p) ==
    /\ at[p] = "scope"
    /\ handle' = handle \ {p}
    /\ \/ Go(p, IF ~ScopeIsValid(p) THEN "refusing"
                ELSE IF vault = {} THEN "identity" ELSE "remove")
       \/ Held(p) /\ "database" \in vault /\ \E s \in {"failing", "refusing"} : Go(p, s)
    /\ todo' = [todo EXCEPT ![p] = vault \cap Entry]
    /\ UNCHANGED <<authorityVars, itemVars, rootVars, queue, body, fileVars,
                   starting, faults>>

\* Mutant: the entries are removed in any order.
RemoveAny(p) ==
    /\ at[p] = "remove"
    /\ \E x \in todo[p] :
        \/ /\ x \in vault
           /\ vault' = vault \ {x}
           /\ todo' = [todo EXCEPT ![p] = @ \ {x}]
           /\ UNCHANGED at
        \/ /\ x \notin vault \/ Held(p)
           /\ Go(p, "failing")
           /\ UNCHANGED <<vault, todo>>
    /\ UNCHANGED <<authorityVars, itemVars, rootVars, queue, body, identity, stray,
                   handle, starting, faults>>

\* The entries that were there at the start are removed, the marker last.  An
\* entry may be gone already, or locked by another server.
Remove(p) ==
    /\ at[p] = "remove"
    /\ \E x \in todo[p] :
        /\ x = "marker" => todo[p] = {"marker"}
        /\ \/ /\ x \in vault
              /\ vault' = vault \ {x}
              /\ todo' = [todo EXCEPT ![p] = @ \ {x}]
              /\ UNCHANGED at
           \/ /\ x \notin vault \/ Held(p)
              /\ Go(p, "failing")
              /\ UNCHANGED <<vault, todo>>
    /\ UNCHANGED <<authorityVars, itemVars, rootVars, queue, body, identity, stray,
                   handle, starting, faults>>

\* Then the directory, which must be empty.
RemoveDirectory(p) ==
    /\ at[p] = "remove" /\ todo[p] = {}
    /\ \/ vault = {"directory"} /\ vault' = {} /\ Go(p, "identity")
       \/ /\ vault # {"directory"} \/ Held(p)
          /\ Go(p, "failing")
          /\ UNCHANGED vault
    /\ UNCHANGED <<authorityVars, itemVars, rootVars, queue, body, identity, stray,
                   handle, starting, todo, faults>>

EraseIdentity(p) ==
    /\ at[p] = "identity"
    /\ identity' = FALSE
    /\ Go(p, IF p \in first /\ ~identity THEN "refusing" ELSE "post")
    /\ UNCHANGED <<authorityVars, itemVars, rootVars, queue, body, vault, stray,
                   handle, starting, todo, faults>>

\* The claim may have been taken over meanwhile, but not given up.
Postcheck(p) ==
    /\ at[p] = "post"
    /\ Go(p, IF vault # {} \/ identity \/ root # "CLAIMED" THEN "refusing"
             ELSE IF Closed THEN "mark" ELSE "failing")
    /\ UNCHANGED <<authorityVars, itemVars, rootVars, queue, body, fileVars,
                   handle, starting, todo, faults>>

\* A cleanup that ends with an error ends the start of its server.
End(p, raised) ==
    /\ Go(p, IF raised /\ p \in starting THEN "down" ELSE "up")
    /\ starting' = starting \ {p}
    /\ todo' = [todo EXCEPT ![p] = {}]

\* The last acknowledgement completes the request.  The database refuses it
\* after a failure, and while anything is left.
MarkSucceeded(p) ==
    /\ at[p] = "mark"
    /\ IF root = "CLAIMED" /\ SiblingsDone /\ BackupsDone /\ queue # "FAILED"
       THEN /\ root' = "SUCCEEDED" /\ queue' = "SUCCEEDED"
            /\ End(p, FALSE)
       ELSE /\ Go(p, "refusing")
            /\ UNCHANGED <<root, queue, starting, todo>>
    /\ UNCHANGED <<authorityVars, itemVars, first, mine, body, fileVars, handle,
                   faults>>

\* Whoever fails ends the claim, be it another server's.
MarkFailed(p) ==
    /\ at[p] \in {"failing", "refusing"}
    /\ IF root = "CLAIMED"
       THEN /\ root' = "FAILED"
            /\ mine' = {}
            /\ queue' = IF queue \in {"RUNNING", "PARTIAL"} THEN "FAILED" ELSE queue
       ELSE UNCHANGED <<root, mine, queue>>
    /\ End(p, at[p] = "refusing" \/ root \notin {"CLAIMED", "FAILED"})
    /\ UNCHANGED <<authorityVars, itemVars, first, body, fileVars, handle, faults>>

-----------------------------------------------------------------------------
(* Cleaning up: the other items.                                           *)

\* Mutant: the request is not put back to work.
ItemClaimQuietly(c) ==
    /\ item[c] \in {"PENDING", "FAILED", "CLAIMED"}
    /\ item' = [item EXCEPT ![c] = "CLAIMED"]
    /\ passed' = passed \ {c}
    /\ UNCHANGED <<authorityVars, rebuild, expiry, backup, rootVars, queue, body,
                   fileVars, at, handle, starting, todo, faults>>

ItemClaim(c) ==
    /\ item[c] \in {"PENDING", "FAILED", "CLAIMED"}
    /\ item' = [item EXCEPT ![c] = "CLAIMED"]
    /\ passed' = passed \ {c}
    /\ queue' = "RUNNING"
    /\ UNCHANGED <<authorityVars, rebuild, expiry, backup, rootVars, body,
                   fileVars, at, handle, starting, todo, faults>>

\* A body may be destroyed when nothing is to be rebuilt from it any more and
\* no backup of it waits.
ItemClear(c) ==
    /\ item[c] = "CLAIMED" /\ c \notin passed
    /\ rebuild \in {"none", "SUCCEEDED"} /\ BackupsDone
    /\ passed' = passed \cup {c}
    /\ body' = body \ {c}
    /\ UNCHANGED <<authorityVars, item, rebuild, expiry, backup, rootVars, queue,
                   fileVars, at, handle, starting, todo, faults>>

ItemFail(c) ==
    /\ item[c] = "CLAIMED"
    /\ item' = [item EXCEPT ![c] = "FAILED"]
    /\ queue' = IF queue = "RUNNING" THEN "FAILED" ELSE queue
    /\ UNCHANGED <<authorityVars, rebuild, expiry, backup, passed, rootVars, body,
                   fileVars, at, handle, starting, todo, faults>>

ItemDone(c) ==
    /\ item[c] = "CLAIMED" /\ c \in passed
    /\ item' = [item EXCEPT ![c] = "SUCCEEDED"]
    /\ queue' = IF queue = "RUNNING" THEN "PARTIAL" ELSE queue
    /\ UNCHANGED <<authorityVars, rebuild, expiry, backup, passed, rootVars, body,
                   fileVars, at, handle, starting, todo, faults>>

\* The rebuild job of the deletion is claimed, fails, or is activated.
RebuildClaim ==
    /\ rebuild \in {"PENDING", "CLAIMED", "FAILED"}
    /\ rebuild' = "CLAIMED" /\ queue' = "RUNNING"
    /\ UNCHANGED <<authorityVars, item, expiry, backup, passed, rootVars, body,
                   fileVars, at, handle, starting, todo, faults>>

RebuildFail ==
    /\ rebuild \in {"PENDING", "CLAIMED", "FAILED"}
    /\ rebuild' = "FAILED" /\ queue' = "FAILED"
    /\ UNCHANGED <<authorityVars, item, expiry, backup, passed, rootVars, body,
                   fileVars, at, handle, starting, todo, faults>>

RebuildAck ==
    /\ rebuild \in {"PENDING", "CLAIMED"}
    /\ rebuild' = "SUCCEEDED" /\ queue' = "PARTIAL"
    /\ UNCHANGED <<authorityVars, item, expiry, backup, passed, rootVars, body,
                   fileVars, at, handle, starting, todo, faults>>

\* An operator registers a backup set, whenever, and proves it destroyed; the
\* item is acknowledged in a transaction of its own.
Enqueue(b) ==
    /\ expiry # "none" /\ backup[b] = "none"
    /\ backup' = [backup EXCEPT ![b] = "pending"]
    /\ UNCHANGED <<authorityVars, item, rebuild, expiry, passed, rootVars, queue,
                   body, fileVars, at, handle, starting, todo, faults>>

Destroy(b) ==
    /\ backup[b] = "pending"
    /\ backup' = [backup EXCEPT ![b] = "succeeded"]
    /\ UNCHANGED <<authorityVars, item, rebuild, expiry, passed, rootVars, queue,
                   body, fileVars, at, handle, starting, todo, faults>>

AckBackup(b) ==
    /\ backup[b] = "succeeded" /\ expiry = "PENDING"
    /\ expiry' = "SUCCEEDED"
    /\ UNCHANGED <<authorityVars, item, rebuild, backup, passed, rootVars, queue,
                   body, fileVars, at, handle, starting, todo, faults>>

-----------------------------------------------------------------------------
Down(p) ==
    /\ Go(p, "down")
    /\ handle' = handle \ {p}
    /\ starting' = starting \ {p}
    /\ todo' = [todo EXCEPT ![p] = {}]
    /\ UNCHANGED <<authorityVars, itemVars, rootVars, queue, body, fileVars>>

\* A server is stopped.
Stop(p) == at[p] \in {"up", "opening", "calling"} /\ Down(p) /\ UNCHANGED faults

\* It dies while it cleans up.
Crash(p) ==
    /\ at[p] \in Cleaning
    /\ faults < MaxFaults /\ faults' = faults + 1
    /\ Down(p)

CleanStep(p) ==
    \/ ClaimRoot(p) \/ Verify(p) \/ Scope(p) \/ Remove(p) \/ RemoveDirectory(p)
    \/ EraseIdentity(p) \/ Postcheck(p) \/ MarkSucceeded(p) \/ MarkFailed(p)

SessionStep(p) ==
    \/ Begin(p) \/ Opened(p) \/ OpenFailed(p)
    \/ Call(p) \/ Return(p) \/ LateWrite(p) \/ Denied(p)
    \/ Preview(p) \/ Commit(p) \/ CommitAgain(p)
    \/ \E c \in Case : PrepareCase(p, c) \/ ActivateCase(p, c)

ItemStep ==
    \/ \E c \in Case : ItemClaim(c) \/ ItemClear(c) \/ ItemFail(c) \/ ItemDone(c)
    \/ RebuildClaim \/ RebuildFail \/ RebuildAck
    \/ \E b \in Backup : Enqueue(b) \/ Destroy(b) \/ AckBackup(b)

Next ==
    \/ \E p \in Server :
        SessionStep(p) \/ Start(p) \/ CleanStep(p) \/ Stop(p) \/ Crash(p)
    \/ ItemStep
    \/ \E c \in Case : WithdrawCase(c)

Spec == Init /\ [][Next]_vars

\* A cleanup takes its next step; servers are stopped and started again.
Fairness ==
    \A p \in Server :
        WF_vars(CleanStep(p)) /\ WF_vars(Start(p)) /\ WF_vars(Stop(p))

LiveSpec == Spec /\ Fairness

-----------------------------------------------------------------------------
(* Properties.                                                             *)

\* The directory is touched only when all else is done: nothing leads to the
\* client any more, the bodies of its cases and its backups are destroyed, and
\* what was built from them is rebuilt.
VaultLast ==
    vault # Entry \cup {"directory"} \/ ~identity =>
        /\ client = "RETIRED" /\ valid = {}
        /\ \A c \in Case : case[c] \notin {"PREPARED", "ACTIVE"} /\ (item[c] # "none" => c \notin body)
        /\ rebuild \in {"none", "SUCCEEDED"} /\ expiry = "SUCCEEDED"

\* Whatever died in between, what is left of a directory can be told to be the
\* client's, so that the next attempt may go on, unless a late request wrote.
ScopeStaysProven ==
    ~stray /\ vault \cap Entry # {} => "marker" \in vault

\* The acknowledgement that completes the deletion is never refused because
\* of an earlier failure of another item.
LastStepIsAccepted ==
    root = "CLAIMED" /\ SiblingsDone => queue \in {"RUNNING", "PARTIAL"}

\* Nobody else has the client open.
Quiet == handle = {} /\ \A p \in Server : at[p] \notin {"opening", "calling"}

\* A deletion whose other items are done is completed eventually, although
\* servers die while they clean up and meet at it.
EventuallyErased ==
    <>[](Closed /\ Quiet /\ ~stray) => (client = "RETIRED" ~> root = "SUCCEEDED")

\* deletion.md: the contributions of a client are revoked before all else, so
\* that no retrieval finds them.
NothingStaysShared ==
    client = "RETIRED" => \A c \in Case : case[c] # "ACTIVE"

Erased == INSTANCE ErasedClient WITH
    Way <- Server \cup Case,
    Copy <- Case,
    phase <- IF client = "ACTIVE" THEN "kept"
             ELSE IF root = "SUCCEEDED" THEN "erased" ELSE "retired",
    reach <- valid \cup {c \in Case : case[c] = "ACTIVE"},
    copies <- body,
    vault <- vault # {}

ImplementsErasure == Erased!Spec
=============================================================================
