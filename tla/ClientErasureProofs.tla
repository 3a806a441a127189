------------------------ MODULE ClientErasureProofs ------------------------
(***************************************************************************)
(* Proofs about ClientErasure: its types, that the directory goes last,    *)
(* that what is left of it stays provably the client's, that the last      *)
(* acknowledgement is not refused, and that it implements ErasedClient.    *)
(***************************************************************************)
EXTENDS ClientErasure, TLAPS

USE DEF authorityVars, itemVars, rootVars, fileVars, Go

Whole == Entry \cup {"directory"}

\* Nothing is queued or touched before the deletion, and no session outlives it.
Kept ==
    /\ client = "ACTIVE" =>
        /\ root = "none" /\ rebuild = "none" /\ expiry = "none" /\ queue = "none"
        /\ \A c \in Case : item[c] = "none"
        /\ passed = {}
        /\ vault = Whole /\ identity /\ ~stray
        /\ \A p \in Server : at[p] \notin Cleaning
    /\ client = "RETIRED" =>
        valid = {} /\ root # "none" /\ expiry # "none" /\ queue # "none"

\* All else is done; once so, it stays so.
Done ==
    /\ client = "RETIRED"
    /\ valid = {} /\ lapsed = {}
    /\ CasesClosed
    /\ SiblingsDone

Destroying == {"scope", "remove", "identity", "post", "mark"}

\* Nothing of the client's own is touched before all else is done.
DoneFirst ==
    /\ \A p \in Server : at[p] \in Destroying => Done
    /\ vault # Whole \/ ~identity \/ stray \/ root = "SUCCEEDED" => Done

\* An item is done only when the body it stands for is gone.
BodiesGone ==
    \A c \in Case :
        /\ c \in passed => c \notin body
        /\ item[c] = "SUCCEEDED" => c \in passed
        /\ c \in body => case[c] # "none"

\* The directory goes before the entry of the identity map.
FilesInOrder ==
    /\ vault # {} => "directory" \in vault
    /\ ~identity \/ root = "SUCCEEDED" => vault = {}
    /\ root = "SUCCEEDED" => ~identity
    /\ \A p \in Server : at[p] \in {"identity", "post", "mark"} => vault = {}
    /\ \A p \in Server : at[p] \in {"post", "mark"} => ~identity

\* What is left of the directory is what some cleanup has yet to remove.
MarkerLast ==
    ~stray =>
        /\ vault \cap Entry # {} => "marker" \in vault
        /\ \A p \in Server : at[p] = "remove" => vault \cap Entry \subseteq todo[p]

\* Once the root is claimed only another item's failure fails the request.
QueueFollows ==
    root = "CLAIMED" =>
        \/ queue \in {"RUNNING", "PARTIAL"}
        \/ \E c \in Case : item[c] = "FAILED"
        \/ rebuild = "FAILED"

Inv == TypeOK /\ Kept /\ DoneFirst /\ BodiesGone /\ FilesInOrder /\ MarkerLast /\ QueueFollows

\* Every step keeps the types.
LEMMA TypeStep == TypeOK /\ [Next]_vars => TypeOK'
<1> SUFFICES ASSUME TypeOK, [Next]_vars PROVE TypeOK'
  OBVIOUS
<1> USE DEF TypeOK, State, Entry, Cleaning
<1>1. ASSUME NEW p \in Server, Begin(p) PROVE TypeOK'
  BY <1>1 DEF Begin
<1>2. ASSUME NEW p \in Server, Opened(p) PROVE TypeOK'
  BY <1>2 DEF Opened
<1>3. ASSUME NEW p \in Server, OpenFailed(p) PROVE TypeOK'
  BY <1>3 DEF OpenFailed
<1>4. ASSUME NEW p \in Server, Call(p) PROVE TypeOK'
  BY <1>4 DEF Call
<1>5. ASSUME NEW p \in Server, Return(p) PROVE TypeOK'
  BY <1>5 DEF Return
<1>6. ASSUME NEW p \in Server, LateWrite(p) PROVE TypeOK'
  BY <1>6 DEF LateWrite
<1>7. ASSUME NEW p \in Server, Denied(p) PROVE TypeOK'
  BY <1>7 DEF Denied
<1>8. ASSUME NEW p \in Server, Preview(p) PROVE TypeOK'
  <2>1. plan' \subseteq Case /\ stale' \in BOOLEAN
    BY <1>8 DEF Preview
  <2>2. UNCHANGED <<client, valid, lapsed, case, itemVars, rootVars, queue, body,
                      fileVars, at, handle, starting, todo, faults>>
    BY <1>8 DEF Preview
  <2>3. QED
    BY <2>1, <2>2
<1>9. ASSUME NEW p \in Server, Commit(p) PROVE TypeOK'
  BY <1>9 DEF Commit
<1>10. ASSUME NEW p \in Server, CommitAgain(p) PROVE TypeOK'
  BY <1>10 DEF CommitAgain
<1>11. ASSUME NEW p \in Server, Start(p) PROVE TypeOK'
  BY <1>11 DEF Start, Claim, Meets, Open
<1>12. ASSUME NEW p \in Server, ClaimRoot(p) PROVE TypeOK'
  BY <1>12 DEF ClaimRoot, Claim, Meets, Open
<1>13. ASSUME NEW p \in Server, Verify(p) PROVE TypeOK'
  BY <1>13 DEF Verify
<1>14. ASSUME NEW p \in Server, Scope(p) PROVE TypeOK'
  BY <1>14 DEF Scope
<1>15. ASSUME NEW p \in Server, Remove(p) PROVE TypeOK'
  <2>1. vault' \subseteq Entry \cup {"directory"}
    BY <1>15 DEF Remove
  <2>2. at' \in [Server -> {"down", "up", "opening", "calling"} \cup Cleaning]
    BY <1>15 DEF Remove
  <2>3. todo' \in [Server -> SUBSET Entry]
    BY <1>15 DEF Remove
  <2>4. QED
    BY <1>15, <2>1, <2>2, <2>3 DEF Remove
<1>16. ASSUME NEW p \in Server, RemoveDirectory(p) PROVE TypeOK'
  <2>1. vault' \subseteq Entry \cup {"directory"}
    BY <1>16 DEF RemoveDirectory
  <2>2. at' \in [Server -> {"down", "up", "opening", "calling"} \cup Cleaning]
    BY <1>16 DEF RemoveDirectory
  <2>3. QED
    BY <1>16, <2>1, <2>2 DEF RemoveDirectory
<1>17. ASSUME NEW p \in Server, EraseIdentity(p) PROVE TypeOK'
  <2>1. at' \in [Server -> {"down", "up", "opening", "calling"} \cup Cleaning]
    BY <1>17 DEF EraseIdentity
  <2>2. /\ identity' \in BOOLEAN
       /\ UNCHANGED <<authorityVars, itemVars, rootVars, queue, body, vault, stray,
                      handle, starting, todo, faults>>
    BY <1>17 DEF EraseIdentity
  <2>3. QED
    BY <2>1, <2>2
<1>18. ASSUME NEW p \in Server, Postcheck(p) PROVE TypeOK'
  <2>1. at' \in [Server -> {"down", "up", "opening", "calling"} \cup Cleaning]
    BY <1>18 DEF Postcheck
  <2>2. QED
    BY <1>18, <2>1 DEF Postcheck
<1>19. ASSUME NEW p \in Server, MarkSucceeded(p) PROVE TypeOK'
  BY <1>19 DEF MarkSucceeded, End
<1>20. ASSUME NEW p \in Server, MarkFailed(p) PROVE TypeOK'
  <2>1. at' \in [Server -> {"down", "up", "opening", "calling"} \cup Cleaning]
    BY <1>20 DEF MarkFailed, End
  <2>2. /\ starting' \subseteq Server
       /\ todo' \in [Server -> SUBSET Entry]
    BY <1>20 DEF MarkFailed, End
  <2>3. /\ root' \in State /\ mine' \subseteq Server
       /\ queue' \in {"none", "PENDING", "RUNNING", "PARTIAL", "FAILED", "SUCCEEDED"}
    BY <1>20 DEF MarkFailed, End
  <2>4. QED
    BY <1>20, <2>1, <2>2, <2>3 DEF MarkFailed, End
<1>21. ASSUME NEW p \in Server, Stop(p) PROVE TypeOK'
  <2>1. at' \in [Server -> {"down", "up", "opening", "calling"} \cup Cleaning]
    BY <1>21 DEF Stop, Down
  <2>2. /\ handle' \subseteq Server /\ starting' \subseteq Server
       /\ todo' \in [Server -> SUBSET Entry]
       /\ faults' \in Nat
    BY <1>21 DEF Stop, Down
  <2>3. QED
    BY <1>21, <2>1, <2>2 DEF Stop, Down
<1>22. ASSUME NEW p \in Server, Crash(p) PROVE TypeOK'
  <2>1. at' \in [Server -> {"down", "up", "opening", "calling"} \cup Cleaning]
    BY <1>22 DEF Crash, Down
  <2>2. /\ handle' \subseteq Server /\ starting' \subseteq Server
       /\ todo' \in [Server -> SUBSET Entry]
       /\ faults' \in Nat
    BY <1>22 DEF Crash, Down
  <2>3. QED
    BY <1>22, <2>1, <2>2 DEF Crash, Down
<1>23. ASSUME NEW p \in Server, NEW c \in Case, PrepareCase(p, c) PROVE TypeOK'
  BY <1>23 DEF PrepareCase, Publishes
<1>24. ASSUME NEW p \in Server, NEW c \in Case, ActivateCase(p, c) PROVE TypeOK'
  BY <1>24 DEF ActivateCase, Publishes
<1>25. ASSUME NEW c \in Case, ItemClaim(c) PROVE TypeOK'
  BY <1>25 DEF ItemClaim
<1>26. ASSUME NEW c \in Case, ItemClear(c) PROVE TypeOK'
  BY <1>26 DEF ItemClear
<1>27. ASSUME NEW c \in Case, ItemFail(c) PROVE TypeOK'
  BY <1>27 DEF ItemFail
<1>28. ASSUME NEW c \in Case, ItemDone(c) PROVE TypeOK'
  BY <1>28 DEF ItemDone
<1>29. ASSUME NEW c \in Case, WithdrawCase(c) PROVE TypeOK'
  BY <1>29 DEF WithdrawCase
<1>30. ASSUME NEW b \in Backup, Enqueue(b) PROVE TypeOK'
  BY <1>30 DEF Enqueue
<1>31. ASSUME NEW b \in Backup, Destroy(b) PROVE TypeOK'
  BY <1>31 DEF Destroy
<1>32. ASSUME NEW b \in Backup, AckBackup(b) PROVE TypeOK'
  BY <1>32 DEF AckBackup
<1>33. ASSUME RebuildClaim PROVE TypeOK'
  BY <1>33 DEF RebuildClaim
<1>34. ASSUME RebuildFail PROVE TypeOK'
  BY <1>34 DEF RebuildFail
<1>35. ASSUME RebuildAck PROVE TypeOK'
  BY <1>35 DEF RebuildAck
<1>36. CASE UNCHANGED vars
  BY <1>36 DEF vars
<1>37. QED
  BY <1>1, <1>2, <1>3, <1>4, <1>5, <1>6, <1>7, <1>8, <1>9, <1>10,
     <1>11, <1>12, <1>13, <1>14, <1>15, <1>16, <1>17, <1>18, <1>19, <1>20,
     <1>21, <1>22, <1>23, <1>24, <1>25, <1>26, <1>27, <1>28, <1>29, <1>30,
     <1>31, <1>32, <1>33, <1>34, <1>35, <1>36
  DEF Next, SessionStep, CleanStep, ItemStep

\* What is queued, and what a session may do, follow the client's state.
LEMMA KeptStep == TypeOK /\ Kept /\ [Next]_vars => Kept'
<1> SUFFICES ASSUME TypeOK /\ Kept, [Next]_vars PROVE Kept'
  OBVIOUS
<1> USE DEF TypeOK, Kept, State, Cleaning, Whole
<1>1. ASSUME NEW p \in Server, Begin(p) PROVE Kept'
  BY <1>1 DEF Begin
<1>2. ASSUME NEW p \in Server, Opened(p) PROVE Kept'
  BY <1>2 DEF Opened
<1>3. ASSUME NEW p \in Server, OpenFailed(p) PROVE Kept'
  BY <1>3 DEF OpenFailed
<1>4. ASSUME NEW p \in Server, Call(p) PROVE Kept'
  BY <1>4 DEF Call
<1>5. ASSUME NEW p \in Server, Return(p) PROVE Kept'
  BY <1>5 DEF Return
<1>6. ASSUME NEW p \in Server, LateWrite(p) PROVE Kept'
  BY <1>6 DEF LateWrite, Entry
<1>7. ASSUME NEW p \in Server, Denied(p) PROVE Kept'
  BY <1>7 DEF Denied
<1>8. ASSUME NEW p \in Server, Preview(p) PROVE Kept'
  BY <1>8 DEF Preview
<1>9. ASSUME NEW p \in Server, Commit(p) PROVE Kept'
  BY <1>9 DEF Commit
<1>10. ASSUME NEW p \in Server, CommitAgain(p) PROVE Kept'
  BY <1>10 DEF CommitAgain
<1>11. ASSUME NEW p \in Server, Start(p) PROVE Kept'
  BY <1>11 DEF Start, Claim, Meets, Open
<1>12. ASSUME NEW p \in Server, ClaimRoot(p) PROVE Kept'
  BY <1>12 DEF ClaimRoot, Claim, Meets, Open
<1>13. ASSUME NEW p \in Server, Verify(p) PROVE Kept'
  BY <1>13 DEF Verify
<1>14. ASSUME NEW p \in Server, Scope(p) PROVE Kept'
  BY <1>14 DEF Scope
<1>15. ASSUME NEW p \in Server, Remove(p) PROVE Kept'
  BY <1>15 DEF Remove
<1>16. ASSUME NEW p \in Server, RemoveDirectory(p) PROVE Kept'
  BY <1>16 DEF RemoveDirectory
<1>17. ASSUME NEW p \in Server, EraseIdentity(p) PROVE Kept'
  BY <1>17 DEF EraseIdentity
<1>18. ASSUME NEW p \in Server, Postcheck(p) PROVE Kept'
  BY <1>18 DEF Postcheck
<1>19. ASSUME NEW p \in Server, MarkSucceeded(p) PROVE Kept'
  BY <1>19 DEF MarkSucceeded, End
<1>20. ASSUME NEW p \in Server, MarkFailed(p) PROVE Kept'
  BY <1>20 DEF MarkFailed, End
<1>21. ASSUME NEW p \in Server, Stop(p) PROVE Kept'
  BY <1>21 DEF Stop, Down
<1>22. ASSUME NEW p \in Server, Crash(p) PROVE Kept'
  BY <1>22 DEF Crash, Down
<1>23. ASSUME NEW p \in Server, NEW c \in Case, PrepareCase(p, c) PROVE Kept'
  BY <1>23 DEF PrepareCase, Publishes
<1>24. ASSUME NEW p \in Server, NEW c \in Case, ActivateCase(p, c) PROVE Kept'
  BY <1>24 DEF ActivateCase, Publishes
<1>25. ASSUME NEW c \in Case, ItemClaim(c) PROVE Kept'
  BY <1>25 DEF ItemClaim
<1>26. ASSUME NEW c \in Case, ItemClear(c) PROVE Kept'
  BY <1>26 DEF ItemClear
<1>27. ASSUME NEW c \in Case, ItemFail(c) PROVE Kept'
  BY <1>27 DEF ItemFail
<1>28. ASSUME NEW c \in Case, ItemDone(c) PROVE Kept'
  BY <1>28 DEF ItemDone
<1>29. ASSUME NEW c \in Case, WithdrawCase(c) PROVE Kept'
  BY <1>29 DEF WithdrawCase
<1>30. ASSUME NEW b \in Backup, Enqueue(b) PROVE Kept'
  BY <1>30 DEF Enqueue
<1>31. ASSUME NEW b \in Backup, Destroy(b) PROVE Kept'
  BY <1>31 DEF Destroy
<1>32. ASSUME NEW b \in Backup, AckBackup(b) PROVE Kept'
  BY <1>32 DEF AckBackup
<1>33. ASSUME RebuildClaim PROVE Kept'
  BY <1>33 DEF RebuildClaim
<1>34. ASSUME RebuildFail PROVE Kept'
  BY <1>34 DEF RebuildFail
<1>35. ASSUME RebuildAck PROVE Kept'
  BY <1>35 DEF RebuildAck
<1>36. CASE UNCHANGED vars
  BY <1>36 DEF vars
<1>37. QED
  BY <1>1, <1>2, <1>3, <1>4, <1>5, <1>6, <1>7, <1>8, <1>9, <1>10,
     <1>11, <1>12, <1>13, <1>14, <1>15, <1>16, <1>17, <1>18, <1>19, <1>20,
     <1>21, <1>22, <1>23, <1>24, <1>25, <1>26, <1>27, <1>28, <1>29, <1>30,
     <1>31, <1>32, <1>33, <1>34, <1>35, <1>36
  DEF Next, SessionStep, CleanStep, ItemStep

\* Nothing undoes what the deletion waited for.
LEMMA DoneStep == TypeOK /\ Kept /\ Done /\ [Next]_vars => Done'
<1> SUFFICES ASSUME TypeOK /\ Kept /\ Done, [Next]_vars PROVE Done'
  OBVIOUS
<1> USE DEF TypeOK, Kept, Done, State, Cleaning, CasesClosed, SiblingsDone
<1>1. ASSUME NEW p \in Server, Begin(p) PROVE Done'
  BY <1>1 DEF Begin
<1>2. ASSUME NEW p \in Server, Opened(p) PROVE Done'
  BY <1>2 DEF Opened
<1>3. ASSUME NEW p \in Server, OpenFailed(p) PROVE Done'
  BY <1>3 DEF OpenFailed
<1>4. ASSUME NEW p \in Server, Call(p) PROVE Done'
  BY <1>4 DEF Call
<1>5. ASSUME NEW p \in Server, Return(p) PROVE Done'
  BY <1>5 DEF Return
<1>6. ASSUME NEW p \in Server, LateWrite(p) PROVE Done'
  BY <1>6 DEF LateWrite
<1>7. ASSUME NEW p \in Server, Denied(p) PROVE Done'
  BY <1>7 DEF Denied
<1>8. ASSUME NEW p \in Server, Preview(p) PROVE Done'
  BY <1>8 DEF Preview
<1>9. ASSUME NEW p \in Server, Commit(p) PROVE Done'
  BY <1>9 DEF Commit
<1>10. ASSUME NEW p \in Server, CommitAgain(p) PROVE Done'
  BY <1>10 DEF CommitAgain
<1>11. ASSUME NEW p \in Server, Start(p) PROVE Done'
  BY <1>11 DEF Start, Claim, Meets, Open
<1>12. ASSUME NEW p \in Server, ClaimRoot(p) PROVE Done'
  BY <1>12 DEF ClaimRoot, Claim, Meets, Open
<1>13. ASSUME NEW p \in Server, Verify(p) PROVE Done'
  BY <1>13 DEF Verify
<1>14. ASSUME NEW p \in Server, Scope(p) PROVE Done'
  BY <1>14 DEF Scope
<1>15. ASSUME NEW p \in Server, Remove(p) PROVE Done'
  BY <1>15 DEF Remove
<1>16. ASSUME NEW p \in Server, RemoveDirectory(p) PROVE Done'
  BY <1>16 DEF RemoveDirectory
<1>17. ASSUME NEW p \in Server, EraseIdentity(p) PROVE Done'
  BY <1>17 DEF EraseIdentity
<1>18. ASSUME NEW p \in Server, Postcheck(p) PROVE Done'
  BY <1>18 DEF Postcheck
<1>19. ASSUME NEW p \in Server, MarkSucceeded(p) PROVE Done'
  BY <1>19 DEF MarkSucceeded, End
<1>20. ASSUME NEW p \in Server, MarkFailed(p) PROVE Done'
  BY <1>20 DEF MarkFailed, End
<1>21. ASSUME NEW p \in Server, Stop(p) PROVE Done'
  BY <1>21 DEF Stop, Down
<1>22. ASSUME NEW p \in Server, Crash(p) PROVE Done'
  BY <1>22 DEF Crash, Down
<1>23. ASSUME NEW p \in Server, NEW c \in Case, PrepareCase(p, c) PROVE Done'
  BY <1>23 DEF PrepareCase, Publishes
<1>24. ASSUME NEW p \in Server, NEW c \in Case, ActivateCase(p, c) PROVE Done'
  BY <1>24 DEF ActivateCase, Publishes
<1>25. ASSUME NEW c \in Case, ItemClaim(c) PROVE Done'
  BY <1>25 DEF ItemClaim
<1>26. ASSUME NEW c \in Case, ItemClear(c) PROVE Done'
  BY <1>26 DEF ItemClear
<1>27. ASSUME NEW c \in Case, ItemFail(c) PROVE Done'
  BY <1>27 DEF ItemFail
<1>28. ASSUME NEW c \in Case, ItemDone(c) PROVE Done'
  BY <1>28 DEF ItemDone
<1>29. ASSUME NEW c \in Case, WithdrawCase(c) PROVE Done'
  BY <1>29 DEF WithdrawCase
<1>30. ASSUME NEW b \in Backup, Enqueue(b) PROVE Done'
  BY <1>30 DEF Enqueue
<1>31. ASSUME NEW b \in Backup, Destroy(b) PROVE Done'
  BY <1>31 DEF Destroy
<1>32. ASSUME NEW b \in Backup, AckBackup(b) PROVE Done'
  BY <1>32 DEF AckBackup
<1>33. ASSUME RebuildClaim PROVE Done'
  BY <1>33 DEF RebuildClaim
<1>34. ASSUME RebuildFail PROVE Done'
  BY <1>34 DEF RebuildFail
<1>35. ASSUME RebuildAck PROVE Done'
  BY <1>35 DEF RebuildAck
<1>36. CASE UNCHANGED vars
  BY <1>36 DEF vars
<1>37. QED
  BY <1>1, <1>2, <1>3, <1>4, <1>5, <1>6, <1>7, <1>8, <1>9, <1>10,
     <1>11, <1>12, <1>13, <1>14, <1>15, <1>16, <1>17, <1>18, <1>19, <1>20,
     <1>21, <1>22, <1>23, <1>24, <1>25, <1>26, <1>27, <1>28, <1>29, <1>30,
     <1>31, <1>32, <1>33, <1>34, <1>35, <1>36
  DEF Next, SessionStep, CleanStep, ItemStep

\* A server goes on to destroy only when all else is done.
LEMMA DoneFirstStep == TypeOK /\ Kept /\ DoneFirst /\ [Next]_vars => DoneFirst'
<1> SUFFICES ASSUME TypeOK /\ Kept /\ DoneFirst, [Next]_vars PROVE DoneFirst'
  OBVIOUS
<1> USE DEF TypeOK, Kept, DoneFirst, Cleaning, Destroying
<1>1. ASSUME NEW p \in Server, Begin(p) PROVE DoneFirst'
  BY <1>1, DoneStep DEF Begin
<1>2. ASSUME NEW p \in Server, Opened(p) PROVE DoneFirst'
  BY <1>2, DoneStep DEF Opened
<1>3. ASSUME NEW p \in Server, OpenFailed(p) PROVE DoneFirst'
  BY <1>3, DoneStep DEF OpenFailed
<1>4. ASSUME NEW p \in Server, Call(p) PROVE DoneFirst'
  BY <1>4, DoneStep DEF Call
<1>5. ASSUME NEW p \in Server, Return(p) PROVE DoneFirst'
  BY <1>5, DoneStep DEF Return
<1>6. ASSUME NEW p \in Server, LateWrite(p) PROVE DoneFirst'
  BY <1>6, DoneStep DEF LateWrite, Whole, Entry
<1>7. ASSUME NEW p \in Server, Denied(p) PROVE DoneFirst'
  BY <1>7, DoneStep DEF Denied
<1>8. ASSUME NEW p \in Server, Preview(p) PROVE DoneFirst'
  BY <1>8, DoneStep DEF Preview
<1>9. ASSUME NEW p \in Server, Commit(p) PROVE DoneFirst'
  BY <1>9, DoneStep DEF Commit
<1>10. ASSUME NEW p \in Server, CommitAgain(p) PROVE DoneFirst'
  BY <1>10, DoneStep DEF CommitAgain
<1>11. ASSUME NEW p \in Server, Start(p) PROVE DoneFirst'
  BY <1>11, DoneStep DEF Start, Claim, Meets, Open
<1>12. ASSUME NEW p \in Server, ClaimRoot(p) PROVE DoneFirst'
  BY <1>12, DoneStep DEF ClaimRoot, Claim, Meets, Open
<1>13. ASSUME NEW p \in Server, Verify(p) PROVE DoneFirst'
  <2>1. Closed /\ client = "RETIRED" => Done
    BY DEF Closed, SessionsClosed, Done
  <2>2. client = "RETIRED"
    BY <1>13 DEF Verify
  <2>3. Done => Done'
    BY DoneStep
  <2>4. QED
    BY <1>13, <2>1, <2>2, <2>3 DEF Verify
<1>14. ASSUME NEW p \in Server, Scope(p) PROVE DoneFirst'
  BY <1>14, DoneStep DEF Scope
<1>15. ASSUME NEW p \in Server, Remove(p) PROVE DoneFirst'
  BY <1>15, DoneStep DEF Remove
<1>16. ASSUME NEW p \in Server, RemoveDirectory(p) PROVE DoneFirst'
  BY <1>16, DoneStep DEF RemoveDirectory
<1>17. ASSUME NEW p \in Server, EraseIdentity(p) PROVE DoneFirst'
  BY <1>17, DoneStep DEF EraseIdentity
<1>18. ASSUME NEW p \in Server, Postcheck(p) PROVE DoneFirst'
  BY <1>18, DoneStep DEF Postcheck
<1>19. ASSUME NEW p \in Server, MarkSucceeded(p) PROVE DoneFirst'
  BY <1>19, DoneStep DEF MarkSucceeded, End
<1>20. ASSUME NEW p \in Server, MarkFailed(p) PROVE DoneFirst'
  BY <1>20, DoneStep DEF MarkFailed, End
<1>21. ASSUME NEW p \in Server, Stop(p) PROVE DoneFirst'
  BY <1>21, DoneStep DEF Stop, Down
<1>22. ASSUME NEW p \in Server, Crash(p) PROVE DoneFirst'
  BY <1>22, DoneStep DEF Crash, Down
<1>23. ASSUME NEW p \in Server, NEW c \in Case, PrepareCase(p, c) PROVE DoneFirst'
  BY <1>23, DoneStep DEF PrepareCase, Publishes
<1>24. ASSUME NEW p \in Server, NEW c \in Case, ActivateCase(p, c) PROVE DoneFirst'
  BY <1>24, DoneStep DEF ActivateCase, Publishes
<1>25. ASSUME NEW c \in Case, ItemClaim(c) PROVE DoneFirst'
  BY <1>25, DoneStep DEF ItemClaim
<1>26. ASSUME NEW c \in Case, ItemClear(c) PROVE DoneFirst'
  BY <1>26, DoneStep DEF ItemClear
<1>27. ASSUME NEW c \in Case, ItemFail(c) PROVE DoneFirst'
  BY <1>27, DoneStep DEF ItemFail
<1>28. ASSUME NEW c \in Case, ItemDone(c) PROVE DoneFirst'
  BY <1>28, DoneStep DEF ItemDone
<1>29. ASSUME NEW c \in Case, WithdrawCase(c) PROVE DoneFirst'
  BY <1>29, DoneStep DEF WithdrawCase
<1>30. ASSUME NEW b \in Backup, Enqueue(b) PROVE DoneFirst'
  BY <1>30, DoneStep DEF Enqueue
<1>31. ASSUME NEW b \in Backup, Destroy(b) PROVE DoneFirst'
  BY <1>31, DoneStep DEF Destroy
<1>32. ASSUME NEW b \in Backup, AckBackup(b) PROVE DoneFirst'
  BY <1>32, DoneStep DEF AckBackup
<1>33. ASSUME RebuildClaim PROVE DoneFirst'
  BY <1>33, DoneStep DEF RebuildClaim
<1>34. ASSUME RebuildFail PROVE DoneFirst'
  BY <1>34, DoneStep DEF RebuildFail
<1>35. ASSUME RebuildAck PROVE DoneFirst'
  BY <1>35, DoneStep DEF RebuildAck
<1>36. CASE UNCHANGED vars
  <2>1. Done <=> Done'
    BY <1>36 DEF vars, Done, CasesClosed, SiblingsDone
  <2>2. QED
    BY <1>36, <2>1 DEF vars
<1>37. QED
  BY <1>1, <1>2, <1>3, <1>4, <1>5, <1>6, <1>7, <1>8, <1>9, <1>10,
     <1>11, <1>12, <1>13, <1>14, <1>15, <1>16, <1>17, <1>18, <1>19, <1>20,
     <1>21, <1>22, <1>23, <1>24, <1>25, <1>26, <1>27, <1>28, <1>29, <1>30,
     <1>31, <1>32, <1>33, <1>34, <1>35, <1>36
  DEF Next, SessionStep, CleanStep, ItemStep

\* No step brings back a body whose item was done.
LEMMA BodiesGoneStep == TypeOK /\ Kept /\ BodiesGone /\ [Next]_vars => BodiesGone'
<1> SUFFICES ASSUME TypeOK /\ Kept /\ BodiesGone, [Next]_vars PROVE BodiesGone'
  OBVIOUS
<1> USE DEF TypeOK, Kept, BodiesGone, State
<1>1. ASSUME NEW p \in Server, Begin(p) PROVE BodiesGone'
  BY <1>1 DEF Begin
<1>2. ASSUME NEW p \in Server, Opened(p) PROVE BodiesGone'
  BY <1>2 DEF Opened
<1>3. ASSUME NEW p \in Server, OpenFailed(p) PROVE BodiesGone'
  BY <1>3 DEF OpenFailed
<1>4. ASSUME NEW p \in Server, Call(p) PROVE BodiesGone'
  BY <1>4 DEF Call
<1>5. ASSUME NEW p \in Server, Return(p) PROVE BodiesGone'
  BY <1>5 DEF Return
<1>6. ASSUME NEW p \in Server, LateWrite(p) PROVE BodiesGone'
  BY <1>6 DEF LateWrite
<1>7. ASSUME NEW p \in Server, Denied(p) PROVE BodiesGone'
  BY <1>7 DEF Denied
<1>8. ASSUME NEW p \in Server, Preview(p) PROVE BodiesGone'
  BY <1>8 DEF Preview
<1>9. ASSUME NEW p \in Server, Commit(p) PROVE BodiesGone'
  BY <1>9 DEF Commit
<1>10. ASSUME NEW p \in Server, CommitAgain(p) PROVE BodiesGone'
  BY <1>10 DEF CommitAgain
<1>11. ASSUME NEW p \in Server, Start(p) PROVE BodiesGone'
  BY <1>11 DEF Start, Claim, Meets, Open
<1>12. ASSUME NEW p \in Server, ClaimRoot(p) PROVE BodiesGone'
  BY <1>12 DEF ClaimRoot, Claim, Meets, Open
<1>13. ASSUME NEW p \in Server, Verify(p) PROVE BodiesGone'
  BY <1>13 DEF Verify
<1>14. ASSUME NEW p \in Server, Scope(p) PROVE BodiesGone'
  BY <1>14 DEF Scope
<1>15. ASSUME NEW p \in Server, Remove(p) PROVE BodiesGone'
  BY <1>15 DEF Remove
<1>16. ASSUME NEW p \in Server, RemoveDirectory(p) PROVE BodiesGone'
  BY <1>16 DEF RemoveDirectory
<1>17. ASSUME NEW p \in Server, EraseIdentity(p) PROVE BodiesGone'
  BY <1>17 DEF EraseIdentity
<1>18. ASSUME NEW p \in Server, Postcheck(p) PROVE BodiesGone'
  BY <1>18 DEF Postcheck
<1>19. ASSUME NEW p \in Server, MarkSucceeded(p) PROVE BodiesGone'
  BY <1>19 DEF MarkSucceeded, End
<1>20. ASSUME NEW p \in Server, MarkFailed(p) PROVE BodiesGone'
  BY <1>20 DEF MarkFailed, End
<1>21. ASSUME NEW p \in Server, Stop(p) PROVE BodiesGone'
  BY <1>21 DEF Stop, Down
<1>22. ASSUME NEW p \in Server, Crash(p) PROVE BodiesGone'
  BY <1>22 DEF Crash, Down
<1>23. ASSUME NEW p \in Server, NEW c \in Case, PrepareCase(p, c) PROVE BodiesGone'
  BY <1>23 DEF PrepareCase, Publishes
<1>24. ASSUME NEW p \in Server, NEW c \in Case, ActivateCase(p, c) PROVE BodiesGone'
  BY <1>24 DEF ActivateCase, Publishes
<1>25. ASSUME NEW c \in Case, ItemClaim(c) PROVE BodiesGone'
  BY <1>25 DEF ItemClaim
<1>26. ASSUME NEW c \in Case, ItemClear(c) PROVE BodiesGone'
  BY <1>26 DEF ItemClear
<1>27. ASSUME NEW c \in Case, ItemFail(c) PROVE BodiesGone'
  BY <1>27 DEF ItemFail
<1>28. ASSUME NEW c \in Case, ItemDone(c) PROVE BodiesGone'
  BY <1>28 DEF ItemDone
<1>29. ASSUME NEW c \in Case, WithdrawCase(c) PROVE BodiesGone'
  BY <1>29 DEF WithdrawCase
<1>30. ASSUME NEW b \in Backup, Enqueue(b) PROVE BodiesGone'
  BY <1>30 DEF Enqueue
<1>31. ASSUME NEW b \in Backup, Destroy(b) PROVE BodiesGone'
  BY <1>31 DEF Destroy
<1>32. ASSUME NEW b \in Backup, AckBackup(b) PROVE BodiesGone'
  BY <1>32 DEF AckBackup
<1>33. ASSUME RebuildClaim PROVE BodiesGone'
  BY <1>33 DEF RebuildClaim
<1>34. ASSUME RebuildFail PROVE BodiesGone'
  BY <1>34 DEF RebuildFail
<1>35. ASSUME RebuildAck PROVE BodiesGone'
  BY <1>35 DEF RebuildAck
<1>36. CASE UNCHANGED vars
  BY <1>36 DEF vars
<1>37. QED
  BY <1>1, <1>2, <1>3, <1>4, <1>5, <1>6, <1>7, <1>8, <1>9, <1>10,
     <1>11, <1>12, <1>13, <1>14, <1>15, <1>16, <1>17, <1>18, <1>19, <1>20,
     <1>21, <1>22, <1>23, <1>24, <1>25, <1>26, <1>27, <1>28, <1>29, <1>30,
     <1>31, <1>32, <1>33, <1>34, <1>35, <1>36
  DEF Next, SessionStep, CleanStep, ItemStep

\* The directory, then the identity, then the end.
LEMMA FilesInOrderStep == TypeOK /\ FilesInOrder /\ [Next]_vars => FilesInOrder'
<1> SUFFICES ASSUME TypeOK /\ FilesInOrder, [Next]_vars PROVE FilesInOrder'
  OBVIOUS
<1> USE DEF TypeOK, FilesInOrder, Entry, Cleaning
<1>1. ASSUME NEW p \in Server, Begin(p) PROVE FilesInOrder'
  BY <1>1 DEF Begin
<1>2. ASSUME NEW p \in Server, Opened(p) PROVE FilesInOrder'
  BY <1>2 DEF Opened
<1>3. ASSUME NEW p \in Server, OpenFailed(p) PROVE FilesInOrder'
  BY <1>3 DEF OpenFailed
<1>4. ASSUME NEW p \in Server, Call(p) PROVE FilesInOrder'
  BY <1>4 DEF Call
<1>5. ASSUME NEW p \in Server, Return(p) PROVE FilesInOrder'
  BY <1>5 DEF Return
<1>6. ASSUME NEW p \in Server, LateWrite(p) PROVE FilesInOrder'
  BY <1>6 DEF LateWrite
<1>7. ASSUME NEW p \in Server, Denied(p) PROVE FilesInOrder'
  BY <1>7 DEF Denied
<1>8. ASSUME NEW p \in Server, Preview(p) PROVE FilesInOrder'
  BY <1>8 DEF Preview
<1>9. ASSUME NEW p \in Server, Commit(p) PROVE FilesInOrder'
  BY <1>9 DEF Commit
<1>10. ASSUME NEW p \in Server, CommitAgain(p) PROVE FilesInOrder'
  BY <1>10 DEF CommitAgain
<1>11. ASSUME NEW p \in Server, Start(p) PROVE FilesInOrder'
  BY <1>11 DEF Start, Claim, Meets, Open
<1>12. ASSUME NEW p \in Server, ClaimRoot(p) PROVE FilesInOrder'
  BY <1>12 DEF ClaimRoot, Claim, Meets, Open
<1>13. ASSUME NEW p \in Server, Verify(p) PROVE FilesInOrder'
  BY <1>13 DEF Verify
<1>14. ASSUME NEW p \in Server, Scope(p) PROVE FilesInOrder'
  BY <1>14 DEF Scope
<1>15. ASSUME NEW p \in Server, Remove(p) PROVE FilesInOrder'
  BY <1>15 DEF Remove
<1>16. ASSUME NEW p \in Server, RemoveDirectory(p) PROVE FilesInOrder'
  BY <1>16 DEF RemoveDirectory
<1>17. ASSUME NEW p \in Server, EraseIdentity(p) PROVE FilesInOrder'
  BY <1>17 DEF EraseIdentity
<1>18. ASSUME NEW p \in Server, Postcheck(p) PROVE FilesInOrder'
  BY <1>18 DEF Postcheck
<1>19. ASSUME NEW p \in Server, MarkSucceeded(p) PROVE FilesInOrder'
  BY <1>19 DEF MarkSucceeded, End
<1>20. ASSUME NEW p \in Server, MarkFailed(p) PROVE FilesInOrder'
  BY <1>20 DEF MarkFailed, End
<1>21. ASSUME NEW p \in Server, Stop(p) PROVE FilesInOrder'
  BY <1>21 DEF Stop, Down
<1>22. ASSUME NEW p \in Server, Crash(p) PROVE FilesInOrder'
  BY <1>22 DEF Crash, Down
<1>23. ASSUME NEW p \in Server, NEW c \in Case, PrepareCase(p, c) PROVE FilesInOrder'
  BY <1>23 DEF PrepareCase, Publishes
<1>24. ASSUME NEW p \in Server, NEW c \in Case, ActivateCase(p, c) PROVE FilesInOrder'
  BY <1>24 DEF ActivateCase, Publishes
<1>25. ASSUME NEW c \in Case, ItemClaim(c) PROVE FilesInOrder'
  BY <1>25 DEF ItemClaim
<1>26. ASSUME NEW c \in Case, ItemClear(c) PROVE FilesInOrder'
  BY <1>26 DEF ItemClear
<1>27. ASSUME NEW c \in Case, ItemFail(c) PROVE FilesInOrder'
  BY <1>27 DEF ItemFail
<1>28. ASSUME NEW c \in Case, ItemDone(c) PROVE FilesInOrder'
  BY <1>28 DEF ItemDone
<1>29. ASSUME NEW c \in Case, WithdrawCase(c) PROVE FilesInOrder'
  BY <1>29 DEF WithdrawCase
<1>30. ASSUME NEW b \in Backup, Enqueue(b) PROVE FilesInOrder'
  BY <1>30 DEF Enqueue
<1>31. ASSUME NEW b \in Backup, Destroy(b) PROVE FilesInOrder'
  BY <1>31 DEF Destroy
<1>32. ASSUME NEW b \in Backup, AckBackup(b) PROVE FilesInOrder'
  BY <1>32 DEF AckBackup
<1>33. ASSUME RebuildClaim PROVE FilesInOrder'
  BY <1>33 DEF RebuildClaim
<1>34. ASSUME RebuildFail PROVE FilesInOrder'
  BY <1>34 DEF RebuildFail
<1>35. ASSUME RebuildAck PROVE FilesInOrder'
  BY <1>35 DEF RebuildAck
<1>36. CASE UNCHANGED vars
  BY <1>36 DEF vars
<1>37. QED
  BY <1>1, <1>2, <1>3, <1>4, <1>5, <1>6, <1>7, <1>8, <1>9, <1>10,
     <1>11, <1>12, <1>13, <1>14, <1>15, <1>16, <1>17, <1>18, <1>19, <1>20,
     <1>21, <1>22, <1>23, <1>24, <1>25, <1>26, <1>27, <1>28, <1>29, <1>30,
     <1>31, <1>32, <1>33, <1>34, <1>35, <1>36
  DEF Next, SessionStep, CleanStep, ItemStep

\* Of all that can vouch for the rest the marker is removed last.
LEMMA MarkerLastStep == TypeOK /\ FilesInOrder /\ MarkerLast /\ [Next]_vars => MarkerLast'
<1> SUFFICES ASSUME TypeOK /\ FilesInOrder /\ MarkerLast, [Next]_vars PROVE MarkerLast'
  OBVIOUS
<1> USE DEF TypeOK, FilesInOrder, MarkerLast, Entry, Cleaning
<1>1. ASSUME NEW p \in Server, Begin(p) PROVE MarkerLast'
  BY <1>1 DEF Begin
<1>2. ASSUME NEW p \in Server, Opened(p) PROVE MarkerLast'
  BY <1>2 DEF Opened
<1>3. ASSUME NEW p \in Server, OpenFailed(p) PROVE MarkerLast'
  BY <1>3 DEF OpenFailed
<1>4. ASSUME NEW p \in Server, Call(p) PROVE MarkerLast'
  BY <1>4 DEF Call
<1>5. ASSUME NEW p \in Server, Return(p) PROVE MarkerLast'
  BY <1>5 DEF Return
<1>6. ASSUME NEW p \in Server, LateWrite(p) PROVE MarkerLast'
  BY <1>6 DEF LateWrite
<1>7. ASSUME NEW p \in Server, Denied(p) PROVE MarkerLast'
  BY <1>7 DEF Denied
<1>8. ASSUME NEW p \in Server, Preview(p) PROVE MarkerLast'
  BY <1>8 DEF Preview
<1>9. ASSUME NEW p \in Server, Commit(p) PROVE MarkerLast'
  BY <1>9 DEF Commit
<1>10. ASSUME NEW p \in Server, CommitAgain(p) PROVE MarkerLast'
  BY <1>10 DEF CommitAgain
<1>11. ASSUME NEW p \in Server, Start(p) PROVE MarkerLast'
  BY <1>11 DEF Start, Claim, Meets, Open
<1>12. ASSUME NEW p \in Server, ClaimRoot(p) PROVE MarkerLast'
  BY <1>12 DEF ClaimRoot, Claim, Meets, Open
<1>13. ASSUME NEW p \in Server, Verify(p) PROVE MarkerLast'
  BY <1>13 DEF Verify
<1>14. ASSUME NEW p \in Server, Scope(p) PROVE MarkerLast'
  BY <1>14 DEF Scope
<1>15. ASSUME NEW p \in Server, Remove(p) PROVE MarkerLast'
  BY <1>15 DEF Remove
<1>16. ASSUME NEW p \in Server, RemoveDirectory(p) PROVE MarkerLast'
  BY <1>16 DEF RemoveDirectory
<1>17. ASSUME NEW p \in Server, EraseIdentity(p) PROVE MarkerLast'
  BY <1>17 DEF EraseIdentity
<1>18. ASSUME NEW p \in Server, Postcheck(p) PROVE MarkerLast'
  BY <1>18 DEF Postcheck
<1>19. ASSUME NEW p \in Server, MarkSucceeded(p) PROVE MarkerLast'
  BY <1>19 DEF MarkSucceeded, End
<1>20. ASSUME NEW p \in Server, MarkFailed(p) PROVE MarkerLast'
  BY <1>20 DEF MarkFailed, End
<1>21. ASSUME NEW p \in Server, Stop(p) PROVE MarkerLast'
  BY <1>21 DEF Stop, Down
<1>22. ASSUME NEW p \in Server, Crash(p) PROVE MarkerLast'
  BY <1>22 DEF Crash, Down
<1>23. ASSUME NEW p \in Server, NEW c \in Case, PrepareCase(p, c) PROVE MarkerLast'
  BY <1>23 DEF PrepareCase, Publishes
<1>24. ASSUME NEW p \in Server, NEW c \in Case, ActivateCase(p, c) PROVE MarkerLast'
  BY <1>24 DEF ActivateCase, Publishes
<1>25. ASSUME NEW c \in Case, ItemClaim(c) PROVE MarkerLast'
  BY <1>25 DEF ItemClaim
<1>26. ASSUME NEW c \in Case, ItemClear(c) PROVE MarkerLast'
  BY <1>26 DEF ItemClear
<1>27. ASSUME NEW c \in Case, ItemFail(c) PROVE MarkerLast'
  BY <1>27 DEF ItemFail
<1>28. ASSUME NEW c \in Case, ItemDone(c) PROVE MarkerLast'
  BY <1>28 DEF ItemDone
<1>29. ASSUME NEW c \in Case, WithdrawCase(c) PROVE MarkerLast'
  BY <1>29 DEF WithdrawCase
<1>30. ASSUME NEW b \in Backup, Enqueue(b) PROVE MarkerLast'
  BY <1>30 DEF Enqueue
<1>31. ASSUME NEW b \in Backup, Destroy(b) PROVE MarkerLast'
  BY <1>31 DEF Destroy
<1>32. ASSUME NEW b \in Backup, AckBackup(b) PROVE MarkerLast'
  BY <1>32 DEF AckBackup
<1>33. ASSUME RebuildClaim PROVE MarkerLast'
  BY <1>33 DEF RebuildClaim
<1>34. ASSUME RebuildFail PROVE MarkerLast'
  BY <1>34 DEF RebuildFail
<1>35. ASSUME RebuildAck PROVE MarkerLast'
  BY <1>35 DEF RebuildAck
<1>36. CASE UNCHANGED vars
  BY <1>36 DEF vars
<1>37. QED
  BY <1>1, <1>2, <1>3, <1>4, <1>5, <1>6, <1>7, <1>8, <1>9, <1>10,
     <1>11, <1>12, <1>13, <1>14, <1>15, <1>16, <1>17, <1>18, <1>19, <1>20,
     <1>21, <1>22, <1>23, <1>24, <1>25, <1>26, <1>27, <1>28, <1>29, <1>30,
     <1>31, <1>32, <1>33, <1>34, <1>35, <1>36
  DEF Next, SessionStep, CleanStep, ItemStep

\* The request fails, once the root is claimed, only with another item.
LEMMA QueueFollowsStep == TypeOK /\ QueueFollows /\ [Next]_vars => QueueFollows'
<1> SUFFICES ASSUME TypeOK /\ QueueFollows, [Next]_vars PROVE QueueFollows'
  OBVIOUS
<1> USE DEF TypeOK, QueueFollows, State
<1>1. ASSUME NEW p \in Server, Begin(p) PROVE QueueFollows'
  BY <1>1 DEF Begin
<1>2. ASSUME NEW p \in Server, Opened(p) PROVE QueueFollows'
  BY <1>2 DEF Opened
<1>3. ASSUME NEW p \in Server, OpenFailed(p) PROVE QueueFollows'
  BY <1>3 DEF OpenFailed
<1>4. ASSUME NEW p \in Server, Call(p) PROVE QueueFollows'
  BY <1>4 DEF Call
<1>5. ASSUME NEW p \in Server, Return(p) PROVE QueueFollows'
  BY <1>5 DEF Return
<1>6. ASSUME NEW p \in Server, LateWrite(p) PROVE QueueFollows'
  BY <1>6 DEF LateWrite
<1>7. ASSUME NEW p \in Server, Denied(p) PROVE QueueFollows'
  BY <1>7 DEF Denied
<1>8. ASSUME NEW p \in Server, Preview(p) PROVE QueueFollows'
  BY <1>8 DEF Preview
<1>9. ASSUME NEW p \in Server, Commit(p) PROVE QueueFollows'
  BY <1>9 DEF Commit
<1>10. ASSUME NEW p \in Server, CommitAgain(p) PROVE QueueFollows'
  BY <1>10 DEF CommitAgain
<1>11. ASSUME NEW p \in Server, Start(p) PROVE QueueFollows'
  BY <1>11 DEF Start, Claim, Meets, Open
<1>12. ASSUME NEW p \in Server, ClaimRoot(p) PROVE QueueFollows'
  BY <1>12 DEF ClaimRoot, Claim, Meets, Open
<1>13. ASSUME NEW p \in Server, Verify(p) PROVE QueueFollows'
  BY <1>13 DEF Verify
<1>14. ASSUME NEW p \in Server, Scope(p) PROVE QueueFollows'
  BY <1>14 DEF Scope
<1>15. ASSUME NEW p \in Server, Remove(p) PROVE QueueFollows'
  BY <1>15 DEF Remove
<1>16. ASSUME NEW p \in Server, RemoveDirectory(p) PROVE QueueFollows'
  BY <1>16 DEF RemoveDirectory
<1>17. ASSUME NEW p \in Server, EraseIdentity(p) PROVE QueueFollows'
  BY <1>17 DEF EraseIdentity
<1>18. ASSUME NEW p \in Server, Postcheck(p) PROVE QueueFollows'
  BY <1>18 DEF Postcheck
<1>19. ASSUME NEW p \in Server, MarkSucceeded(p) PROVE QueueFollows'
  BY <1>19 DEF MarkSucceeded, End
<1>20. ASSUME NEW p \in Server, MarkFailed(p) PROVE QueueFollows'
  BY <1>20 DEF MarkFailed, End
<1>21. ASSUME NEW p \in Server, Stop(p) PROVE QueueFollows'
  BY <1>21 DEF Stop, Down
<1>22. ASSUME NEW p \in Server, Crash(p) PROVE QueueFollows'
  BY <1>22 DEF Crash, Down
<1>23. ASSUME NEW p \in Server, NEW c \in Case, PrepareCase(p, c) PROVE QueueFollows'
  BY <1>23 DEF PrepareCase, Publishes
<1>24. ASSUME NEW p \in Server, NEW c \in Case, ActivateCase(p, c) PROVE QueueFollows'
  BY <1>24 DEF ActivateCase, Publishes
<1>25. ASSUME NEW c \in Case, ItemClaim(c) PROVE QueueFollows'
  BY <1>25 DEF ItemClaim
<1>26. ASSUME NEW c \in Case, ItemClear(c) PROVE QueueFollows'
  BY <1>26 DEF ItemClear
<1>27. ASSUME NEW c \in Case, ItemFail(c) PROVE QueueFollows'
  BY <1>27 DEF ItemFail
<1>28. ASSUME NEW c \in Case, ItemDone(c) PROVE QueueFollows'
  BY <1>28 DEF ItemDone
<1>29. ASSUME NEW c \in Case, WithdrawCase(c) PROVE QueueFollows'
  BY <1>29 DEF WithdrawCase
<1>30. ASSUME NEW b \in Backup, Enqueue(b) PROVE QueueFollows'
  BY <1>30 DEF Enqueue
<1>31. ASSUME NEW b \in Backup, Destroy(b) PROVE QueueFollows'
  BY <1>31 DEF Destroy
<1>32. ASSUME NEW b \in Backup, AckBackup(b) PROVE QueueFollows'
  BY <1>32 DEF AckBackup
<1>33. ASSUME RebuildClaim PROVE QueueFollows'
  BY <1>33 DEF RebuildClaim
<1>34. ASSUME RebuildFail PROVE QueueFollows'
  BY <1>34 DEF RebuildFail
<1>35. ASSUME RebuildAck PROVE QueueFollows'
  BY <1>35 DEF RebuildAck
<1>36. CASE UNCHANGED vars
  BY <1>36 DEF vars
<1>37. QED
  BY <1>1, <1>2, <1>3, <1>4, <1>5, <1>6, <1>7, <1>8, <1>9, <1>10,
     <1>11, <1>12, <1>13, <1>14, <1>15, <1>16, <1>17, <1>18, <1>19, <1>20,
     <1>21, <1>22, <1>23, <1>24, <1>25, <1>26, <1>27, <1>28, <1>29, <1>30,
     <1>31, <1>32, <1>33, <1>34, <1>35, <1>36
  DEF Next, SessionStep, CleanStep, ItemStep

\* Every step is a step of ErasedClient, or leaves what it speaks of alone.
LEMMA RefinementStep == Inv /\ [Next]_vars => [Erased!Next]_Erased!vars
<1> SUFFICES ASSUME Inv, [Next]_vars PROVE [Erased!Next]_Erased!vars
  OBVIOUS
<1> USE DEF Inv, TypeOK, Kept
<1>1. ASSUME NEW p \in Server, Begin(p) PROVE Erased!Use
  BY <1>1 DEF Begin, Erased!Use
<1>2. ASSUME NEW p \in Server, Opened(p) PROVE UNCHANGED Erased!vars
  BY <1>2 DEF Opened, Erased!vars
<1>3. ASSUME NEW p \in Server, OpenFailed(p) PROVE Erased!Close
  BY <1>3 DEF OpenFailed, Erased!Close
<1>4. ASSUME NEW p \in Server, Call(p) PROVE UNCHANGED Erased!vars
  BY <1>4 DEF Call, Erased!vars
<1>5. ASSUME NEW p \in Server, Return(p) PROVE UNCHANGED Erased!vars
  BY <1>5 DEF Return, Erased!vars
<1>6. ASSUME NEW p \in Server, LateWrite(p) PROVE UNCHANGED Erased!vars
  BY <1>6 DEF LateWrite, Erased!vars, FilesInOrder
<1>7. ASSUME NEW p \in Server, Denied(p) PROVE UNCHANGED Erased!vars
  BY <1>7 DEF Denied, Erased!vars
<1>8. ASSUME NEW p \in Server, Preview(p) PROVE UNCHANGED Erased!vars
  BY <1>8 DEF Preview, Erased!vars
<1>9. ASSUME NEW p \in Server, Commit(p) PROVE Erased!Retire
  BY <1>9 DEF Commit, Erased!Retire
<1>10. ASSUME NEW p \in Server, CommitAgain(p) PROVE UNCHANGED Erased!vars
  BY <1>10 DEF CommitAgain, Erased!vars
<1>11. ASSUME NEW p \in Server, Start(p) PROVE UNCHANGED Erased!vars
  BY <1>11 DEF Start, Claim, Meets, Open, Erased!vars
<1>12. ASSUME NEW p \in Server, ClaimRoot(p) PROVE UNCHANGED Erased!vars
  BY <1>12 DEF ClaimRoot, Claim, Meets, Open, Erased!vars, Cleaning
<1>13. ASSUME NEW p \in Server, Verify(p) PROVE UNCHANGED Erased!vars
  BY <1>13 DEF Verify, Erased!vars
<1>14. ASSUME NEW p \in Server, Scope(p) PROVE UNCHANGED Erased!vars
  BY <1>14 DEF Scope, Erased!vars
<1>15. ASSUME NEW p \in Server, Remove(p) PROVE UNCHANGED Erased!vars
  BY <1>15 DEF Remove, Erased!vars, FilesInOrder, Entry
<1>16. ASSUME NEW p \in Server, RemoveDirectory(p) PROVE Erased!RemoveVault \/ UNCHANGED Erased!vars
  BY <1>16 DEF RemoveDirectory, Erased!RemoveVault, Erased!vars, FilesInOrder, Cleaning
<1>17. ASSUME NEW p \in Server, EraseIdentity(p) PROVE Erased!RemoveIdentity \/ UNCHANGED Erased!vars
  BY <1>17 DEF EraseIdentity, Erased!RemoveIdentity, Erased!vars, FilesInOrder, Cleaning
<1>18. ASSUME NEW p \in Server, Postcheck(p) PROVE UNCHANGED Erased!vars
  BY <1>18 DEF Postcheck, Erased!vars
<1>19. ASSUME NEW p \in Server, MarkSucceeded(p) PROVE Erased!Finish \/ UNCHANGED Erased!vars
  BY <1>19 DEF MarkSucceeded, End, Erased!Finish, Erased!vars, FilesInOrder, Cleaning, DoneFirst, Destroying, Done, CasesClosed, SiblingsDone, BodiesGone
<1>20. ASSUME NEW p \in Server, MarkFailed(p) PROVE UNCHANGED Erased!vars
  BY <1>20 DEF MarkFailed, End, Erased!vars
<1>21. ASSUME NEW p \in Server, Stop(p) PROVE UNCHANGED Erased!vars
  BY <1>21 DEF Stop, Down, Erased!vars
<1>22. ASSUME NEW p \in Server, Crash(p) PROVE UNCHANGED Erased!vars
  BY <1>22 DEF Crash, Down, Erased!vars
<1>23. ASSUME NEW p \in Server, NEW c \in Case, PrepareCase(p, c) PROVE Erased!Use
  BY <1>23 DEF PrepareCase, Publishes, Erased!Use
<1>24. ASSUME NEW p \in Server, NEW c \in Case, ActivateCase(p, c) PROVE Erased!Use
  BY <1>24 DEF ActivateCase, Publishes, Erased!Use
<1>25. ASSUME NEW c \in Case, ItemClaim(c) PROVE UNCHANGED Erased!vars
  BY <1>25 DEF ItemClaim, Erased!vars
<1>26. ASSUME NEW c \in Case, ItemClear(c) PROVE Erased!RemoveCopy \/ UNCHANGED Erased!vars
  BY <1>26 DEF ItemClear, Erased!RemoveCopy, Erased!vars, DoneFirst, Done, SiblingsDone
<1>27. ASSUME NEW c \in Case, ItemFail(c) PROVE UNCHANGED Erased!vars
  BY <1>27 DEF ItemFail, Erased!vars
<1>28. ASSUME NEW c \in Case, ItemDone(c) PROVE UNCHANGED Erased!vars
  BY <1>28 DEF ItemDone, Erased!vars
<1>29. ASSUME NEW c \in Case, WithdrawCase(c) PROVE Erased!Close
  BY <1>29 DEF WithdrawCase, Erased!Close
<1>30. ASSUME NEW b \in Backup, Enqueue(b) PROVE UNCHANGED Erased!vars
  BY <1>30 DEF Enqueue, Erased!vars
<1>31. ASSUME NEW b \in Backup, Destroy(b) PROVE UNCHANGED Erased!vars
  BY <1>31 DEF Destroy, Erased!vars
<1>32. ASSUME NEW b \in Backup, AckBackup(b) PROVE UNCHANGED Erased!vars
  BY <1>32 DEF AckBackup, Erased!vars
<1>33. ASSUME RebuildClaim PROVE UNCHANGED Erased!vars
  BY <1>33 DEF RebuildClaim, Erased!vars
<1>34. ASSUME RebuildFail PROVE UNCHANGED Erased!vars
  BY <1>34 DEF RebuildFail, Erased!vars
<1>35. ASSUME RebuildAck PROVE UNCHANGED Erased!vars
  BY <1>35 DEF RebuildAck, Erased!vars
<1>36. CASE UNCHANGED vars
  BY <1>36 DEF vars, Erased!vars
<1>37. QED
  BY <1>1, <1>2, <1>3, <1>4, <1>5, <1>6, <1>7, <1>8, <1>9, <1>10,
     <1>11, <1>12, <1>13, <1>14, <1>15, <1>16, <1>17, <1>18, <1>19, <1>20,
     <1>21, <1>22, <1>23, <1>24, <1>25, <1>26, <1>27, <1>28, <1>29, <1>30,
     <1>31, <1>32, <1>33, <1>34, <1>35, <1>36
  DEF Next, SessionStep, CleanStep, ItemStep, Erased!Next

\* The invariant holds at the start.
LEMMA InvInit == Init => Inv
<1> SUFFICES ASSUME Init PROVE Inv
  OBVIOUS
<1> USE DEF Init
<1>1. TypeOK
  BY DEF TypeOK, State, Entry, Cleaning
<1>2. Kept
  BY DEF Kept, Whole, Entry, Cleaning
<1>3. DoneFirst
  BY DEF DoneFirst, Whole, Destroying
<1>4. BodiesGone
  BY DEF BodiesGone
<1>5. FilesInOrder
  BY DEF FilesInOrder
<1>6. MarkerLast
  BY DEF MarkerLast, Entry
<1>7. QueueFollows
  BY DEF QueueFollows
<1>8. QED
  BY <1>1, <1>2, <1>3, <1>4, <1>5, <1>6, <1>7 DEF Inv

\* Every step keeps the invariant, part by part.
LEMMA InvStep == Inv /\ [Next]_vars => Inv'
BY TypeStep, KeptStep, DoneFirstStep, BodiesGoneStep, FilesInOrderStep, MarkerLastStep,
   QueueFollowsStep DEF Inv

\* The inductive invariant holds in every state.
THEOREM Invariant == Spec => []Inv
BY InvInit, InvStep, PTL DEF Spec

\* Every variable keeps its type in every state of the deletion of a client.
THEOREM ErasureTypes == Spec => []TypeOK
<1>1. Inv => TypeOK
  BY DEF Inv
<1>2. QED
  BY <1>1, Invariant, PTL

\* process checks the whole closure before it touches the directory or the
\* identity map, and nothing it checked is undone before it is at an end.
THEOREM VaultIsLast == Spec => []VaultLast
<1>1. Inv => VaultLast
  <2>1. SUFFICES ASSUME Inv, vault # Whole \/ ~identity
        PROVE  /\ client = "RETIRED" /\ valid = {}
               /\ \A c \in Case : case[c] \notin {"PREPARED", "ACTIVE"} /\ (item[c] # "none" => c \notin body)
               /\ rebuild \in {"none", "SUCCEEDED"} /\ expiry = "SUCCEEDED"
    BY DEF VaultLast, Whole
  <2>2. Done
    BY <2>1 DEF Inv, DoneFirst
  <2>3. ASSUME NEW c \in Case PROVE case[c] \notin {"PREPARED", "ACTIVE"}
    BY <2>2 DEF Done, CasesClosed
  <2>4. ASSUME NEW c \in Case, item[c] # "none" PROVE c \notin body
    BY <2>1, <2>2, <2>4 DEF Inv, BodiesGone, Done, SiblingsDone
  <2>5. QED
    BY <2>2, <2>3, <2>4 DEF Done, SiblingsDone
<1>2. QED
  BY <1>1, Invariant, PTL

\* _remove_tree removes the marker last, so a directory that a dead cleanup left
\* in part is still proved to be the client's.
THEOREM ScopeProven == Spec => []ScopeStaysProven
<1>1. Inv => ScopeStaysProven
  BY DEF Inv, MarkerLast, ScopeStaysProven
<1>2. QED
  BY <1>1, Invariant, PTL

\* The guard of the request's state lets the last acknowledgement through
\* whatever failed before it.
THEOREM LastStep == Spec => []LastStepIsAccepted
<1>1. Inv => LastStepIsAccepted
  BY DEF Inv, QueueFollows, LastStepIsAccepted, SiblingsDone
<1>2. QED
  BY <1>1, Invariant, PTL

\* The deletion of a client keeps the promise of ErasedClient.
THEOREM ErasureRefines == Spec => ImplementsErasure
<1>1. Init => Erased!Init
  BY DEF Init, Erased!Init
<1>2. Inv /\ [Next]_vars => [Erased!Next]_Erased!vars
  BY RefinementStep
<1>3. QED
  BY <1>1, <1>2, Invariant, PTL DEF Spec, ImplementsErasure, Erased!Spec

-----------------------------------------------------------------------------
(* What becomes of a deletion that missed a case.                          *)

\* The client is retired and c, which it contributed, bears no tombstone of
\* the deletion: it became active after the preview, was prepared only, or was
\* withdrawn by another deletion.
Escaped(c) == client = "RETIRED" /\ case[c] # "none" /\ item[c] = "none"

LEMMA EscapedStays ==
    ASSUME Inv, [Next]_vars, NEW c \in Case, Escaped(c)
    PROVE  Escaped(c)'
<1>1. client = "RETIRED" /\ case[c] # "none" /\ item[c] = "none" /\ valid = {}
  BY DEF Escaped, Inv, Kept
<1>2. /\ case \in [Case -> {"none", "PREPARED", "ACTIVE", "REVOKED"}]
      /\ item \in [Case -> State]
  BY DEF Inv, TypeOK
<1>3. ASSUME NEW p \in Server, SessionStep(p)
      PROVE  Escaped(c)'
  BY <1>1, <1>3
     DEF Escaped, SessionStep, Begin, Opened, OpenFailed, Call, Return, LateWrite, Denied,
         Preview, Commit, CommitAgain, PrepareCase, ActivateCase, Publishes
<1>4. ASSUME NEW p \in Server, Start(p) \/ CleanStep(p) \/ Stop(p) \/ Crash(p)
      PROVE  Escaped(c)'
  BY <1>1, <1>4
     DEF Escaped, Start, CleanStep, ClaimRoot, Verify, Scope, Remove, RemoveDirectory,
         EraseIdentity, Postcheck, MarkSucceeded, MarkFailed, Stop, Crash, Down
<1>5. ASSUME NEW d \in Case, ItemClaim(d) \/ ItemClear(d) \/ ItemFail(d) \/ ItemDone(d)
      PROVE  Escaped(c)'
  BY <1>1, <1>2, <1>5 DEF Escaped, ItemClaim, ItemClear, ItemFail, ItemDone
<1>6. ASSUME \/ RebuildClaim \/ RebuildFail \/ RebuildAck
             \/ \E b \in Backup : Enqueue(b) \/ Destroy(b) \/ AckBackup(b)
      PROVE  Escaped(c)'
  BY <1>1, <1>6
     DEF Escaped, RebuildClaim, RebuildFail, RebuildAck, Enqueue, Destroy, AckBackup
<1>7. ASSUME NEW d \in Case, WithdrawCase(d)
      PROVE  Escaped(c)'
  BY <1>1, <1>2, <1>7 DEF Escaped, WithdrawCase
<1>8. ASSUME UNCHANGED vars
      PROVE  Escaped(c)'
  BY <1>1, <1>8 DEF Escaped, vars
<1>9. QED
  BY <1>3, <1>4, <1>5, <1>6, <1>7, <1>8 DEF Next, ItemStep

\* The request over all items is complete only with the root.
RequestWithRoot == queue = "SUCCEEDED" => root = "SUCCEEDED"

LEMMA RequestWithRootStep ==
    ASSUME RequestWithRoot, [Next]_vars
    PROVE  RequestWithRoot'
<1>1. CASE \E p \in Server : SessionStep(p)
  BY <1>1
     DEF RequestWithRoot, SessionStep, Begin, Opened, OpenFailed, Call, Return, LateWrite,
         Denied, Preview, Commit, CommitAgain, PrepareCase, ActivateCase
<1>2. ASSUME NEW p \in Server, Start(p) \/ CleanStep(p) \/ Stop(p) \/ Crash(p)
      PROVE  RequestWithRoot'
  BY <1>2
     DEF RequestWithRoot, Start, CleanStep, ClaimRoot, Claim, Verify, Scope, Remove,
         RemoveDirectory, EraseIdentity, Postcheck, MarkSucceeded, MarkFailed, Stop, Crash,
         Down
<1>3. CASE ItemStep
  BY <1>3
     DEF RequestWithRoot, ItemStep, ItemClaim, ItemClear, ItemFail, ItemDone, RebuildClaim,
         RebuildFail, RebuildAck, Enqueue, Destroy, AckBackup
<1>4. CASE (\E c \in Case : WithdrawCase(c)) \/ UNCHANGED vars
  BY <1>4 DEF RequestWithRoot, WithdrawCase, vars
<1>5. QED
  BY <1>1, <1>2, <1>3, <1>4 DEF Next

\* A deletion that missed a case does not pass over it: as long as the client
\* is retired the directory and the identity map stay whole and the deletion is
\* not called complete, and no later step, not even the withdrawal of the case,
\* changes that (CLIENT_CASE_CLOSURE_PENDING at every attempt).
THEOREM EscapedCasesBlock ==
    Spec => /\ [](\A c \in Case :
                      Escaped(c) => /\ vault = Whole /\ identity
                                    /\ root # "SUCCEEDED" /\ queue # "SUCCEEDED")
            /\ [][\A c \in Case : Escaped(c) => Escaped(c)']_vars
<1>1. Init => RequestWithRoot
  BY DEF Init, RequestWithRoot
<1>2. RequestWithRoot /\ [Next]_vars => RequestWithRoot'
  BY RequestWithRootStep
<1>3. ASSUME Inv, RequestWithRoot
      PROVE  \A c \in Case :
                 Escaped(c) => /\ vault = Whole /\ identity
                               /\ root # "SUCCEEDED" /\ queue # "SUCCEEDED"
  BY <1>3 DEF Inv, DoneFirst, Done, CasesClosed, Escaped, RequestWithRoot
<1>4. ASSUME Inv, [Next]_vars
      PROVE  [\A c \in Case : Escaped(c) => Escaped(c)']_vars
  BY <1>4, EscapedStays
<1>5. QED
  BY <1>1, <1>2, <1>3, <1>4, Invariant, PTL DEF Spec
=============================================================================
