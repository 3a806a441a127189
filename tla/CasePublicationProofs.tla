----------------------- MODULE CasePublicationProofs -----------------------
(***************************************************************************)
(* The safety properties of CasePublication, for any numbers of events,    *)
(* servers, faults and switches of the epoch.                              *)
(***************************************************************************)
EXTENDS CasePublication, TLAPS

-----------------------------------------------------------------------------
(* The inductive invariant.                                                *)

Left == {"CLAIMED", "PUBLISHED"}

\* A saga belongs to an event that was claimed, its body is kept from the
\* moment it is marked as copied, and only an active case is revoked.
SagasOnTrack ==
    \A c \in Case :
        /\ saga[c] = "none" <=> source[c] = None
        /\ source[c] # None => outbox[source[c]] \in Left
        /\ saga[c] \in {"COPIED", "PREPARED", "ACTIVE"} => c \in body
        /\ c \in revoked => saga[c] = "ACTIVE"

\* A manager works on a claimed event and on the case of that event.
ManagersOnTrack ==
    \A m \in Manager :
        /\ job[m] # None => outbox[job[m]] \in Left
        /\ at[m] \in {"receive", "look", "act", "mark", "ack"} => job[m] # None
        /\ at[m] \in {"look", "act", "mark", "ack"} =>
               run[m] \in Case /\ source[run[m]] = job[m]
        /\ at[m] = "mark" => run[m] \in body
        /\ at[m] = "ack" => saga[run[m]] = "ACTIVE"

CaseInv ==
    /\ TypeOK
    /\ OneCasePerEvent
    /\ SagasOnTrack
    /\ ManagersOnTrack
    /\ AcknowledgedIsActive

LEMMA CaseInvInit == Init => CaseInv
BY NoneIsNothing
   DEF Init, CaseInv, TypeOK, OneCasePerEvent, SagasOnTrack, ManagersOnTrack,
       AcknowledgedIsActive, SagaState, Proof

-----------------------------------------------------------------------------
(* Steps that leave both databases alone.                                  *)

DataUnchanged == UNCHANGED <<outbox, proof, source, saga, revoked, planned, body>>

LEMMA DataStays ==
    ASSUME CaseInv, DataUnchanged
    PROVE  OneCasePerEvent' /\ SagasOnTrack' /\ AcknowledgedIsActive'
BY DEF CaseInv, DataUnchanged, OneCasePerEvent, SagasOnTrack, AcknowledgedIsActive

LEMMA LeaveInv ==
    ASSUME CaseInv, DataUnchanged, NEW m \in Manager, NEW s \in {"out", "idle"},
           Leave(m, s), expired' \subseteq Event, epoch' \in Nat, faults' \in Nat,
           holder' \in Manager \cup {None}
    PROVE  CaseInv'
<1>1. TypeOK'
  BY DEF CaseInv, TypeOK, DataUnchanged, Leave, Go, SagaState
<1>2. ManagersOnTrack'
  BY DEF CaseInv, TypeOK, ManagersOnTrack, DataUnchanged, Leave, Go
<1> QED BY <1>1, <1>2, DataStays DEF CaseInv

LEMMA OpenInv == ASSUME CaseInv, NEW m \in Manager, Open(m) PROVE CaseInv'
<1>1. DataUnchanged
  BY DEF Open, DataUnchanged, clientVars, globalVars
<1>2. TypeOK'
  BY DEF CaseInv, TypeOK, Open, Drain, Go, clientVars, globalVars
<1>3. ManagersOnTrack'
  BY <1>1 DEF CaseInv, TypeOK, ManagersOnTrack, DataUnchanged, Open, Drain, Go
<1> QED BY <1>1, <1>2, <1>3, DataStays DEF CaseInv

LEMMA LeavingInv ==
    ASSUME CaseInv, NEW m \in Manager, Crash(m) \/ Refused(m) \/ Denied(m)
    PROVE  CaseInv'
<1>1. DataUnchanged
  BY DEF Crash, Refused, Denied, DataUnchanged, clientVars, globalVars
<1>2. PICK s \in {"out", "idle"} : Leave(m, s)
  BY DEF Crash, Refused, Denied
<1>3. /\ expired' \subseteq Event /\ epoch' \in Nat /\ faults' \in Nat
      /\ holder' \in Manager \cup {None}
  BY DEF CaseInv, TypeOK, Crash, Refused, Denied
<1> QED BY <1>1, <1>2, <1>3, LeaveInv

LEMMA ReadingInv ==
    ASSUME CaseInv, NEW m \in Manager, Look(m) \/ Overtaken(m) \/ Sign(m)
    PROVE  CaseInv'
<1>1. DataUnchanged
  BY DEF Look, Overtaken, Sign, DataUnchanged, clientVars, globalVars
<1>2. TypeOK'
  BY <1>1 DEF CaseInv, TypeOK, ManagersOnTrack, DataUnchanged, Look, Overtaken,
              Sign, Stays, Go
<1>3. ManagersOnTrack'
  BY <1>1 DEF CaseInv, TypeOK, ManagersOnTrack, DataUnchanged, Look, Overtaken,
              Sign, Asks, Stays, Go
<1> QED BY <1>1, <1>2, <1>3, DataStays DEF CaseInv

LEMMA BesideInv ==
    ASSUME CaseInv, (\E e \in Event : Expire(e)) \/ SwitchEpoch
    PROVE  CaseInv'
<1>1. DataUnchanged /\ UNCHANGED managerVars
  BY DEF Expire, SwitchEpoch, DataUnchanged, clientVars, globalVars
<1>2. TypeOK'
  BY <1>1 DEF CaseInv, TypeOK, DataUnchanged, Expire, SwitchEpoch, managerVars
<1>3. ManagersOnTrack'
  BY <1>1 DEF CaseInv, ManagersOnTrack, DataUnchanged, managerVars
<1> QED BY <1>1, <1>2, <1>3, DataStays DEF CaseInv

-----------------------------------------------------------------------------
(* Steps of the client's database.                                         *)

LEMMA CommitInv ==
    ASSUME CaseInv, NEW m \in Manager, NEW e \in Event, Commit(m, e)
    PROVE  CaseInv'
<1>1. /\ UNCHANGED <<proof, expired, globalVars, epoch, holder, faults>>
      /\ outbox' \in [Event -> {"none", "PENDING", "CLAIMED", "PUBLISHED"}]
      /\ \A f \in Event :
            \/ outbox'[f] = outbox[f]
            \/ outbox[f] = "none" /\ outbox'[f] = "PENDING"
  BY DEF CaseInv, TypeOK, Commit
<1>2. UNCHANGED managerVars \/ Drain(m, e)
  BY DEF Commit
<1>3. TypeOK'
  <2>1. CASE UNCHANGED managerVars
    BY <1>1, <2>1 DEF CaseInv, TypeOK, managerVars, globalVars
  <2>2. CASE Drain(m, e)
    BY <1>1, <2>2 DEF CaseInv, TypeOK, Drain, Go, globalVars
  <2> QED BY <1>2, <2>1, <2>2
<1>4. OneCasePerEvent' /\ SagasOnTrack' /\ AcknowledgedIsActive'
  <2>1. \A c \in Case : source[c] # None => source[c] \in Event
    BY DEF CaseInv, TypeOK
  <2> QED BY <1>1, <2>1 DEF CaseInv, OneCasePerEvent, SagasOnTrack, Left,
                            AcknowledgedIsActive, globalVars
<1>5. ManagersOnTrack'
  <2>1. \A n \in Manager : job[n] # None => job[n] \in Event
    BY DEF CaseInv, TypeOK
  <2>2. CASE UNCHANGED managerVars
    BY <1>1, <2>1, <2>2 DEF CaseInv, ManagersOnTrack, Left, managerVars, globalVars
  <2>3. CASE Drain(m, e)
    BY <1>1, <2>1, <2>3 DEF CaseInv, TypeOK, ManagersOnTrack, Left, Drain, Go, globalVars
  <2> QED BY <1>2, <2>2, <2>3
<1> QED BY <1>3, <1>4, <1>5 DEF CaseInv

\* The outbox changes the state of unpublished events only, and claimed ones
\* stay claimed.
LEMMA ClaimKeeps ==
    ASSUME CaseInv, NEW e \in Unpublished, Claim(e), UNCHANGED <<proof, globalVars>>
    PROVE  /\ outbox' \in [Event -> {"none", "PENDING", "CLAIMED", "PUBLISHED"}]
           /\ outbox'[e] \in Left
           /\ \A f \in Event : outbox[f] \in Left => outbox'[f] \in Left
           /\ OneCasePerEvent' /\ SagasOnTrack' /\ AcknowledgedIsActive'
<1>1. /\ e \in Event
      /\ outbox' = [outbox EXCEPT ![e] = "CLAIMED"]
      /\ outbox[e] \in {"PENDING", "CLAIMED"}
      /\ outbox' \in [Event -> {"none", "PENDING", "CLAIMED", "PUBLISHED"}]
  BY DEF CaseInv, TypeOK, Claim, Unpublished
<1>2. /\ outbox'[e] \in Left
      /\ \A f \in Event : outbox[f] \in Left => outbox'[f] \in Left
      /\ \A f \in Event : outbox'[f] = "PUBLISHED" => outbox[f] = "PUBLISHED"
  BY <1>1 DEF CaseInv, TypeOK, Left
<1>3. \A c \in Case : source[c] # None => source[c] \in Event
  BY DEF CaseInv, TypeOK
<1>4. OneCasePerEvent' /\ SagasOnTrack' /\ AcknowledgedIsActive'
  BY <1>2, <1>3 DEF CaseInv, OneCasePerEvent, SagasOnTrack, AcknowledgedIsActive,
                    globalVars
<1> QED BY <1>1, <1>2, <1>4

LEMMA ExportInv == ASSUME CaseInv, NEW m \in Manager, Export(m) PROVE CaseInv'
<1>1. CASE Wanted(m) = {} /\ Leave(m, "idle") /\ UNCHANGED outbox
  <2>1. DataUnchanged /\ UNCHANGED <<expired, epoch, faults, holder>>
    BY <1>1 DEF Export, DataUnchanged, globalVars
  <2> QED BY <1>1, <2>1, LeaveInv DEF CaseInv, TypeOK
<1>2. ASSUME NEW e \in Event, IsFirst(e, Wanted(m)), Claim(e),
             \/ Leave(m, "out")
             \/ /\ Go(m, "receive")
                /\ job' = [job EXCEPT ![m] = e]
                /\ UNCHANGED <<target, run, seen>>,
             UNCHANGED <<proof, expired, globalVars, epoch, holder, faults>>
      PROVE  CaseInv'
  <2>1. e \in Unpublished
    BY <1>2 DEF IsFirst, Wanted
  <2>2. /\ outbox' \in [Event -> {"none", "PENDING", "CLAIMED", "PUBLISHED"}]
        /\ outbox'[e] \in Left
        /\ \A f \in Event : outbox[f] \in Left => outbox'[f] \in Left
        /\ OneCasePerEvent' /\ SagasOnTrack' /\ AcknowledgedIsActive'
    BY <1>2, <2>1, ClaimKeeps
  <2>3. TypeOK'
    BY <1>2, <2>2 DEF CaseInv, TypeOK, Leave, Go, globalVars, SagaState
  <2>4. ManagersOnTrack'
    <3>1. \A n \in Manager : job[n] # None => job[n] \in Event
      BY DEF CaseInv, TypeOK
    <3> QED BY <1>2, <2>2, <3>1, NoneIsNothing
        DEF CaseInv, TypeOK, ManagersOnTrack, Leave, Go, globalVars
  <2> QED BY <2>2, <2>3, <2>4 DEF CaseInv
<1> QED BY <1>1, <1>2 DEF Export

LEMMA AcknowledgeInv ==
    ASSUME CaseInv, NEW m \in Manager, Acknowledge(m) PROVE CaseInv'
<1> DEFINE e == job[m]
           c == run[m]
           signed == [case |-> c, planned |-> planned[c]]
<1>1. /\ e \in Event /\ c \in Case /\ source[c] = e /\ saga[c] = "ACTIVE"
      /\ signed \in Proof
      /\ at[m] = "ack"
      /\ UNCHANGED <<expired, globalVars, epoch, holder, faults>>
  BY DEF CaseInv, TypeOK, ManagersOnTrack, Acknowledge, Proof
<1>2. CASE Leave(m, "out") /\ UNCHANGED clientVars
  <2>1. DataUnchanged
    BY <1>1, <1>2 DEF DataUnchanged, clientVars, globalVars
  <2> QED BY <1>1, <1>2, <2>1, LeaveInv DEF CaseInv, TypeOK
<1>3. CASE /\ outbox' = [outbox EXCEPT ![e] = "PUBLISHED"]
           /\ proof' = [proof EXCEPT ![e] = signed]
           /\ \/ /\ Go(m, "export")
                 /\ job' = [job EXCEPT ![m] = None]
                 /\ run' = [run EXCEPT ![m] = None]
                 /\ seen' = [seen EXCEPT ![m] = "none"]
                 /\ UNCHANGED target
              \/ Leave(m, "idle")
  <2>1. /\ outbox' \in [Event -> {"none", "PENDING", "CLAIMED", "PUBLISHED"}]
        /\ proof' \in [Event -> Proof \cup {None}]
        /\ outbox'[e] = "PUBLISHED" /\ proof'[e] = signed
        /\ \A f \in Event : f # e => outbox'[f] = outbox[f] /\ proof'[f] = proof[f]
    BY <1>1, <1>3 DEF CaseInv, TypeOK
  <2>2. TypeOK'
    BY <1>1, <1>3, <2>1 DEF CaseInv, TypeOK, Leave, Go, globalVars, SagaState
  <2>3. OneCasePerEvent'
    BY <1>1 DEF CaseInv, OneCasePerEvent, globalVars
  <2>4. \A f \in Event : outbox[f] \in Left => outbox'[f] \in Left
    BY <2>1 DEF Left
  <2>5. SagasOnTrack'
    BY <1>1, <2>4 DEF CaseInv, TypeOK, SagasOnTrack, globalVars
  <2>6. AcknowledgedIsActive'
    <3>1. UNCHANGED <<source, saga, planned>>
      BY <1>1 DEF globalVars
    <3>2. ASSUME NEW f \in Event, outbox'[f] = "PUBLISHED", f # e
          PROVE  \E d \in Case :
                    /\ source[d] = f /\ saga[d] = "ACTIVE"
                    /\ proof[f] = [case |-> d, planned |-> planned[d]]
      BY <2>1, <3>2 DEF CaseInv, AcknowledgedIsActive
    <3>3. ASSUME NEW f \in Event, outbox'[f] = "PUBLISHED"
          PROVE  \E d \in Case :
                    /\ source[d] = f /\ saga[d] = "ACTIVE"
                    /\ proof'[f] = [case |-> d, planned |-> planned[d]]
      <4>1. CASE f = e
        BY <1>1, <2>1, <4>1
      <4>2. CASE f # e
        <5>1. PICK d \in Case : /\ source[d] = f /\ saga[d] = "ACTIVE"
                                /\ proof[f] = [case |-> d, planned |-> planned[d]]
          BY <3>2, <3>3, <4>2
        <5>2. proof'[f] = proof[f]
          BY <2>1, <4>2
        <5> QED BY <5>1, <5>2
      <4> QED BY <4>1, <4>2
    <3> QED BY <3>1, <3>3 DEF AcknowledgedIsActive
  <2>7. ManagersOnTrack'
    BY <1>1, <1>3, <2>4 DEF CaseInv, TypeOK, ManagersOnTrack, Leave, Go, globalVars
  <2> QED BY <2>2, <2>3, <2>5, <2>6, <2>7 DEF CaseInv
<1> QED BY <1>2, <1>3 DEF Acknowledge

-----------------------------------------------------------------------------
(* Steps of the global database.                                           *)

LEMMA ReceiveInv == ASSUME CaseInv, NEW m \in Manager, Receive(m) PROVE CaseInv'
<1> DEFINE e == job[m]
<1>1. /\ e \in Event /\ outbox[e] \in Left
      /\ at[m] = "receive" /\ Go(m, "look")
      /\ UNCHANGED <<clientVars, expired, revoked, planned, body, epoch, holder,
                     target, job, seen, faults>>
  BY DEF CaseInv, TypeOK, ManagersOnTrack, Receive
<1>2. PICK c \in Case :
        /\ run' = [run EXCEPT ![m] = c]
        /\ \/ source[c] = e /\ UNCHANGED <<source, saga>>
           \/ /\ \A d \in Case : source[d] # e
              /\ source[c] = None
              /\ source' = [source EXCEPT ![c] = e]
              /\ saga' = [saga EXCEPT ![c] = "RECEIVED"]
  BY DEF Receive
<1>3. TypeOK'
  BY <1>1, <1>2 DEF CaseInv, TypeOK, Go, SagaState, clientVars
<1>4. CASE source[c] = e /\ UNCHANGED <<source, saga>>
  <2>1. OneCasePerEvent' /\ SagasOnTrack' /\ AcknowledgedIsActive'
    BY <1>1, <1>4, DataStays DEF DataUnchanged, clientVars
  <2>2. ManagersOnTrack'
    BY <1>1, <1>2, <1>4 DEF CaseInv, TypeOK, ManagersOnTrack, Go, clientVars
  <2> QED BY <1>3, <2>1, <2>2 DEF CaseInv
<1>5. CASE /\ \A d \in Case : source[d] # e
           /\ source[c] = None
           /\ source' = [source EXCEPT ![c] = e]
           /\ saga' = [saga EXCEPT ![c] = "RECEIVED"]
  <2>1. /\ saga[c] = "none" /\ saga'[c] = "RECEIVED"
        /\ source'[c] = e /\ e # None
        /\ \A d \in Case : d # c => source'[d] = source[d] /\ saga'[d] = saga[d]
    BY <1>1, <1>5, NoneIsNothing DEF CaseInv, TypeOK, SagasOnTrack
  <2>2. OneCasePerEvent'
    BY <1>5, <2>1 DEF CaseInv, OneCasePerEvent
  <2>3. SagasOnTrack'
    BY <1>1, <2>1 DEF CaseInv, SagasOnTrack, clientVars
  <2>4. AcknowledgedIsActive'
    BY <1>1, <2>1 DEF CaseInv, AcknowledgedIsActive, clientVars
  <2>5. ManagersOnTrack'
    BY <1>1, <1>2, <1>5, <2>1, NoneIsNothing
       DEF CaseInv, TypeOK, ManagersOnTrack, Go, clientVars
  <2> QED BY <1>3, <2>2, <2>3, <2>4, <2>5 DEF CaseInv
<1> QED BY <1>2, <1>4, <1>5

LEMMA CopyInv == ASSUME CaseInv, NEW m \in Manager, Copy(m) PROVE CaseInv'
<1>1. /\ run[m] \in Case /\ body \subseteq body' /\ run[m] \in body' /\ body' \subseteq Case
      /\ Go(m, "mark") /\ at[m] = "act"
      /\ UNCHANGED <<outbox, proof, expired, source, saga, revoked, planned, epoch,
                     holder, target, job, run, seen, faults>>
  BY DEF CaseInv, TypeOK, ManagersOnTrack, Copy, clientVars
<1>2. TypeOK'
  BY <1>1 DEF CaseInv, TypeOK, Go
<1>3. OneCasePerEvent' /\ SagasOnTrack' /\ AcknowledgedIsActive'
  BY <1>1 DEF CaseInv, OneCasePerEvent, SagasOnTrack, AcknowledgedIsActive
<1>4. ManagersOnTrack'
  BY <1>1 DEF CaseInv, TypeOK, ManagersOnTrack, Go
<1> QED BY <1>2, <1>3, <1>4 DEF CaseInv

\* The case of a manager advances: its body is there, no other case moves, and
\* an active one was active before or becomes so now.
LEMMA AdvanceInv ==
    ASSUME CaseInv, NEW m \in Manager, at[m] \in {"act", "mark"},
           NEW next \in {"COPIED", "PREPARED", "ACTIVE"}, NEW n \in Nat,
           saga[run[m]] \in {"RECEIVED", "COPIED", "PREPARED"}, run[m] \in body,
           saga' = [saga EXCEPT ![run[m]] = next],
           planned' = [planned EXCEPT ![run[m]] = n], Stays(m),
           UNCHANGED <<clientVars, expired, source, revoked, body, epoch, holder, faults>>
    PROVE  CaseInv'
<1> DEFINE c == run[m]
<1>1. /\ c \in Case /\ saga'[c] = next /\ saga[c] # "ACTIVE" /\ saga[c] # "none"
      /\ \A d \in Case : d # c => saga'[d] = saga[d] /\ planned'[d] = planned[d]
  BY DEF CaseInv, TypeOK, ManagersOnTrack
<1>2. TypeOK'
  BY <1>1 DEF CaseInv, TypeOK, Stays, Go, SagaState, clientVars
<1>3. OneCasePerEvent'
  BY DEF CaseInv, OneCasePerEvent
<1>4. SagasOnTrack'
  BY <1>1 DEF CaseInv, SagasOnTrack, clientVars
<1>5. AcknowledgedIsActive'
  <2>1. UNCHANGED <<outbox, proof, source>>
    BY DEF clientVars
  <2>2. ASSUME NEW e \in Event, outbox[e] = "PUBLISHED"
        PROVE  \E d \in Case :
                  /\ source[d] = e /\ saga'[d] = "ACTIVE"
                  /\ proof[e] = [case |-> d, planned |-> planned'[d]]
    <3>1. PICK d \in Case : /\ source[d] = e /\ saga[d] = "ACTIVE"
                            /\ proof[e] = [case |-> d, planned |-> planned[d]]
      BY <2>2 DEF CaseInv, AcknowledgedIsActive
    <3>2. saga'[d] = "ACTIVE" /\ planned'[d] = planned[d]
      BY <1>1, <3>1
    <3> QED BY <3>1, <3>2
  <2> QED BY <2>1, <2>2 DEF AcknowledgedIsActive
<1>6. ManagersOnTrack'
  BY <1>1 DEF CaseInv, TypeOK, ManagersOnTrack, Stays, Go, clientVars
<1> QED BY <1>2, <1>3, <1>4, <1>5, <1>6 DEF CaseInv

LEMMA AdvancingInv ==
    ASSUME CaseInv, NEW m \in Manager, MarkCopied(m) \/ Prepare(m) \/ Activate(m)
    PROVE  CaseInv'
<1>1. run[m] \in Case /\ source[run[m]] = job[m] /\ planned[run[m]] \in Nat /\ epoch \in Nat
  BY DEF CaseInv, TypeOK, ManagersOnTrack, MarkCopied, Prepare, Activate, Asks
<1>2. planned = [planned EXCEPT ![run[m]] = planned[run[m]]]
  BY <1>1 DEF CaseInv, TypeOK
<1>3. CASE MarkCopied(m)
  <2>1. at[m] = "mark" /\ run[m] \in body
    BY <1>3 DEF CaseInv, ManagersOnTrack, MarkCopied
  <2>2. CASE saga[run[m]] = "RECEIVED"
    <3>1. saga' = [saga EXCEPT ![run[m]] = "COPIED"]
      BY <1>3, <2>2 DEF MarkCopied
    <3> QED BY <1>1, <1>2, <1>3, <2>1, <2>2, <3>1, AdvanceInv DEF MarkCopied
  <2>3. CASE saga[run[m]] # "RECEIVED"
    <3>1. saga' = saga
      BY <1>1, <1>3, <2>3 DEF CaseInv, TypeOK, MarkCopied
    <3>2. DataUnchanged
      BY <1>3, <3>1 DEF MarkCopied, DataUnchanged, clientVars
    <3>3. TypeOK'
      BY <1>3, <3>2 DEF CaseInv, TypeOK, DataUnchanged, MarkCopied, Stays, Go
    <3>4. ManagersOnTrack'
      BY <1>3, <3>2, <2>1 DEF CaseInv, TypeOK, ManagersOnTrack, DataUnchanged,
                              MarkCopied, Stays, Go
    <3> QED BY <3>2, <3>3, <3>4, DataStays DEF CaseInv
  <2> QED BY <2>2, <2>3
<1>4. CASE Prepare(m)
  <2>1. at[m] = "act" /\ saga[run[m]] = "COPIED" /\ run[m] \in body
    BY <1>1, <1>4 DEF CaseInv, SagasOnTrack, Prepare, Asks
  <2> QED BY <1>1, <1>4, <2>1, AdvanceInv DEF Prepare
<1>5. CASE Activate(m)
  <2>1. at[m] = "act" /\ saga[run[m]] = "PREPARED" /\ run[m] \in body
    BY <1>1, <1>5 DEF CaseInv, SagasOnTrack, Activate, Asks
  <2> QED BY <1>1, <1>2, <1>5, <2>1, AdvanceInv DEF Activate
<1> QED BY <1>3, <1>4, <1>5

LEMMA RevokeInv == ASSUME CaseInv, NEW c \in Case, Revoke(c) PROVE CaseInv'
<1>1. /\ saga[c] = "ACTIVE" /\ revoked' = revoked \cup {c}
      /\ UNCHANGED <<clientVars, expired, source, saga, planned, body, epoch,
                     holder, managerVars, faults>>
  BY DEF Revoke
<1>2. TypeOK'
  BY <1>1 DEF CaseInv, TypeOK, clientVars, managerVars
<1>3. OneCasePerEvent' /\ AcknowledgedIsActive'
  BY <1>1 DEF CaseInv, OneCasePerEvent, AcknowledgedIsActive, clientVars
<1>4. SagasOnTrack' /\ ManagersOnTrack'
  BY <1>1 DEF CaseInv, SagasOnTrack, ManagersOnTrack, clientVars, managerVars
<1> QED BY <1>2, <1>3, <1>4 DEF CaseInv

LEMMA NextInv == ASSUME CaseInv, [Next]_vars PROVE CaseInv'
<1>1. CASE UNCHANGED vars
  <2>1. DataUnchanged /\ UNCHANGED <<expired, epoch, holder, managerVars, faults>>
    BY <1>1 DEF vars, DataUnchanged, clientVars, globalVars
  <2>2. TypeOK' /\ ManagersOnTrack'
    BY <2>1 DEF CaseInv, TypeOK, ManagersOnTrack, DataUnchanged, managerVars
  <2> QED BY <2>1, <2>2, DataStays DEF CaseInv
<1>2. CASE (\E e \in Event : Expire(e)) \/ SwitchEpoch
  BY <1>2, BesideInv
<1>3. ASSUME NEW c \in Case, Revoke(c) PROVE CaseInv'
  BY <1>3, RevokeInv
<1>4. ASSUME NEW m \in Manager, Open(m) \/ Crash(m) \/ (\E e \in Event : Commit(m, e))
      PROVE  CaseInv'
  BY <1>4, OpenInv, LeavingInv, CommitInv
<1>5. ASSUME NEW m \in Manager, DrainStep(m) PROVE CaseInv'
  BY <1>5, ExportInv, AcknowledgeInv, LeavingInv, ReceiveInv, ReadingInv, CopyInv,
     AdvancingInv DEF DrainStep, PublisherStep
<1> QED BY <1>1, <1>2, <1>3, <1>4, <1>5 DEF Next

-----------------------------------------------------------------------------
(* The theorems.                                                           *)

LEMMA CaseInvariant == Spec => []CaseInv
BY CaseInvInit, NextInv, PTL DEF Spec

\* The variables keep their types.
THEOREM CaseTypes == Spec => []TypeOK
BY CaseInvariant, PTL DEF CaseInv

\* However many servers replay an event, before and after any crash, it makes
\* one case.
THEOREM CasesAreUnique == Spec => []OneCasePerEvent
BY CaseInvariant, PTL DEF CaseInv

\* An event that the client's database holds as published has an activated
\* case, and its proof names that case and its operation.
THEOREM AcknowledgedCases == Spec => []AcknowledgedIsActive
BY CaseInvariant, PTL DEF CaseInv

\* An activated case has its body in the content store and its event was
\* claimed in the client's database.
THEOREM ShownCases == Spec => []ShownIsWhole
<1>1. CaseInv => ShownIsWhole
  BY DEF CaseInv, TypeOK, SagasOnTrack, ShownIsWhole, Left
<1> QED BY <1>1, CaseInvariant, PTL

-----------------------------------------------------------------------------
(* What never gets published.                                              *)

\* A case is prepared for an epoch that was active then.
PlannedIsPast == \A c \in Case : planned[c] <= epoch

LEMMA PlannedStaysPast ==
    ASSUME TypeOK, PlannedIsPast, [Next]_vars
    PROVE  PlannedIsPast'
<1>1. planned \in [Case -> Nat] /\ epoch \in Nat
  BY DEF TypeOK
<1>2. ASSUME NEW m \in Manager, Prepare(m)
      PROVE  PlannedIsPast'
  BY <1>1, <1>2 DEF Prepare, PlannedIsPast
<1>3. CASE SwitchEpoch
  BY <1>1, <1>3 DEF SwitchEpoch, globalVars, PlannedIsPast
<1>4. CASE UNCHANGED <<planned, epoch>>
  BY <1>4 DEF PlannedIsPast
<1>5. CASE UNCHANGED vars
  BY <1>4, <1>5 DEF vars, globalVars
<1>6. ASSUME NEW m \in Manager,
             Open(m) \/ Crash(m) \/ (\E e \in Event : Commit(m, e)) \/ DrainStep(m)
      PROVE  PlannedIsPast'
  <2>1. Prepare(m) \/ UNCHANGED <<planned, epoch>>
    BY <1>6 DEF Open, Crash, Commit, DrainStep, PublisherStep, Export, Receive, Look,
       Copy, MarkCopied, Overtaken, Prepare, Activate, Sign, Refused, Denied,
       Acknowledge, globalVars
  <2> QED BY <1>2, <1>4, <2>1
<1>7. ASSUME (\E e \in Event : Expire(e)) \/ (\E c \in Case : Revoke(c))
      PROVE  PlannedIsPast'
  BY <1>4, <1>7 DEF Expire, Revoke, globalVars
<1> QED BY <1>3, <1>5, <1>6, <1>7 DEF Next

\* The case of the event was prepared, and the epoch it expects has passed.
Overdue(e) ==
    \E c \in Case : source[c] = e /\ saga[c] = "PREPARED" /\ planned[c] < epoch

Barred(e) == e \in Unpublished /\ (e \in expired \/ Overdue(e))

\* A case keeps its event, and one that is overdue its operation and its state:
\* no copy is marked twice, nothing prepared again, nothing activated late.
LEMMA OverdueStays ==
    ASSUME CaseInv, PlannedIsPast, [Next]_vars, NEW e \in Event, Overdue(e)
    PROVE  Overdue(e)'
<1>1. PICK c \in Case : source[c] = e /\ saga[c] = "PREPARED" /\ planned[c] < epoch
  BY DEF Overdue
<1>2. /\ planned \in [Case -> Nat] /\ epoch \in Nat /\ epoch' \in Nat
      /\ source \in [Case -> Event \cup {None}]
      /\ saga \in [Case -> SagaState]
  BY NextInv DEF CaseInv, TypeOK
<1>3. SUFFICES /\ source'[c] = e /\ saga'[c] = "PREPARED"
               /\ planned'[c] = planned[c] /\ epoch' >= epoch
  BY <1>1, <1>2 DEF Overdue
<1>4. CASE SwitchEpoch
  BY <1>1, <1>2, <1>4 DEF SwitchEpoch, globalVars
<1>5. CASE UNCHANGED <<source, saga, planned, epoch>>
  BY <1>1, <1>2, <1>5
<1>6. ASSUME NEW m \in Manager, Receive(m)
      PROVE  /\ source'[c] = e /\ saga'[c] = "PREPARED"
             /\ planned'[c] = planned[c] /\ epoch' >= epoch
  <2>1. source[c] # None
    BY <1>1, NoneIsNothing
  <2> QED BY <1>1, <1>2, <1>6, <2>1 DEF Receive
<1>7. ASSUME NEW m \in Manager, MarkCopied(m) \/ Prepare(m) \/ Activate(m)
      PROVE  /\ source'[c] = e /\ saga'[c] = "PREPARED"
             /\ planned'[c] = planned[c] /\ epoch' >= epoch
  <2>1. CASE MarkCopied(m)
    BY <1>1, <1>2, <2>1 DEF MarkCopied
  <2>2. CASE Prepare(m)
    BY <1>1, <1>2, <2>2 DEF Prepare, Asks
  <2>3. CASE Activate(m)
    BY <1>1, <1>2, <2>3 DEF Activate, Asks, Agreed
  <2> QED BY <1>7, <2>1, <2>2, <2>3
<1>8. ASSUME NEW m \in Manager,
             Open(m) \/ Crash(m) \/ (\E f \in Event : Commit(m, f)) \/ DrainStep(m)
      PROVE  /\ source'[c] = e /\ saga'[c] = "PREPARED"
             /\ planned'[c] = planned[c] /\ epoch' >= epoch
  <2>1. CASE Receive(m) \/ MarkCopied(m) \/ Prepare(m) \/ Activate(m)
    BY <1>6, <1>7, <2>1
  <2>2. CASE ~(Receive(m) \/ MarkCopied(m) \/ Prepare(m) \/ Activate(m))
    BY <1>5, <1>8, <2>2 DEF Open, Crash, Commit, DrainStep, PublisherStep, Export,
       Look, Copy, Overtaken, Sign, Refused, Denied, Acknowledge, globalVars
  <2> QED BY <2>1, <2>2
<1>9. ASSUME (\E f \in Event : Expire(f)) \/ (\E d \in Case : Revoke(d)) \/ UNCHANGED vars
      PROVE  UNCHANGED <<source, saga, planned, epoch>>
  BY <1>9 DEF Expire, Revoke, vars, globalVars
<1> QED BY <1>4, <1>5, <1>8, <1>9 DEF Next

\* Only an acknowledgement ends an event, and none is accepted for an expired
\* event or was signed for a case that is not active.
LEMMA BarredStays ==
    ASSUME CaseInv, PlannedIsPast, [Next]_vars, NEW e \in Event, Barred(e)
    PROVE  Barred(e)'
<1>1. e \in expired => e \in expired'
  <2>1. expired \subseteq expired'
    BY DEF Next, Open, Crash, Commit, DrainStep, PublisherStep, Export, Receive, Look,
       Copy, MarkCopied, Overtaken, Prepare, Activate, Sign, Refused, Denied,
       Acknowledge, Expire, Revoke, SwitchEpoch, vars
  <2> QED BY <2>1
<1>2. outbox \in [Event -> {"none", "PENDING", "CLAIMED", "PUBLISHED"}]
      /\ outbox[e] \in {"PENDING", "CLAIMED"}
  BY DEF CaseInv, TypeOK, Barred, Unpublished
<1>3. outbox'[e] \in {"PENDING", "CLAIMED"}
  <2>1. ASSUME NEW m \in Manager, Acknowledge(m), outbox'[e] # outbox[e]
        PROVE  FALSE
    <3>1. job[m] = e /\ e \notin expired
      BY <1>2, <2>1 DEF Acknowledge, clientVars
    <3>2. run[m] \in Case /\ source[run[m]] = e /\ saga[run[m]] = "ACTIVE"
      BY <2>1, <3>1 DEF Acknowledge, CaseInv, ManagersOnTrack
    <3>3. PICK c \in Case : source[c] = e /\ saga[c] = "PREPARED"
      BY <3>1 DEF Barred, Overdue
    <3>4. c = run[m]
      BY <3>2, <3>3, NoneIsNothing DEF CaseInv, OneCasePerEvent
    <3> QED BY <3>2, <3>3, <3>4
  <2>2. ASSUME NEW m \in Manager, Export(m)
        PROVE  outbox'[e] \in {"PENDING", "CLAIMED"}
    BY <1>2, <2>2 DEF Export, Claim
  <2>3. ASSUME NEW m \in Manager, NEW f \in Event, Commit(m, f)
        PROVE  outbox'[e] \in {"PENDING", "CLAIMED"}
    BY <1>2, <2>3 DEF Commit
  <2>4. ASSUME NEW m \in Manager, Open(m) \/ Crash(m) \/ PublisherStep(m) \/ Denied(m)
        PROVE  UNCHANGED outbox
    BY <2>4 DEF Open, Crash, PublisherStep, Receive, Look, Copy, MarkCopied, Overtaken,
       Prepare, Activate, Sign, Refused, Denied, clientVars
  <2>5. ASSUME \/ \E f \in Event : Expire(f)
               \/ \E d \in Case : Revoke(d)
               \/ SwitchEpoch \/ UNCHANGED vars
        PROVE  UNCHANGED outbox
    BY <2>5 DEF Expire, Revoke, SwitchEpoch, vars, clientVars
  <2> QED BY <1>2, <2>1, <2>2, <2>3, <2>4, <2>5 DEF Next, DrainStep
<1>4. Overdue(e) => Overdue(e)'
  BY OverdueStays
<1> QED BY <1>1, <1>3, <1>4 DEF Barred, Unpublished

\* Two of the three exceptions of EventuallyPublished are for ever: an event
\* that expired before it was published, and one whose case was prepared for an
\* epoch that has passed, stay unpublished whatever servers, drains and new
\* sessions do (export, _activate).
THEOREM BarredEventsStayBarred ==
    Spec => [][\A e \in Event : Barred(e) => Barred(e)']_vars
<1>1. Init => PlannedIsPast
  BY DEF Init, PlannedIsPast
<1>2. CaseInv /\ PlannedIsPast /\ [Next]_vars => PlannedIsPast'
  BY PlannedStaysPast DEF CaseInv
<1>3. ASSUME CaseInv, PlannedIsPast, [Next]_vars
      PROVE  [\A e \in Event : Barred(e) => Barred(e)']_vars
  BY <1>3, BarredStays
<1> QED BY <1>1, <1>2, <1>3, CaseInvariant, PTL DEF Spec

-----------------------------------------------------------------------------
(* The refinement.                                                         *)

Status == [e \in Event |-> StatusOf(e)]
Told == {e \in Event : outbox[e] = "PUBLISHED"}

\* What is shared is told by the active cases and the revoked ones alone.
LEMMA StatusStays ==
    ASSUME revoked' = revoked,
           \A c \in Case : /\ saga'[c] = "ACTIVE" <=> saga[c] = "ACTIVE"
                           /\ saga[c] = "ACTIVE" => source'[c] = source[c]
    PROVE  Status' = Status
<1>1. \A e \in Event : StatusOf(e)' = StatusOf(e)
  BY DEF StatusOf
<1> QED BY <1>1 DEF Status

LEMMA StatusOfCase ==
    ASSUME CaseInv, NEW c \in Case, source[c] # None
    PROVE  StatusOf(source[c]) = IF saga[c] # "ACTIVE" THEN "private"
                                 ELSE IF c \notin revoked THEN "shared" ELSE "withdrawn"
<1>1. \A d \in Case : source[d] = source[c] => d = c
  BY DEF CaseInv, OneCasePerEvent
<1> QED BY <1>1 DEF StatusOf

\* The status of an event changes with its own case only.
LEMMA OthersKeepStatus ==
    ASSUME CaseInv, NEW c \in Case, source' = source,
           \A d \in Case \ {c} : saga'[d] = saga[d] /\ (d \in revoked' <=> d \in revoked)
    PROVE  \A e \in Event : e # source[c] => StatusOf(e)' = StatusOf(e)
BY DEF StatusOf

LEMMA ActivateRefines ==
    ASSUME CaseInv, CaseInv', NEW m \in Manager, Activate(m)
    PROVE  Shared!Next
<1>1. PICK c \in Case, e \in Event :
        /\ source[c] = e /\ saga[c] = "PREPARED"
        /\ saga' = [saga EXCEPT ![c] = "ACTIVE"]
        /\ UNCHANGED <<outbox, source, revoked>>
  <2>1. run[m] \in Case /\ job[m] \in Event /\ source[run[m]] = job[m]
    BY DEF CaseInv, TypeOK, ManagersOnTrack, Activate, Asks
  <2>2. /\ saga[run[m]] = "PREPARED"
        /\ saga' = [saga EXCEPT ![run[m]] = "ACTIVE"]
        /\ UNCHANGED <<outbox, source, revoked>>
    BY DEF Activate, Asks, clientVars
  <2> QED BY <2>1, <2>2
<1>2. /\ saga'[c] = "ACTIVE" /\ c \notin revoked /\ e # None
      /\ \A d \in Case \ {c} : saga'[d] = saga[d]
  BY <1>1, NoneIsNothing DEF CaseInv, TypeOK, SagasOnTrack
<1>3. StatusOf(e) = "private"
  BY <1>1, <1>2, StatusOfCase
<1>4. StatusOf(e)' = "shared"
  <2>1. \A d \in Case : source[d] = e => d = c
    BY <1>1, <1>2 DEF CaseInv, OneCasePerEvent
  <2> QED BY <1>1, <1>2, <2>1 DEF StatusOf
<1>5. \A f \in Event : f # e => StatusOf(f)' = StatusOf(f)
  BY <1>1, <1>2, OthersKeepStatus
<1>6. /\ Status' = [Status EXCEPT ![e] = "shared"]
      /\ Status[e] = "private"
      /\ Told' = Told
  BY <1>1, <1>3, <1>4, <1>5 DEF Status, Told
<1> QED BY <1>1, <1>6 DEF Shared!Next, Shared!Share, Status, Told

LEMMA RevokeRefines ==
    ASSUME CaseInv, CaseInv', NEW c \in Case, Revoke(c)
    PROVE  Shared!Next
<1> DEFINE e == source[c]
<1>1. /\ saga[c] = "ACTIVE" /\ c \notin revoked /\ revoked' = revoked \cup {c}
      /\ UNCHANGED <<outbox, source, saga>>
  BY DEF Revoke, clientVars
<1>2. e # None /\ e \in Event
  BY <1>1 DEF CaseInv, TypeOK, SagasOnTrack
<1>3. StatusOf(e) = "shared"
  BY <1>1, <1>2, StatusOfCase
<1>4. StatusOf(e)' = "withdrawn"
  <2>1. \A d \in Case : source[d] = e => d = c
    BY <1>2 DEF CaseInv, OneCasePerEvent
  <2> QED BY <1>1, <2>1 DEF StatusOf
<1>5. \A f \in Event : f # e => StatusOf(f)' = StatusOf(f)
  BY <1>1, OthersKeepStatus
<1>6. /\ Status' = [Status EXCEPT ![e] = "withdrawn"]
      /\ Status[e] = "shared"
      /\ Told' = Told
  BY <1>1, <1>2, <1>3, <1>4, <1>5 DEF Status, Told
<1> QED BY <1>2, <1>6 DEF Shared!Next, Shared!Withdraw, Status, Told

LEMMA AcknowledgeRefines ==
    ASSUME CaseInv, NEW m \in Manager, Acknowledge(m)
    PROVE  Shared!Next \/ (Status' = Status /\ Told' = Told)
<1> DEFINE e == job[m]
<1>1. /\ e \in Event /\ run[m] \in Case /\ source[run[m]] = e /\ saga[run[m]] = "ACTIVE"
      /\ UNCHANGED <<source, saga, revoked>>
  BY DEF CaseInv, TypeOK, ManagersOnTrack, Acknowledge, globalVars
<1>2. Status' = Status
  BY <1>1, StatusStays
<1>3. CASE UNCHANGED outbox
  BY <1>2, <1>3 DEF Told
<1>4. CASE outbox' = [outbox EXCEPT ![e] = "PUBLISHED"]
  <2>1. Told' = Told \cup {e}
    BY <1>1, <1>4 DEF CaseInv, TypeOK, Told
  <2>2. Status[e] # "private"
    BY <1>1, NoneIsNothing, StatusOfCase DEF Status
  <2> QED BY <1>1, <1>2, <2>1, <2>2 DEF Shared!Next, Shared!Tell, Status, Told
<1> QED BY <1>3, <1>4 DEF Acknowledge, clientVars

\* The other steps share, withdraw and tell nothing.
LEMMA OtherStepsStutter ==
    ASSUME CaseInv, NEW m \in Manager,
           \/ Open(m) \/ Crash(m) \/ \E e \in Event : Commit(m, e)
           \/ Export(m) \/ Denied(m) \/ Receive(m) \/ Look(m) \/ Copy(m)
           \/ MarkCopied(m) \/ Overtaken(m) \/ Prepare(m) \/ Sign(m) \/ Refused(m)
    PROVE  Status' = Status /\ Told' = Told
<1>1. \A e \in Event : outbox'[e] = "PUBLISHED" <=> outbox[e] = "PUBLISHED"
  <2>1. CASE \E e \in Event : Commit(m, e)
    BY <2>1 DEF CaseInv, TypeOK, Commit
  <2>2. CASE Export(m)
    <3>1. ASSUME NEW e \in Event, IsFirst(e, Wanted(m)), Claim(e)
          PROVE  \A f \in Event : outbox'[f] = "PUBLISHED" <=> outbox[f] = "PUBLISHED"
      BY <3>1 DEF CaseInv, TypeOK, IsFirst, Wanted, Unpublished, Claim
    <3> QED BY <2>2, <3>1 DEF Export
  <2>3. CASE ~(\E e \in Event : Commit(m, e)) /\ ~Export(m)
    BY <2>3 DEF Open, Crash, Denied, Receive, Look, Copy, MarkCopied, Overtaken,
                Prepare, Sign, Refused, clientVars
  <2> QED BY <2>1, <2>2, <2>3
<1>2. /\ revoked' = revoked
      /\ \A c \in Case : /\ saga'[c] = "ACTIVE" <=> saga[c] = "ACTIVE"
                         /\ saga[c] = "ACTIVE" => source'[c] = source[c]
  <2>1. CASE Receive(m)
    <3>1. ASSUME NEW c \in Case, source[c] = None,
                 source' = [source EXCEPT ![c] = job[m]],
                 saga' = [saga EXCEPT ![c] = "RECEIVED"],
                 NEW d \in Case
          PROVE  /\ saga'[d] = "ACTIVE" <=> saga[d] = "ACTIVE"
                 /\ saga[d] = "ACTIVE" => source'[d] = source[d]
      BY <3>1 DEF CaseInv, TypeOK, SagasOnTrack
    <3> QED BY <2>1, <3>1 DEF Receive
  <2>2. CASE MarkCopied(m) \/ Prepare(m)
    BY <2>2 DEF CaseInv, TypeOK, ManagersOnTrack, MarkCopied, Prepare, Asks
  <2>3. CASE ~Receive(m) /\ ~MarkCopied(m) /\ ~Prepare(m)
    BY <2>3 DEF Open, Crash, Commit, Export, Denied, Look, Copy, Overtaken, Sign,
                Refused, globalVars
  <2> QED BY <2>1, <2>2, <2>3
<1> QED BY <1>1, <1>2, StatusStays DEF Told

LEMMA NextRefines ==
    ASSUME CaseInv, CaseInv', [Next]_vars
    PROVE  Shared!Next \/ (Status' = Status /\ Told' = Told)
<1>1. ASSUME NEW m \in Manager,
             Open(m) \/ Crash(m) \/ DrainStep(m) \/ \E e \in Event : Commit(m, e)
      PROVE  Shared!Next \/ (Status' = Status /\ Told' = Told)
  <2>1. CASE Activate(m)
    BY <2>1, ActivateRefines
  <2>2. CASE Acknowledge(m)
    BY <2>2, AcknowledgeRefines
  <2>3. CASE ~Activate(m) /\ ~Acknowledge(m)
    BY <1>1, <2>3, OtherStepsStutter DEF DrainStep, PublisherStep
  <2> QED BY <2>1, <2>2, <2>3
<1>2. ASSUME NEW c \in Case, Revoke(c) PROVE Shared!Next
  BY <1>2, RevokeRefines
<1>3. CASE (\E e \in Event : Expire(e)) \/ SwitchEpoch \/ UNCHANGED vars
  <2>1. UNCHANGED <<outbox, source, saga, revoked>>
    BY <1>3 DEF Expire, SwitchEpoch, vars, clientVars, globalVars
  <2> QED BY <2>1, StatusStays DEF Told
<1> QED BY <1>1, <1>2, <1>3 DEF Next

\* Publishing implements sharing: a case is shared once, withdrawn for ever,
\* and the client's database is told only of what was shared.
THEOREM CasePublicationRefines == Spec => ImplementsSharedCases
<1>1. Init => Shared!Init
  BY DEF Init, Shared!Init, StatusOf
<1>2. ASSUME CaseInv, CaseInv', [Next]_vars PROVE [Shared!Next]_(Shared!vars)
  BY <1>2, NextRefines DEF Shared!vars, Status, Told
<1> QED BY <1>1, <1>2, CaseInvariant, PTL DEF Spec, ImplementsSharedCases, Shared!Spec
=============================================================================
