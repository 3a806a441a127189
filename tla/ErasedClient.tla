---------------------------- MODULE ErasedClient ----------------------------
(* What deleting a client promises: from then on nothing of the client     *)
(* becomes reachable again, the entry that tells whose files they were is  *)
(* kept until the files are gone, and the deletion is called complete only *)
(* when nothing is left and nothing leads there.                           *)
CONSTANTS
    Way,            \* what may lead to the client: sessions, shared cases
    Copy            \* bodies kept outside the client's directory

VARIABLES
    phase,          \* kept, retired or erased
    reach,          \* ways that are open
    copies,         \* bodies that exist
    vault,          \* the client's directory exists
    identity        \* the entry that names its owner exists

TypeInvariant ==
    /\ phase \in {"kept", "retired", "erased"}
    /\ reach \subseteq Way
    /\ copies \subseteq Copy
    /\ vault \in BOOLEAN /\ identity \in BOOLEAN

Init ==
    /\ phase = "kept"
    /\ reach = {} /\ copies = {}
    /\ vault = TRUE /\ identity = TRUE

Use ==
    /\ phase = "kept"
    /\ reach' \subseteq Way
    /\ copies \subseteq copies' /\ copies' \subseteq Copy
    /\ UNCHANGED <<phase, vault, identity>>

Close ==
    /\ reach' \subseteq reach
    /\ UNCHANGED <<phase, copies, vault, identity>>

Retire ==
    /\ phase = "kept"
    /\ phase' = "retired"
    /\ reach' \subseteq reach
    /\ UNCHANGED <<copies, vault, identity>>

RemoveCopy ==
    /\ phase = "retired"
    /\ copies' \subseteq copies
    /\ UNCHANGED <<phase, reach, vault, identity>>

RemoveVault ==
    /\ phase = "retired"
    /\ vault' = FALSE
    /\ UNCHANGED <<phase, reach, copies, identity>>

RemoveIdentity ==
    /\ phase = "retired"
    /\ ~vault
    /\ identity' = FALSE
    /\ UNCHANGED <<phase, reach, copies, vault>>

Finish ==
    /\ phase = "retired"
    /\ reach = {} /\ copies = {} /\ ~vault /\ ~identity
    /\ phase' = "erased"
    /\ UNCHANGED <<reach, copies, vault, identity>>

Next ==
    Use \/ Close \/ Retire \/ RemoveCopy \/ RemoveVault \/ RemoveIdentity \/ Finish

vars == <<phase, reach, copies, vault, identity>>

Spec == Init /\ [][Next]_vars
=============================================================================
