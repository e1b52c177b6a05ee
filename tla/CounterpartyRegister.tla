------------------------ MODULE CounterpartyRegister ------------------------
(***************************************************************************)
(* What the calls on a Guac rely on its Storage for: one record for each   *)
(* address, made once and never again, that one call at a time has and     *)
(* that only the call that has it changes, from what the last one left.    *)
(***************************************************************************)
EXTENDS Naturals

CONSTANTS
    Callers,    \* the user's calls and the peers' requests
    Addresses   \* the addresses of peers

VARIABLES
    present,    \* the addresses with a record
    changes,    \* changes[a]: how many changes a's record has had
    owners      \* owners[a]: the callers that have a's record

vars == <<present, changes, owners>>

Init ==
    /\ present = {}
    /\ changes = [a \in Addresses |-> 0]
    /\ owners = [a \in Addresses |-> {}]

Create(a) ==
    /\ a \notin present
    /\ present' = present \cup {a}
    /\ UNCHANGED <<changes, owners>>

Take(c, a) ==
    /\ a \in present
    /\ owners[a] = {}
    /\ owners' = [owners EXCEPT ![a] = {c}]
    /\ UNCHANGED <<present, changes>>

Change(c, a) ==
    /\ owners[a] = {c}
    /\ changes' = [changes EXCEPT ![a] = @ + 1]
    /\ UNCHANGED <<present, owners>>

Give(c, a) ==
    /\ owners[a] = {c}
    /\ owners' = [owners EXCEPT ![a] = {}]
    /\ UNCHANGED <<present, changes>>

Next ==
    \E a \in Addresses :
        \/ Create(a)
        \/ \E c \in Callers : Take(c, a) \/ Change(c, a) \/ Give(c, a)

Spec == Init /\ [][Next]_vars
=============================================================================
