--------------------------- MODULE BlockchainApi ---------------------------
(***************************************************************************)
(* What Guac takes its blockchain client to do (the BlockchainApi trait of *)
(* channel_manager.rs), in the steps Guac sees of it: a call sends one     *)
(* transaction and is done with it only when it has been mined; a call     *)
(* that ends in an error may have sent it.                                 *)
(***************************************************************************)
CONSTANT Calls

VARIABLES
    stage,      \* stage[c]: where call c stands
    pool,       \* the calls whose transactions are sent and not mined
    mined       \* those whose transactions are

vars == <<stage, pool, mined>>

Init ==
    /\ stage = [c \in Calls |-> "idle"]
    /\ pool = {}
    /\ mined = {}

Becomes(c, s) == stage' = [stage EXCEPT ![c] = s]

Start(c) ==
    /\ stage[c] = "idle"
    /\ Becomes(c, "send")
    /\ UNCHANGED <<pool, mined>>

SendTransaction(c) ==
    /\ stage[c] = "send"
    /\ Becomes(c, "event")
    /\ pool' = pool \cup {c}
    /\ UNCHANGED mined

SendFails(c) ==
    /\ stage[c] = "send"
    /\ Becomes(c, "failed")
    /\ pool' \in {pool, pool \cup {c}}
    /\ UNCHANGED mined

Mine(c) ==
    /\ c \in pool
    /\ pool' = pool \ {c}
    /\ mined' = mined \cup {c}
    /\ UNCHANGED stage

EventSeen(c) ==
    /\ stage[c] = "event"
    /\ c \in mined
    /\ Becomes(c, "ok")
    /\ UNCHANGED <<pool, mined>>

EventFails(c) ==
    /\ stage[c] = "event"
    /\ Becomes(c, "failed")
    /\ UNCHANGED <<pool, mined>>

Next ==
    \E c \in Calls : \/ Start(c)
                     \/ SendTransaction(c)
                     \/ SendFails(c)
                     \/ Mine(c)
                     \/ EventSeen(c)
                     \/ EventFails(c)

Spec == Init /\ [][Next]_vars
=============================================================================
