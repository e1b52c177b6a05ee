----------------------------- MODULE Settlement -----------------------------
(***************************************************************************)
(* What two Guac nodes and the contract promise together, whatever calls   *)
(* are lost, late or half done: a channel's money is divided anew only in  *)
(* a deal both nodes have agreed to, that the contract has settled, once,  *)
(* and that changes nothing for the node that was asked.                   *)
(*                                                                         *)
(* Opening a channel is the deal that starts from nothing.                 *)
(***************************************************************************)
EXTENDS Channel

VARIABLES
    stage,      \* stage[n]: where n stands
    deal,       \* deal[n]: the deal n is in, or NoDeal
    bal,        \* bal[n]: how n divides the channel's money
    settled     \* the deals the contract has settled

vars == <<stage, deal, bal, settled>>

Stages == { "closed",   \* no channel
            "open",     \* payments flow
            "agreed",   \* has signed a deal the peer asked for
            "waiting" } \* has a deal the peer has signed

Deals == [seq : Nat, old : Balances, new : Balances]

Nothing == [i \in Node |-> 0]
NoDeal == [seq |-> 0, old |-> Nothing, new |-> Nothing]

Init ==
    /\ \/ /\ stage = [n \in Node |-> "closed"]
          /\ bal = [n \in Node |-> Nothing]
       \/ /\ stage = [n \in Node |-> "open"]
          /\ bal \in [Node -> Balances]
          /\ bal[0] = bal[1]
    /\ deal = [n \in Node |-> NoDeal]
    /\ settled = {}

\* p signs a deal that starts from what it has and leaves its own share alone.
\* One that has been settled is not signed again, unless it changes nothing.
Agree(p) ==
    /\ stage[p] \in {"closed", "open"}
    /\ stage' = [stage EXCEPT ![p] = "agreed"]
    /\ deal'[p] \in Deals
    /\ deal'[p].old = bal[p]
    /\ deal'[p].new[p] = bal[p][p]
    /\ deal'[p] \notin settled \/ deal'[p].new = deal'[p].old
    /\ deal' = [deal EXCEPT ![p] = deal'[p]]
    /\ UNCHANGED <<bal, settled>>

\* n takes up the deal its peer has signed; both divide the money alike.
Start(n) ==
    /\ stage[n] \in {"closed", "open"}
    /\ stage[Peer(n)] = "agreed"
    /\ deal[Peer(n)].old = bal[n]
    /\ stage' = [stage EXCEPT ![n] = "waiting"]
    /\ deal' = [deal EXCEPT ![n] = deal[Peer(n)]]
    /\ UNCHANGED <<bal, settled>>

\* The contract settles a deal, once.
Settle(n) ==
    /\ stage[n] = "waiting"
    /\ deal[n] \notin settled
    /\ settled' = settled \cup {deal[n]}
    /\ UNCHANGED <<stage, deal, bal>>

Opened(n) ==
    /\ deal[n] \in settled
    /\ stage' = [stage EXCEPT ![n] = "open"]
    /\ bal' = [bal EXCEPT ![n] = deal[n].new]
    /\ deal' = [deal EXCEPT ![n] = NoDeal]
    /\ UNCHANGED settled

\* The node that was asked opens first.
Learn(p) == stage[p] = "agreed" /\ Opened(p)

\* The one that asked opens when its peer has, and before anybody pays.
Finish(n) ==
    /\ stage[n] = "waiting"
    /\ stage[Peer(n)] = "open"
    /\ bal[Peer(n)] = deal[n].new
    /\ Opened(n)

\* Payments move money within an open channel.
Move(n) ==
    /\ stage[n] = "open"
    /\ bal'[n] \in Balances
    /\ Total(bal'[n]) = Total(bal[n])
    /\ bal' = [bal EXCEPT ![n] = bal'[n]]
    /\ UNCHANGED <<stage, deal, settled>>

Next ==
    \E n \in Node : \/ Move(n)
                    \/ Agree(n)
                    \/ Start(n)
                    \/ Settle(n)
                    \/ Learn(n)
                    \/ Finish(n)

Spec == Init /\ [][Next]_vars

----------------------------------------------------------------------------
(* What follows from it.                                                   *)

(* Unless a node has a deal under way (the two states Creating and         *)
(* ReDrawing of types.rs) both nodes divide the same amount of money.      *)
SameMoney ==
    (\A n \in Node : stage[n] # "waiting") => Total(bal[0]) = Total(bal[1])

\* Nobody who has signed gains or loses in this step.
ShareKept == \A p \in Node : stage[p] = "agreed" => bal'[p][p] = bal[p][p]

(* A node that is asked (counterparty_api.rs) has after the deal exactly   *)
(* the share it had when it signed, whatever has been settled meanwhile.   *)
AskedKeepsShare == [][ShareKept]_vars
=============================================================================
