--------------------------- MODULE GuacSettlement ---------------------------
(***************************************************************************)
(* Guac implements Settlement.  Proposals and their answers, transactions, *)
(* notifications, timeouts and errors are steps of Guac that Settlement    *)
(* does not see.                                                           *)
(***************************************************************************)
EXTENDS Guac

Nothing == [i \in Node |-> 0]

StageOf == [Absent |-> "closed", New |-> "closed", Open |-> "open",
            OtherCreating |-> "agreed", OtherReDrawing |-> "agreed",
            Creating |-> "waiting", ReDrawing |-> "waiting"]

\* A NewChannelTx is the deal that starts from nothing.
DealOf(tx) == IF "seq" \in DOMAIN tx
              THEN tx
              ELSE [seq |-> 0, old |-> Nothing, new |-> tx.bal]

NoDeal == [seq |-> 0, old |-> Nothing, new |-> Nothing]

DealIn(s) == IF "tx" \in DOMAIN s THEN DealOf(s.tx) ELSE NoDeal
Divided(s) == IF HasChannel(s) THEN s.ch.bal ELSE Nothing

Deals == INSTANCE Settlement WITH
    stage <- [n \in Node |-> StageOf[cp[n].st]],
    deal <- [n \in Node |-> DealIn(cp[n])],
    bal <- [n \in Node |-> Divided(cp[n])],
    settled <- {DealOf(t.tx) : t \in chain.mined}

(* Every behaviour of the two nodes, with calls lost, late, crossing or    *)
(* ended half way by an error, is one of Settlement: no step of a handler  *)
(* or of a call's continuation (channel_manager.rs, counterparty_api.rs)   *)
(* divides a channel's money in any other way.                             *)
ImplementsSettlement == Deals!Spec

(* The two nodes divide the same amount of money unless one of them is in  *)
(* Creating or ReDrawing: whatever became of the calls, no proposal agreed *)
(* to long ago and no settlement reported late takes them apart.           *)
SameMoney == Deals!SameMoney

(* A node that has signed (OtherCreating, OtherReDrawing) has the same     *)
(* share until it is through with the deal, and then, whatever is handled  *)
(* meanwhile and whichever notification ends it.                           *)
AskedKeepsShare == Deals!AskedKeepsShare
=============================================================================
