------------------------------ MODULE Channel ------------------------------
(***************************************************************************)
(* The Channel of guac_core/src/channel.rs as pure operators: what paying, *)
(* receiving and reading the accrual do to one node's copy of a channel.   *)
(*                                                                         *)
(* The two parties are 0 and 1 by the order of their addresses, so that    *)
(* node n is party n (i_am_0 is n = 0).  balance_0 and balance_1 are the   *)
(* function bal.  A pair of nodes has one channel at a time, so channel_id *)
(* is left out; so are the signatures of two honest nodes.                 *)
(***************************************************************************)
EXTENDS Naturals

Node == {0, 1}
Peer(n) == 1 - n

Balances == [Node -> Nat]
Channels == [seq : Nat, bal : Balances, accrual : Nat]
UpdateTxs == [seq : Nat, bal : Balances]

Total(bal) == bal[0] + bal[1]

\* The balances after n pays amount to its peer.
Moved(bal, n, amount) ==
    [i \in Node |-> IF i = n THEN bal[i] - amount ELSE bal[i] + amount]

NewChannel(bal) == [seq |-> 0, bal |-> bal, accrual |-> 0]

----------------------------------------------------------------------------
(* make_payment.  base is current_seq if the peer supplied one, and the    *)
(* channel's own sequence number otherwise.                                *)

\* Mutant: the copy keeps its sequence number.
MakePaymentSameSeq(ch, n, amount, base) ==
    [seq |-> base, bal |-> Moved(ch.bal, n, amount), accrual |-> ch.accrual]

\* Mutant: the subtraction is not checked.
NotEnoughNever(ch, n, amount) == FALSE

NotEnough(ch, n, amount) == ch.bal[n] < amount

MakePayment(ch, n, amount, base) ==
    [seq |-> base + 1, bal |-> Moved(ch.bal, n, amount), accrual |-> ch.accrual]

\* The update a copy that has just paid sends to the peer.
UpdateOf(ch) == [seq |-> ch.seq, bal |-> ch.bal]

----------------------------------------------------------------------------
(* receive_payment of update u by node n.                                  *)

\* Mutant: no update is stale.
StaleNever(ch, u) == FALSE

\* Answered with Ok(Some(own sequence number)).
Stale(ch, u) == u.seq <= ch.seq

\* Mutant: an update may lower the receiver's balance.
AcceptableTotal(ch, n, u) == Total(u.bal) = Total(ch.bal)

\* The two Forbidden errors: the total changes, or n's own balance falls.
Acceptable(ch, n, u) ==
    /\ Total(u.bal) = Total(ch.bal)
    /\ u.bal[n] >= ch.bal[n]

\* Mutant: the accrual counts the new balance, not the gain.
ReceivedWhole(ch, n, u) ==
    [seq |-> u.seq, bal |-> u.bal, accrual |-> ch.accrual + u.bal[n]]

\* Answered with Ok(None): n's copy adopts the update.
Received(ch, n, u) ==
    [seq |-> u.seq, bal |-> u.bal,
     accrual |-> ch.accrual + (u.bal[n] - ch.bal[n])]

----------------------------------------------------------------------------
(* check_accrual: the caller gets the accrual and the counter is reset.    *)

\* Mutant: the counter is read and not reset.
AccrualKept(ch) == ch

AccrualTaken(ch) == [seq |-> ch.seq, bal |-> ch.bal, accrual |-> 0]
=============================================================================
