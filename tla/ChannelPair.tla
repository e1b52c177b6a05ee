---------------------------- MODULE ChannelPair ----------------------------
(***************************************************************************)
(* Two copies of one channel over a link that loses and reorders updates,  *)
(* driven the way the header comment and the unit tests of channel.rs      *)
(* drive them: the sender of an update stores it when it sends it.         *)
(*                                                                         *)
(* This is the setting of the "proof of balance liveness" that opens       *)
(* channel.rs.  What Guac::make_payment does with a Channel is another     *)
(* matter, and module Guac models it.                                      *)
(***************************************************************************)
EXTENDS Channel

CONSTANTS
    InitBal,    \* the balances the channel is opened with
    Amounts,    \* what a user may pay; 0 is the unit tests' retry
    MaxSeq      \* the largest sequence number; bounds the behaviours

ASSUME InitBalAssumption == InitBal \in Balances
ASSUME AmountsAssumption == Amounts \subseteq Nat
ASSUME MaxSeqAssumption == MaxSeq \in Nat

VARIABLES
    ch,         \* ch[n]: node n's copy of the channel
    net,        \* the updates in flight
    sent,       \* history: what n has paid in total
    collected   \* history: what check_accrual has returned to n in total

vars == <<ch, net, sent, collected>>

Msgs == [from : Node, seq : Nat, bal : Balances]

Msg(n, c) == [from |-> n, seq |-> c.seq, bal |-> c.bal]

Init ==
    /\ ch = [n \in Node |-> NewChannel(InitBal)]
    /\ net = {}
    /\ sent = [n \in Node |-> 0]
    /\ collected = [n \in Node |-> 0]

\* Mutant: the sender waits for an answer before it stores the payment.
PayUnsaved(n, amount) ==
    /\ ~NotEnough(ch[n], n, amount)
    /\ ch[n].seq < MaxSeq
    /\ net' = net \cup {Msg(n, MakePayment(ch[n], n, amount, ch[n].seq))}
    /\ sent' = [sent EXCEPT ![n] = @ + amount]
    /\ UNCHANGED <<ch, collected>>

\* n pays with its own sequence number: make_payment(amount, None).
Pay(n, amount) ==
    /\ ~NotEnough(ch[n], n, amount)
    /\ ch[n].seq < MaxSeq
    /\ LET c == MakePayment(ch[n], n, amount, ch[n].seq)
       IN  /\ ch' = [ch EXCEPT ![n] = c]
           /\ net' = net \cup {Msg(n, c)}
    /\ sent' = [sent EXCEPT ![n] = @ + amount]
    /\ UNCHANGED collected

\* An update that is not stale arrives and is accepted.
Accept(m) ==
    LET r == Peer(m.from)
    IN  /\ ~Stale(ch[r], m)
        /\ Acceptable(ch[r], r, m)
        /\ ch' = [ch EXCEPT ![r] = Received(ch[r], r, m)]
        /\ net' = net \ {m}
        /\ UNCHANGED <<sent, collected>>

\* Mutant: the sender answers a refusal whatever it has done since.
ResyncAnytime(m, amount) ==
    LET s == m.from
        r == Peer(s)
    IN  /\ Stale(ch[r], m)
        /\ ch[r].seq < MaxSeq
        /\ ~NotEnough(ch[s], s, amount)
        /\ LET c == MakePayment(ch[s], s, amount, ch[r].seq)
           IN  /\ ch' = [ch EXCEPT ![s] = c]
               /\ net' = (net \ {m}) \cup {Msg(s, c)}
        /\ sent' = [sent EXCEPT ![s] = @ + amount]
        /\ UNCHANGED collected

(* An update arrives stale.  The receiver answers with its own sequence    *)
(* number and the sender pays again with make_payment(amount, Some(seq)).  *)
(* The sender awaits the answer before it touches its channel again (in    *)
(* Guac the counterparty is locked until then), so its copy is still the   *)
(* one it sent, and answering and paying again are one step.               *)
Resync(m, amount) ==
    LET s == m.from
        r == Peer(s)
    IN  /\ Stale(ch[r], m)
        /\ ch[s].seq = m.seq
        /\ ch[r].seq < MaxSeq
        /\ ~NotEnough(ch[s], s, amount)
        /\ LET c == MakePayment(ch[s], s, amount, ch[r].seq)
           IN  /\ ch' = [ch EXCEPT ![s] = c]
               /\ net' = (net \ {m}) \cup {Msg(s, c)}
        /\ sent' = [sent EXCEPT ![s] = @ + amount]
        /\ UNCHANGED collected

\* An update, or the answer to it, is lost: the sender is not told.
Lose(m) ==
    /\ net' = net \ {m}
    /\ UNCHANGED <<ch, sent, collected>>

CheckAccrual(n) ==
    /\ ch' = [ch EXCEPT ![n] = AccrualTaken(ch[n])]
    /\ collected' = [collected EXCEPT ![n] = @ + ch[n].accrual]
    /\ UNCHANGED <<net, sent>>

Next ==
    \/ \E n \in Node, amount \in Amounts : Pay(n, amount)
    \/ \E m \in net : Accept(m)
    \/ \E m \in net, amount \in Amounts : Resync(m, amount)
    \/ \E m \in net : Lose(m)
    \/ \E n \in Node : CheckAccrual(n)

Spec == Init /\ [][Next]_vars

----------------------------------------------------------------------------

(* Type invariant of the two copies, the link and the histories.           *)
TypeOK ==
    /\ ch \in [Node -> Channels]
    /\ net \subseteq Msgs
    /\ sent \in [Node -> Nat]
    /\ collected \in [Node -> Nat]

(* channel.rs:14-16, "A(s) will never be lower than B(s)": a node never    *)
(* believes it has given its peer less than the peer believes it has got,  *)
(* whatever was lost or reordered (MakePayment stores on sending).         *)
BalanceLiveness ==
    \A n \in Node : ch[n].bal[Peer(n)] >= ch[Peer(n)].bal[Peer(n)]

(* channel.rs:15-16, the system does not halt: no update in flight is one  *)
(* receive_payment refuses with an error; it is taken or answered with a   *)
(* sequence number to retry with.                                          *)
NeverRefused ==
    \A m \in net : LET r == Peer(m.from)
                   IN  Stale(ch[r], m) \/ Acceptable(ch[r], r, m)

(* No money from nothing: what the two users have been credited (accrual   *)
(* read by check_accrual or still waiting) is at most what both have paid, *)
(* although a node whose payment was lost is credited with it again.       *)
AccrualBounded ==
    ch[0].accrual + collected[0] + ch[1].accrual + collected[1]
        <= sent[0] + sent[1]

(* Each copy's balance is the opening one, less all its node paid, plus    *)
(* all it was credited: no step of either side moves money any other way.  *)
Ledger ==
    \A n \in Node : ch[n].bal[n] + sent[n]
                        = InitBal[n] + ch[n].accrual + collected[n]

(* Two updates a node has in flight under one sequence number are the same *)
(* update: a lost answer never makes it sign two payments for one number.  *)
UniqueUpdate ==
    \A m1, m2 \in net :
        m1.from = m2.from /\ m1.seq = m2.seq => m1 = m2

(* A node's sequence number never falls: a retry with the peer's number    *)
(* (make_payment's Some(seq)) does not take it back.                       *)
SeqMonotonic == [][\A n \in Node : ch'[n].seq >= ch[n].seq]_vars

----------------------------------------------------------------------------
(* The strengthening that makes the above inductive.                       *)

Conserved == \A n \in Node : Total(ch[n].bal) = Total(InitBal)

\* What is known of an update in flight: its sender is at or past its number
\* and, unless it is stale, it lies between the two copies.
InFlight(m) ==
    LET s == m.from
        r == Peer(s)
    IN  /\ m.seq <= ch[s].seq
        /\ Total(m.bal) = Total(InitBal)
        /\ m.seq > ch[r].seq => /\ m.bal[r] >= ch[r].bal[r]
                                /\ m.bal[r] <= ch[s].bal[r]

\* Updates in flight the same way that may still be accepted are ordered: a
\* later one gives the receiver at least as much.
Ordered(m1, m2) ==
    LET r == Peer(m1.from)
    IN  /\ m1.from = m2.from
        /\ m1.seq < m2.seq
        /\ m1.seq > ch[r].seq
        => m1.bal[r] <= m2.bal[r]

(* channel.rs:1-22, with what its argument leaves implicit: payments only  *)
(* move money, and every update in flight, whatever was lost or overtaken, *)
(* lies between the two copies it goes between.                            *)
IInv ==
    /\ TypeOK
    /\ Conserved
    /\ BalanceLiveness
    /\ Ledger
    /\ \A m \in net : InFlight(m)
    /\ \A m1, m2 \in net : Ordered(m1, m2)
    /\ UniqueUpdate
=============================================================================
