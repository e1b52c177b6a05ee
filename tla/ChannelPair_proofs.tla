------------------------- MODULE ChannelPair_proofs -------------------------
(***************************************************************************)
(* The proof of balance liveness that opens channel.rs, checked: for every *)
(* opening balance, every set of amounts and every largest sequence        *)
(* number, whatever updates the link loses or reorders.                    *)
(***************************************************************************)
EXTENDS ChannelPair, TLAPS

----------------------------------------------------------------------------
(* Lemmas about the operators of Channel.                                  *)

\* The peer of a node is the other node.
LEMMA PeerFacts ==
    ASSUME NEW n \in Node
    PROVE  /\ Peer(n) \in Node
           /\ Peer(n) # n
           /\ Peer(Peer(n)) = n
           /\ \A i \in Node : i = n \/ i = Peer(n)
BY DEF Node, Peer

\* Whichever party is named first, the total is the sum of both balances.
LEMMA TotalSum ==
    ASSUME NEW n \in Node, NEW bal \in Balances
    PROVE  /\ Total(bal) = bal[n] + bal[Peer(n)]
           /\ bal[n] \in Nat
           /\ bal[Peer(n)] \in Nat
BY DEF Node, Peer, Total, Balances

\* MakePayment moves amount to the peer and changes nothing else but the
\* sequence number (Channel::make_payment).
LEMMA MakePaymentFacts ==
    ASSUME NEW c \in Channels, NEW n \in Node, NEW amount \in Nat,
           NEW base \in Nat, ~NotEnough(c, n, amount)
    PROVE  LET d == MakePayment(c, n, amount, base)
           IN  /\ d \in Channels
               /\ d.seq = base + 1
               /\ d.bal[n] = c.bal[n] - amount
               /\ d.bal[Peer(n)] = c.bal[Peer(n)] + amount
               /\ Total(d.bal) = Total(c.bal)
               /\ d.accrual = c.accrual
<1> DEFINE d == MakePayment(c, n, amount, base)
<1>1. /\ c.seq \in Nat /\ c.bal \in [Node -> Nat] /\ c.accrual \in Nat
  BY DEF Channels, Balances
<1>2. d = [seq |-> base + 1, bal |-> Moved(c.bal, n, amount),
           accrual |-> c.accrual]
  BY DEF MakePayment
<1>3. Moved(c.bal, n, amount) \in [Node -> Nat]
  BY <1>1 DEF Moved, NotEnough, Node
<1>4. /\ Moved(c.bal, n, amount)[n] = c.bal[n] - amount
      /\ Moved(c.bal, n, amount)[Peer(n)] = c.bal[Peer(n)] + amount
  BY PeerFacts DEF Moved
<1>5. Total(Moved(c.bal, n, amount)) = Total(c.bal)
  BY <1>1, <1>3, <1>4, TotalSum DEF Balances
<1> HIDE DEF d
<1>6. /\ d \in Channels
      /\ d.seq = base + 1
      /\ d.bal = Moved(c.bal, n, amount)
      /\ d.accrual = c.accrual
  BY <1>1, <1>2, <1>3 DEF Channels, Balances
<1> QED
  BY <1>4, <1>5, <1>6 DEF d

\* An acceptable update is adopted whole, and the gain is the accrual's
\* (Channel::receive_payment).
LEMMA ReceivedFacts ==
    ASSUME NEW c \in Channels, NEW n \in Node, NEW m \in Msgs,
           Acceptable(c, n, m)
    PROVE  LET d == Received(c, n, m)
           IN  /\ d \in Channels
               /\ d.seq = m.seq
               /\ d.bal = m.bal
               /\ d.accrual = c.accrual + (m.bal[n] - c.bal[n])
BY DEF Channels, Msgs, Balances, Acceptable, Received

----------------------------------------------------------------------------
(* Type correctness.                                                       *)

LEMMA TypeInit == Init => TypeOK
BY InitBalAssumption DEF Init, TypeOK, NewChannel, Channels

\* An update is well typed.
LEMMA MsgType ==
    ASSUME NEW n \in Node, NEW c \in Channels
    PROVE  /\ Msg(n, c) \in Msgs
           /\ Msg(n, c).from = n
           /\ Msg(n, c).seq = c.seq
           /\ Msg(n, c).bal = c.bal
BY DEF Msg, Msgs, Channels

\* What every action that makes a payment does: Pay from n's own number,
\* Resync from its peer's.
Paid(n, amount, base) ==
    /\ ~NotEnough(ch[n], n, amount)
    /\ ch' = [ch EXCEPT ![n] = MakePayment(ch[n], n, amount, base)]
    /\ sent' = [sent EXCEPT ![n] = @ + amount]
    /\ collected' = collected
    /\ net' \subseteq net \cup {Msg(n, ch'[n])}

\* Pay and Resync both send the update of a payment.
LEMMA PayIsPaid ==
    ASSUME TypeOK, NEW n \in Node, NEW amount \in Amounts, Pay(n, amount)
    PROVE  Paid(n, amount, ch[n].seq)
BY DEF Pay, Paid, TypeOK

LEMMA ResyncIsPaid ==
    ASSUME TypeOK, NEW m \in net, NEW amount \in Amounts, Resync(m, amount)
    PROVE  /\ Paid(m.from, amount, ch[Peer(m.from)].seq)
           /\ m.from \in Node
           /\ ch[m.from].seq <= ch[Peer(m.from)].seq
<1>1. m.from \in Node
  BY DEF TypeOK, Msgs
<1>2. /\ ch[m.from].seq = m.seq
      /\ m.seq <= ch[Peer(m.from)].seq
  BY DEF Resync, Stale
<1>3. Paid(m.from, amount, ch[Peer(m.from)].seq)
  BY <1>1 DEF Resync, Paid, TypeOK
<1> QED
  BY <1>1, <1>2, <1>3

\* What a payment makes of the sender's copy and sends.
LEMMA PaidFacts ==
    ASSUME TypeOK, NEW n \in Node, NEW amount \in Nat, NEW base \in Nat,
           Paid(n, amount, base)
    PROVE  /\ TypeOK'
           /\ ch'[n].seq = base + 1
           /\ ch'[n].bal[n] = ch[n].bal[n] - amount
           /\ ch'[n].bal[Peer(n)] = ch[n].bal[Peer(n)] + amount
           /\ Total(ch'[n].bal) = Total(ch[n].bal)
           /\ ch'[n].accrual = ch[n].accrual
           /\ ch'[Peer(n)] = ch[Peer(n)]
           /\ sent'[n] = sent[n] + amount
           /\ sent'[Peer(n)] = sent[Peer(n)]
           /\ Msg(n, ch'[n]).from = n
           /\ Msg(n, ch'[n]).seq = base + 1
           /\ Msg(n, ch'[n]).bal = ch'[n].bal
<1>1. ch[n] \in Channels
  BY DEF TypeOK
<1>2. ch'[n] = MakePayment(ch[n], n, amount, base)
  BY DEF Paid, TypeOK
<1>3. /\ ch'[n] \in Channels
      /\ ch'[n].seq = base + 1
      /\ ch'[n].bal[n] = ch[n].bal[n] - amount
      /\ ch'[n].bal[Peer(n)] = ch[n].bal[Peer(n)] + amount
      /\ Total(ch'[n].bal) = Total(ch[n].bal)
      /\ ch'[n].accrual = ch[n].accrual
  BY <1>1, <1>2, MakePaymentFacts DEF Paid
<1>4. /\ ch' \in [Node -> Channels]
      /\ ch'[Peer(n)] = ch[Peer(n)]
  BY <1>2, <1>3, PeerFacts DEF Paid, TypeOK
<1>5. /\ Msg(n, ch'[n]) \in Msgs
      /\ Msg(n, ch'[n]).from = n
      /\ Msg(n, ch'[n]).seq = base + 1
      /\ Msg(n, ch'[n]).bal = ch'[n].bal
  BY <1>3, MsgType
<1>6. net' \subseteq Msgs
  BY <1>5 DEF Paid, TypeOK
<1>7. /\ sent' \in [Node -> Nat]
      /\ sent'[n] = sent[n] + amount
      /\ sent'[Peer(n)] = sent[Peer(n)]
  BY PeerFacts DEF Paid, TypeOK
<1>8. collected' \in [Node -> Nat]
  BY DEF Paid, TypeOK
<1> QED
  BY <1>3, <1>4, <1>5, <1>6, <1>7, <1>8 DEF TypeOK

\* Each action keeps the types.
LEMMA TypeStep ==
    ASSUME TypeOK, [Next]_vars
    PROVE  TypeOK'
<1>1. ASSUME NEW n \in Node, NEW amount \in Amounts, Pay(n, amount)
      PROVE  TypeOK'
  BY <1>1, PayIsPaid, PaidFacts, AmountsAssumption DEF TypeOK, Channels
<1>2. ASSUME NEW m \in net, Accept(m)
      PROVE  TypeOK'
  <2>1. m \in Msgs /\ Peer(m.from) \in Node /\ ch[Peer(m.from)] \in Channels
    BY PeerFacts DEF TypeOK, Msgs
  <2>2. Received(ch[Peer(m.from)], Peer(m.from), m) \in Channels
    BY <1>2, <2>1, ReceivedFacts DEF Accept
  <2> QED
    BY <1>2, <2>1, <2>2 DEF Accept, TypeOK
<1>3. ASSUME NEW m \in net, NEW amount \in Amounts, Resync(m, amount)
      PROVE  TypeOK'
  BY <1>3, ResyncIsPaid, PaidFacts, PeerFacts, AmountsAssumption
     DEF TypeOK, Channels
<1>4. ASSUME NEW m \in net, Lose(m)
      PROVE  TypeOK'
  BY <1>4 DEF Lose, TypeOK
<1>5. ASSUME NEW n \in Node, CheckAccrual(n)
      PROVE  TypeOK'
  BY <1>5 DEF CheckAccrual, AccrualTaken, TypeOK, Channels
<1>6. CASE UNCHANGED vars
  BY <1>6 DEF vars, TypeOK
<1> QED
  BY <1>1, <1>2, <1>3, <1>4, <1>5, <1>6 DEF Next

(* The two copies, the link and the histories keep their types.            *)
THEOREM TypeCorrect == Spec => []TypeOK
<1>1. Init => TypeOK
  BY TypeInit
<1>2. TypeOK /\ [Next]_vars => TypeOK'
  BY TypeStep
<1> QED
  BY <1>1, <1>2, PTL DEF Spec

----------------------------------------------------------------------------
(* The inductive invariant.                                                *)

LEMMA IInvInit == Init => IInv
<1> SUFFICES ASSUME Init PROVE IInv
  OBVIOUS
<1>1. TypeOK
  BY TypeInit
<1>2. /\ net = {}
      /\ \A n \in Node : /\ ch[n].bal = InitBal
                         /\ ch[n].accrual = 0
                         /\ sent[n] = 0
                         /\ collected[n] = 0
  BY DEF Init, NewChannel
<1>3. \A n \in Node : InitBal[n] \in Nat /\ Peer(n) \in Node
  BY InitBalAssumption, PeerFacts DEF Balances
<1>4. Conserved
  BY <1>2 DEF Conserved
<1>5. BalanceLiveness
  <2> SUFFICES ASSUME NEW n \in Node
               PROVE  ch[n].bal[Peer(n)] >= ch[Peer(n)].bal[Peer(n)]
    BY DEF BalanceLiveness
  <2>1. Peer(n) \in Node /\ InitBal[Peer(n)] \in Nat
    BY <1>3
  <2>2. ch[n].bal = InitBal /\ ch[Peer(n)].bal = InitBal
    BY <1>2, <2>1
  <2> QED
    BY <2>1, <2>2
<1>6. Ledger
  <2> SUFFICES ASSUME NEW n \in Node
               PROVE  ch[n].bal[n] + sent[n]
                          = InitBal[n] + ch[n].accrual + collected[n]
    BY DEF Ledger
  <2>1. ch[n].bal = InitBal
    BY <1>2
  <2> QED
    BY <1>2, <1>3, <2>1
<1>7. /\ \A m \in net : InFlight(m)
      /\ \A m1, m2 \in net : Ordered(m1, m2)
      /\ UniqueUpdate
  BY <1>2 DEF UniqueUpdate
<1> QED
  BY <1>1, <1>4, <1>5, <1>6, <1>7 DEF IInv

(* Paying from a number that is at least the payer's own, with the peer's  *)
(* number no obstacle, keeps every part of the invariant.                  *)
LEMMA PaidStep ==
    ASSUME IInv, NEW n \in Node, NEW amount \in Nat, NEW base \in Nat,
           ch[n].seq <= base, Paid(n, amount, base)
    PROVE  IInv'
<1> DEFINE p == Peer(n)
           new == Msg(n, ch'[n])
<1>1. /\ TypeOK
      /\ p \in Node /\ p # n /\ Peer(p) = n
      /\ \A i \in Node : i = n \/ i = p
  BY PeerFacts DEF IInv
<1>2. /\ TypeOK'
      /\ ch'[n].seq = base + 1
      /\ ch'[n].bal[n] = ch[n].bal[n] - amount
      /\ ch'[n].bal[p] = ch[n].bal[p] + amount
      /\ Total(ch'[n].bal) = Total(ch[n].bal)
      /\ ch'[n].accrual = ch[n].accrual
      /\ ch'[p] = ch[p]
      /\ sent'[n] = sent[n] + amount
      /\ sent'[p] = sent[p]
      /\ new.from = n /\ new.seq = base + 1 /\ new.bal = ch'[n].bal
  BY <1>1, PaidFacts
<1>3. /\ collected' = collected
      /\ net' \subseteq net \cup {new}
  BY DEF Paid
<1>4. \A i \in Node : /\ ch[i].seq \in Nat /\ ch[i].accrual \in Nat
                      /\ ch[i].bal[n] \in Nat /\ ch[i].bal[p] \in Nat
                      /\ sent[i] \in Nat /\ collected[i] \in Nat
                      /\ InitBal[i] \in Nat
  BY <1>1, InitBalAssumption DEF TypeOK, Channels, Balances
<1>5. \A m \in net : /\ m.from \in Node /\ m.seq \in Nat
                     /\ m.bal[n] \in Nat /\ m.bal[p] \in Nat
  BY <1>1 DEF TypeOK, Msgs, Balances
<1> HIDE DEF p, new
<1>6. Conserved'
  BY <1>1, <1>2 DEF IInv, Conserved
<1>7. BalanceLiveness'
  BY <1>1, <1>2, <1>4, PeerFacts DEF IInv, BalanceLiveness, p
<1>8. Ledger'
  BY <1>1, <1>2, <1>3, <1>4 DEF IInv, Ledger
<1>9. ASSUME NEW m \in net'
      PROVE  InFlight(m)'
  <2>1. CASE m = new
    <3>1. Total(m.bal) = Total(InitBal)
      BY <1>1, <1>2, <2>1 DEF IInv, Conserved
    <3>2. m.bal[p] >= ch'[p].bal[p]
      BY <1>1, <1>2, <1>4, <2>1 DEF IInv, BalanceLiveness, p
    <3> QED
      BY <1>1, <1>2, <1>4, <2>1, <3>1, <3>2 DEF InFlight, p
  <2>2. CASE m \in net
    <3>1. InFlight(m) /\ m.from \in Node
      BY <1>5, <2>2 DEF IInv
    <3>2. CASE m.from = n
      BY <1>1, <1>2, <1>4, <1>5, <2>2, <3>1, <3>2 DEF InFlight, p
    <3>3. CASE m.from = p
      BY <1>1, <1>2, <1>4, <1>5, <2>2, <3>1, <3>3 DEF InFlight
    <3> QED
      BY <1>1, <3>1, <3>2, <3>3
  <2> QED
    BY <1>3, <2>1, <2>2
<1>10. ASSUME NEW m1 \in net', NEW m2 \in net'
       PROVE  Ordered(m1, m2)'
  <2>1. CASE m1 \in net /\ m2 \in net
    <3>1. Ordered(m1, m2) /\ m1.from \in Node
      BY <1>5, <2>1 DEF IInv
    <3>2. CASE m1.from = n
      BY <1>1, <1>2, <3>1, <3>2 DEF Ordered, p
    <3>3. CASE m1.from = p
      BY <1>1, <1>2, <1>4, <1>5, <2>1, <3>1, <3>3 DEF Ordered
    <3> QED
      BY <1>1, <3>1, <3>2, <3>3
  <2>2. CASE m1 \in net /\ m2 = new
    <3>1. InFlight(m1) /\ m1.from \in Node
      BY <1>5, <2>2 DEF IInv
    <3>2. CASE m1.from = n
      BY <1>1, <1>2, <1>4, <1>5, <2>2, <3>1, <3>2 DEF Ordered, InFlight, p
    <3>3. CASE m1.from # n
      BY <1>2, <2>2, <3>3 DEF Ordered
    <3> QED
      BY <3>2, <3>3
  <2>3. CASE m1 = new
    \* Nothing of n's is numbered past the new update.
    <3>1. m2.from = n => m2.seq <= m1.seq
      BY <1>2, <1>3, <1>4, <1>5, <2>3 DEF IInv, InFlight
    <3> QED
      BY <1>2, <1>3, <1>4, <1>5, <2>3, <3>1 DEF Ordered
  <2> QED
    BY <1>3, <2>1, <2>2, <2>3
<1>11. UniqueUpdate'
  <2> SUFFICES ASSUME NEW m1 \in net', NEW m2 \in net',
                      m1.from = m2.from, m1.seq = m2.seq
               PROVE  m1 = m2
    BY DEF UniqueUpdate
  <2>1. \A m \in net : m.from = n => m.seq < base + 1
    BY <1>4, <1>5 DEF IInv, InFlight
  <2>2. CASE m1 \in net /\ m2 \in net
    BY <2>2 DEF IInv, UniqueUpdate
  <2>3. CASE m1 = new \/ m2 = new
    BY <1>2, <1>3, <1>5, <2>1, <2>3
  <2> QED
    BY <1>3, <2>2, <2>3
<1> QED
  BY <1>2, <1>6, <1>7, <1>8, <1>9, <1>10, <1>11 DEF IInv

\* The receiver takes an update on its way.
LEMMA AcceptStep ==
    ASSUME IInv, NEW m \in net, Accept(m)
    PROVE  IInv'
<1> DEFINE s == m.from
           r == Peer(m.from)
<1>1. /\ TypeOK
      /\ s \in Node /\ r \in Node /\ r # s
      /\ Peer(r) = s /\ Peer(s) = r
      /\ \A i \in Node : i = s \/ i = r
      /\ m \in Msgs
  BY PeerFacts DEF IInv, TypeOK, Msgs
<1>2. /\ m.seq > ch[r].seq
      /\ Acceptable(ch[r], r, m)
      /\ ch' = [ch EXCEPT ![r] = Received(ch[r], r, m)]
      /\ net' = net \ {m}
      /\ sent' = sent
      /\ collected' = collected
      /\ ch[r] \in Channels
      /\ m.seq \in Nat /\ ch[r].seq \in Nat
  BY <1>1 DEF Accept, Stale, TypeOK, Channels, Msgs
<1>3. /\ ch'[r].seq = m.seq
      /\ ch'[r].bal = m.bal
      /\ ch'[r].accrual = ch[r].accrual + (m.bal[r] - ch[r].bal[r])
      /\ ch'[s] = ch[s]
  BY <1>1, <1>2, ReceivedFacts DEF TypeOK
<1>4. \A i \in Node : /\ ch[i].seq \in Nat /\ ch[i].accrual \in Nat
                      /\ ch[i].bal \in Balances
                      /\ ch[i].bal[s] \in Nat /\ ch[i].bal[r] \in Nat
                      /\ sent[i] \in Nat /\ collected[i] \in Nat
                      /\ InitBal[i] \in Nat
  <2>1. ASSUME NEW i \in Node
        PROVE  /\ ch[i].seq \in Nat /\ ch[i].accrual \in Nat /\ ch[i].bal \in Balances
               /\ sent[i] \in Nat /\ collected[i] \in Nat /\ InitBal[i] \in Nat
    BY <1>1, InitBalAssumption DEF TypeOK, Channels, Balances
  <2>2. \A i \in Node : ch[i].bal[s] \in Nat /\ ch[i].bal[r] \in Nat
    BY <1>1, <2>1 DEF Balances
  <2> QED
    BY <2>1, <2>2
<1>5. \A x \in net : /\ x.from \in Node /\ x.seq \in Nat
                     /\ x.bal \in Balances
                     /\ x.bal[s] \in Nat /\ x.bal[r] \in Nat
  BY <1>1 DEF TypeOK, Msgs, Balances
<1>6. /\ m.seq <= ch[s].seq
      /\ Total(m.bal) = Total(InitBal)
      /\ m.bal[r] >= ch[r].bal[r]
      /\ m.bal[r] <= ch[s].bal[r]
  BY <1>2 DEF IInv, InFlight
<1> HIDE DEF s, r
<1>7. TypeOK'
  BY <1>1, <1>2, TypeStep DEF Next
<1>8. Conserved'
  BY <1>1, <1>3, <1>6 DEF IInv, Conserved
<1>9. BalanceLiveness'
  <2>1. Total(ch[s].bal) = Total(InitBal)
    BY <1>1 DEF IInv, Conserved
  <2>2. ch[s].bal[s] + ch[s].bal[r] = m.bal[s] + m.bal[r]
    BY <1>1, <1>4, <1>5, <1>6, <2>1, TotalSum DEF r
  <2>3. m.bal[s] >= ch[s].bal[s]
    BY <1>1, <1>4, <1>5, <1>6, <2>2
  <2> QED
    BY <1>1, <1>3, <1>6, <2>3 DEF BalanceLiveness
<1>10. Ledger'
  <2>1. \A i \in Node : ch[i].bal[i] + sent[i]
                             = InitBal[i] + ch[i].accrual + collected[i]
    BY DEF IInv, Ledger
  <2>2. ch'[r].bal[r] + sent[r]
            = InitBal[r] + ch'[r].accrual + collected[r]
    <3>1. m.bal[r] \in Nat
      BY <1>5
    <3> QED
      BY <1>1, <1>3, <1>4, <2>1, <3>1
  <2>3. ch'[s].bal[s] + sent[s]
            = InitBal[s] + ch'[s].accrual + collected[s]
    BY <1>1, <1>3, <2>1
  <2> QED
    BY <1>1, <1>2, <2>2, <2>3 DEF Ledger
<1>11. ASSUME NEW x \in net'
       PROVE  InFlight(x)'
  <2>1. x \in net /\ x # m /\ InFlight(x) /\ x.from \in Node
    BY <1>2, <1>5 DEF IInv
  <2>2. CASE x.from = s
    \* x is still to be accepted only if it was sent after m.
    <3>1. x.seq > m.seq => m.bal[r] <= x.bal[r]
      BY <1>2, <2>1, <2>2 DEF IInv, Ordered, r, s
    <3>2. x.seq > m.seq => x.bal[r] <= ch[s].bal[r]
      BY <1>1, <1>2, <1>4, <1>5, <2>1, <2>2 DEF InFlight
    <3> QED
      BY <1>1, <1>3, <2>1, <2>2, <3>1, <3>2 DEF InFlight
  <2>3. CASE x.from = r
    \* The peer has moved past everything r sent before.
    <3>1. x.seq <= ch[r].seq /\ x.seq <= ch'[s].seq
      BY <1>1, <1>2, <1>3, <1>4, <1>5, <1>6, <2>1, <2>3 DEF InFlight
    <3>2. x.seq <= ch'[r].seq
      BY <1>1, <1>2, <1>3, <1>4, <1>5, <2>1, <3>1
    <3> QED
      BY <1>1, <1>3, <1>4, <1>5, <2>1, <2>3, <3>1, <3>2 DEF InFlight
  <2> QED
    BY <1>1, <2>1, <2>2, <2>3
<1>12. ASSUME NEW x \in net', NEW y \in net'
       PROVE  Ordered(x, y)'
  <2>1. /\ x \in net /\ y \in net /\ x.from \in Node
        /\ Ordered(x, y) /\ InFlight(x)
    BY <1>2, <1>5 DEF IInv
  <2>2. CASE x.from = s
    BY <1>1, <1>2, <1>3, <1>4, <1>5, <2>1, <2>2 DEF Ordered, r
  <2>3. CASE x.from = r
    BY <1>1, <1>3, <2>1, <2>3 DEF Ordered
  <2> QED
    BY <1>1, <2>1, <2>2, <2>3
<1>13. UniqueUpdate'
  BY <1>2 DEF IInv, UniqueUpdate
<1> QED
  BY <1>7, <1>8, <1>9, <1>10, <1>11, <1>12, <1>13 DEF IInv

\* Reading the accrual leaves number and balances alone.
LEMMA CheckAccrualStep ==
    ASSUME IInv, NEW n \in Node, CheckAccrual(n)
    PROVE  IInv'
<1>1. /\ TypeOK
      /\ net' = net
      /\ sent' = sent
      /\ \A i \in Node : ch'[i].seq = ch[i].seq /\ ch'[i].bal = ch[i].bal
      /\ \A i \in Node : Peer(i) \in Node
  BY PeerFacts DEF IInv, CheckAccrual, AccrualTaken, TypeOK
<1>2. \A i \in Node : ch'[i].accrual + collected'[i]
                          = ch[i].accrual + collected[i]
  BY DEF IInv, CheckAccrual, AccrualTaken, TypeOK, Channels
<1>3. TypeOK'
  BY <1>1, TypeStep DEF Next
<1>4. Conserved' /\ BalanceLiveness' /\ UniqueUpdate'
  BY <1>1 DEF IInv, Conserved, BalanceLiveness, UniqueUpdate
<1>5. Ledger'
  <2> SUFFICES ASSUME NEW i \in Node
               PROVE  (ch[i].bal[i] + sent[i]
                          = InitBal[i] + ch[i].accrual + collected[i])'
    BY DEF Ledger
  <2>1. ch[i].bal[i] + sent[i] = InitBal[i] + ch[i].accrual + collected[i]
    BY DEF IInv, Ledger
  <2>2. /\ InitBal[i] \in Nat
        /\ ch[i].accrual \in Nat /\ collected[i] \in Nat
        /\ ch'[i].accrual \in Nat /\ collected'[i] \in Nat
    BY <1>1, <1>3, InitBalAssumption DEF TypeOK, Channels, Balances
  <2>3. ch'[i].accrual + collected'[i] = ch[i].accrual + collected[i]
    BY <1>2
  <2>4. ch'[i].bal[i] = ch[i].bal[i] /\ sent'[i] = sent[i]
    BY <1>1
  <2> QED
    BY <2>1, <2>2, <2>3, <2>4
<1>6. \A m \in net' : InFlight(m)'
  <2> SUFFICES ASSUME NEW m \in net
               PROVE  InFlight(m)'
    BY <1>1
  <2>1. m.from \in Node /\ Peer(m.from) \in Node /\ InFlight(m)
    BY <1>1 DEF IInv, TypeOK, Msgs
  <2> QED
    BY <1>1, <2>1 DEF InFlight
<1>7. \A m1, m2 \in net' : Ordered(m1, m2)'
  <2> SUFFICES ASSUME NEW m1 \in net, NEW m2 \in net
               PROVE  Ordered(m1, m2)'
    BY <1>1
  <2>1. Peer(m1.from) \in Node /\ Ordered(m1, m2)
    BY <1>1 DEF IInv, TypeOK, Msgs
  <2> QED
    BY <1>1, <2>1 DEF Ordered
<1> QED
  BY <1>3, <1>4, <1>5, <1>6, <1>7 DEF IInv

\* One lemma above for each action.
LEMMA IInvStep ==
    ASSUME IInv, [Next]_vars
    PROVE  IInv'
<1>1. ASSUME NEW n \in Node, NEW amount \in Amounts, Pay(n, amount)
      PROVE  IInv'
  <2>1. Paid(n, amount, ch[n].seq) /\ ch[n].seq \in Nat /\ amount \in Nat
    BY <1>1, PayIsPaid, AmountsAssumption DEF IInv, TypeOK, Channels
  <2> QED
    BY <2>1, PaidStep
<1>2. ASSUME NEW m \in net, Accept(m)
      PROVE  IInv'
  BY <1>2, AcceptStep
<1>3. ASSUME NEW m \in net, NEW amount \in Amounts, Resync(m, amount)
      PROVE  IInv'
  <2>1. /\ Paid(m.from, amount, ch[Peer(m.from)].seq)
        /\ m.from \in Node
        /\ ch[m.from].seq <= ch[Peer(m.from)].seq
    BY <1>3, ResyncIsPaid DEF IInv
  <2>2. ch[Peer(m.from)].seq \in Nat /\ amount \in Nat
    BY <2>1, PeerFacts, AmountsAssumption DEF IInv, TypeOK, Channels
  <2> QED
    BY <2>1, <2>2, PaidStep
<1>4. ASSUME NEW m \in net, Lose(m)
      PROVE  IInv'
  <2>1. net' \subseteq net /\ UNCHANGED <<ch, sent, collected>>
    BY <1>4 DEF Lose
  <2> QED
    BY <2>1 DEF IInv, TypeOK, Conserved, BalanceLiveness, Ledger, InFlight,
                Ordered, UniqueUpdate
<1>5. ASSUME NEW n \in Node, CheckAccrual(n)
      PROVE  IInv'
  BY <1>5, CheckAccrualStep
<1>6. CASE UNCHANGED vars
  BY <1>6 DEF vars, IInv, TypeOK, Conserved, BalanceLiveness, Ledger,
              InFlight, Ordered, UniqueUpdate
<1> QED
  BY <1>1, <1>2, <1>3, <1>4, <1>5, <1>6 DEF Next

(* The inductive invariant holds throughout.                               *)
THEOREM IInvCorrect == Spec => []IInv
<1>1. Init => IInv
  BY IInvInit
<1>2. IInv /\ [Next]_vars => IInv'
  BY IInvStep
<1> QED
  BY <1>1, <1>2, PTL DEF Spec

----------------------------------------------------------------------------
(* The theorems.                                                           *)

(* channel.rs:14-16: A(s) is never lower than B(s), whatever is lost.      *)
THEOREM BalanceLivenessHolds == Spec => []BalanceLiveness
<1>1. IInv => BalanceLiveness
  BY DEF IInv
<1> QED
  BY <1>1, IInvCorrect, PTL

\* InFlight and Conserved, read for the receiver.
LEMMA InFlightAnswered == IInv => NeverRefused
<1> SUFFICES ASSUME IInv, NEW m \in net,
                    ~Stale(ch[Peer(m.from)], m)
             PROVE  Acceptable(ch[Peer(m.from)], Peer(m.from), m)
  BY DEF NeverRefused
<1>1. /\ m.seq \in Nat
      /\ Peer(m.from) \in Node
      /\ ch[Peer(m.from)].seq \in Nat
  BY PeerFacts DEF IInv, TypeOK, Msgs, Channels
<1>2. /\ Total(m.bal) = Total(InitBal)
      /\ m.seq > ch[Peer(m.from)].seq
             => m.bal[Peer(m.from)] >= ch[Peer(m.from)].bal[Peer(m.from)]
  BY DEF IInv, InFlight
<1>3. Total(ch[Peer(m.from)].bal) = Total(InitBal)
  BY <1>1 DEF IInv, Conserved
<1> QED
  BY <1>1, <1>2, <1>3 DEF Stale, Acceptable

(* The system never halts: receive_payment refuses no update with an error.*)
THEOREM NeverRefusedHolds == Spec => []NeverRefused
BY IInvCorrect, InFlightAnswered, PTL

\* The two ledgers and BalanceLiveness add up to the bound.
LEMMA LedgersBounded == IInv => AccrualBounded
<1> SUFFICES ASSUME IInv PROVE AccrualBounded
  OBVIOUS
<1>1. \A n \in Node : /\ ch[n].accrual \in Nat /\ ch[n].bal \in Balances
                      /\ sent[n] \in Nat /\ collected[n] \in Nat
  BY DEF IInv, TypeOK, Channels
<1>2. InitBal[0] \in Nat /\ InitBal[1] \in Nat
  BY InitBalAssumption DEF Balances, Node
<1>3. /\ ch[0].bal[0] + sent[0] = InitBal[0] + ch[0].accrual + collected[0]
      /\ ch[1].bal[1] + sent[1] = InitBal[1] + ch[1].accrual + collected[1]
  BY DEF IInv, Ledger, Node
<1>4. ch[0].bal[0] + ch[0].bal[1] = InitBal[0] + InitBal[1]
  BY DEF IInv, Conserved, Total, Node
<1>5. ch[0].bal[1] >= ch[1].bal[1]
  BY DEF IInv, BalanceLiveness, Node, Peer
<1>6. /\ ch[0].bal[0] \in Nat /\ ch[0].bal[1] \in Nat /\ ch[1].bal[1] \in Nat
      /\ ch[0].accrual \in Nat /\ ch[1].accrual \in Nat
      /\ sent[0] \in Nat /\ sent[1] \in Nat
      /\ collected[0] \in Nat /\ collected[1] \in Nat
  BY <1>1 DEF Node, Balances
<1> QED
  BY <1>2, <1>3, <1>4, <1>5, <1>6 DEF AccrualBounded

(* The two users together are never credited more than they have paid:     *)
(* a lost payment counts twice for one of them and not at all for the      *)
(* other, and no money comes from nothing.                                 *)
THEOREM AccrualBoundedHolds == Spec => []AccrualBounded
BY IInvCorrect, LedgersBounded, PTL

(* A node never has two different updates in flight under one number.      *)
THEOREM UniqueUpdateHolds == Spec => []UniqueUpdate
<1>1. IInv => UniqueUpdate
  BY DEF IInv
<1> QED
  BY <1>1, IInvCorrect, PTL

\* Each action adds to a sequence number or leaves it.
LEMMA SeqStep ==
    ASSUME IInv, [Next]_vars
    PROVE  [\A n \in Node : ch'[n].seq >= ch[n].seq]_vars
<1> SUFFICES ASSUME NEW n \in Node, Next
             PROVE  ch'[n].seq >= ch[n].seq
  OBVIOUS
<1>1. TypeOK /\ \A i \in Node : ch[i].seq \in Nat
  BY DEF IInv, TypeOK, Channels
<1>2. ASSUME NEW s \in Node, NEW amount \in Nat, NEW base \in Nat,
             ch[s].seq <= base, Paid(s, amount, base)
      PROVE  ch'[n].seq >= ch[n].seq
  BY <1>1, <1>2, PaidFacts, PeerFacts
<1>3. ASSUME NEW i \in Node, NEW amount \in Amounts, Pay(i, amount)
      PROVE  ch'[n].seq >= ch[n].seq
  BY <1>1, <1>2, <1>3, PayIsPaid, AmountsAssumption
<1>4. ASSUME NEW m \in net, Accept(m)
      PROVE  ch'[n].seq >= ch[n].seq
  <2>1. m \in Msgs /\ Peer(m.from) \in Node /\ m.seq \in Nat
    BY <1>1, PeerFacts DEF TypeOK, Msgs
  <2>2. ch' = [ch EXCEPT ![Peer(m.from)]
                   = Received(ch[Peer(m.from)], Peer(m.from), m)]
    BY <1>4 DEF Accept
  <2>3. ~(m.seq <= ch[Peer(m.from)].seq)
    BY <1>4 DEF Accept, Stale
  <2> QED
    BY <1>1, <2>1, <2>2, <2>3 DEF Received, TypeOK
<1>5. ASSUME NEW m \in net, NEW amount \in Amounts, Resync(m, amount)
      PROVE  ch'[n].seq >= ch[n].seq
  BY <1>1, <1>2, <1>5, ResyncIsPaid, PeerFacts, AmountsAssumption
<1>6. ASSUME NEW m \in net, Lose(m)
      PROVE  ch'[n].seq >= ch[n].seq
  BY <1>1, <1>6 DEF Lose
<1>7. ASSUME NEW i \in Node, CheckAccrual(i)
      PROVE  ch'[n].seq >= ch[n].seq
  BY <1>1, <1>7 DEF CheckAccrual, AccrualTaken, TypeOK
<1> QED
  BY <1>3, <1>4, <1>5, <1>6, <1>7 DEF Next

(* No step takes a sequence number back.                                   *)
THEOREM SeqMonotonicHolds == Spec => SeqMonotonic
<1>1. IInv /\ [Next]_vars
          => [\A n \in Node : ch'[n].seq >= ch[n].seq]_vars
  BY SeqStep
<1> QED
  BY <1>1, IInvCorrect, PTL DEF Spec, SeqMonotonic
=============================================================================
