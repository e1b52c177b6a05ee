------------------------ MODULE GuacPayments_proofs ------------------------
(***************************************************************************)
(* Two equal copies between which only payments go, nothing is lost and no *)
(* call times out: each user is credited with exactly what the other paid, *)
(* for all amounts, however many payments overlap.  Calls that cross wait  *)
(* for each other for good here, and of them nothing is said.              *)
(***************************************************************************)
EXTENDS Guac_proofs

----------------------------------------------------------------------------
(* The state of a payment.                                                 *)

\* What one has of both nodes in every step.
LEMMA PaymentTypes ==
    ASSUME PaymentsInv, NEW n \in Node
    PROVE  /\ cp \in [Node -> Counterparties] /\ call \in [Node -> Calls]
           /\ asked \in [Node -> Nat] /\ collected \in [Node -> Nat]
           /\ cp[n] = Open(cp[n].ch) /\ cp[n].ch \in Channels /\ cp[n].st = "Open"
           /\ srv[n] = NotServing
           /\ call[n].pc = "receive_payment" => call[n].amount \in Nat
<1>1. /\ cp \in [Node -> Counterparties] /\ call \in [Node -> Calls]
      /\ asked \in [Node -> Nat] /\ collected \in [Node -> Nat]
      /\ cp[n].st = "Open"
  BY DEF PaymentsInv, IInv, TypeOK, AllAccepted
<1>2. cp[n] = Open(cp[n].ch) /\ cp[n].ch \in Channels
  BY <1>1, CpKinds
<1>3. srv[n] = NotServing
  <2>1. srv[n] # NotServing => cp[n].st = Notified[srv[n].kind] /\ srv[n].kind \in DOMAIN Notified
    BY DEF PaymentsInv, IInv, TypeOK, HandlersOK
  <2> QED
    BY <1>1, <2>1, NotifiedKinds
<1>4. call[n].pc = "receive_payment" => call[n].amount \in Nat
  BY <1>1, CallKinds
<1> QED
  BY <1>1, <1>2, <1>3, <1>4

\* n's clone, and its update, follow from the copy n has.
LEMMA Clone ==
    ASSUME PaymentsInv, NEW n \in Node, call[n].pc = "receive_payment"
    PROVE  LET c == call[n]
               p == Peer(n)
           IN  /\ c.ch \in Channels /\ c.amount \in Nat
               /\ c.ch.seq = cp[n].ch.seq + 1 /\ c.ch.accrual = cp[n].ch.accrual
               /\ c.ch.bal[n] = cp[n].ch.bal[n] - c.amount
               /\ c.ch.bal[p] = cp[n].ch.bal[p] + c.amount
<1>1. cp[n].ch \in Channels /\ call[n].ch \in Channels /\ call[n].amount \in Nat
  BY PaymentTypes, CallKinds DEF PaymentsInv, IInv, TypeOK
<1>2. call[n].ch = MakePayment(cp[n].ch, n, call[n].amount, cp[n].ch.seq)
  BY DEF PaymentsInv, IInv, CallMatches
<1> QED
  BY <1>1, <1>2, TwoNodes DEF MakePayment, Moved

\* Of two nodes whose copies differ one has a payment accepted.
LEMMA Agreeing ==
    ASSUME PaymentsInv, NEW n \in Node, ~Accepted(n), ~Accepted(Peer(n))
    PROVE  cp[n].ch.bal = cp[Peer(n)].ch.bal /\ cp[n].ch.seq = cp[Peer(n)].ch.seq
<1>1. Node = {n, Peer(n)}
  BY TwoNodes
<1>2. cp[0].ch.bal = cp[1].ch.bal /\ cp[0].ch.seq = cp[1].ch.seq
  BY <1>1 DEF PaymentsInv, SameCopies
<1> QED
  BY <1>2 DEF Node, Peer

----------------------------------------------------------------------------
(* The steps.                                                              *)

\* A user pays.
LEMMA PayStep ==
    ASSUME PaymentsInv, NEW n \in Node, NEW amount \in Payments, Pay(n, amount)
    PROVE  AllAccepted' /\ SameCopies' /\ \A m \in Node : Credited(m)'
<1> DEFINE p == Peer(n)
<1>1. n \in Node /\ p \in Node /\ p # n /\ Peer(p) = n /\ Node = {n, p}
  BY TwoNodes
<1>2. PICK c : c = [pc |-> "receive_payment", op |-> ops[n] + 1,
                    ch |-> MakePayment(cp[n].ch, n, amount, cp[n].ch.seq),
                    amount |-> amount, reply |-> NoReply]
  OBVIOUS
<1>3. /\ call[n] = Idle /\ call' = [call EXCEPT ![n] = c]
      /\ asked' = [asked EXCEPT ![n] = @ + amount]
      /\ UNCHANGED <<cp, collected>>
      /\ net' = net \cup {Request(n, c.op, c.pc, UpdateOf(c.ch), TRUE)}
  BY <1>2 DEF Pay, MayCall, Free, Await
<1>4. c.pc = "receive_payment" /\ c.reply = NoReply /\ c.amount = amount
  BY <1>2
<1>5. /\ call'[n] = c /\ call'[p] = call[p]
      /\ Sending(n)' /\ ~Accepted(n)' /\ ~Sending(n) /\ ~Accepted(n)
      /\ (Sending(p)' <=> Sending(p)) /\ (Accepted(p)' <=> Accepted(p))
  BY <1>1, <1>3, <1>4, PaymentTypes DEF Sending, Accepted, Idle, NoReply, Done
<1>6. AllAccepted'
  <2>1. ASSUME NEW r \in net'
        PROVE  r.live /\ r.kind = "receive_payment"
    BY <1>3, <1>4, <2>1 DEF Request, PaymentsInv, AllAccepted
  <2>2. \A m \in Node : cp'[m].st = "Open" /\ (call[m] = Idle \/ Sending(m) \/ Accepted(m))
    BY <1>3 DEF PaymentsInv, AllAccepted
  <2> QED
    BY <1>1, <1>5, <2>1, <2>2 DEF AllAccepted
<1>7. SameCopies'
  BY <1>1, <1>3, <1>5 DEF PaymentsInv, SameCopies
<1>8. Credited(n)'
  <2>1. /\ cp[p].ch.accrual \in Nat /\ collected[p] \in Nat /\ amount \in Nat
        /\ asked'[n] = asked[n] + amount
        /\ cp[p].ch.accrual + collected[p] + 0 = asked[n]
    BY <1>1, <1>3, <1>5, PaymentTypes, AmountsAssumption DEF PaymentsInv, Credited, Channels
  <2> QED
    BY <1>3, <1>4, <1>5, <2>1 DEF Credited
<1>9. Credited(p)'
  BY <1>1, <1>3, <1>5, PaymentTypes DEF PaymentsInv, Credited
<1> QED
  BY <1>1, <1>6, <1>7, <1>8, <1>9

\* A user reads the accrual.
LEMMA ReadStep ==
    ASSUME PaymentsInv, NEW n \in Node, CheckAccrual(n)
    PROVE  AllAccepted' /\ SameCopies' /\ \A m \in Node : Credited(m)'
<1> DEFINE p == Peer(n)
<1>1. n \in Node /\ p \in Node /\ p # n /\ Peer(p) = n /\ Node = {n, p}
  BY TwoNodes
<1>2. PICK s : s = [cp[n] EXCEPT !.ch = AccrualTaken(cp[n].ch)]
  OBVIOUS
<1>3. /\ cp' = [cp EXCEPT ![n] = s]
      /\ collected' = [collected EXCEPT ![n] = @ + cp[n].ch.accrual]
      /\ UNCHANGED <<call, net, asked>>
  BY <1>2, Zenon DEF CheckAccrual
<1>4. s.st = "Open" /\ s.ch.bal = cp[n].ch.bal /\ s.ch.seq = cp[n].ch.seq /\ s.ch.accrual = 0
  <2>1. PICK ch : cp[n] = [st |-> "Open", ch |-> ch] /\ ch = cp[n].ch
    BY PaymentTypes DEF Open
  <2>2. s = [st |-> "Open", ch |-> AccrualTaken(ch)]
    BY <1>2, <2>1
  <2> QED
    BY <2>1, <2>2 DEF AccrualTaken
<1>5. cp'[n] = s /\ cp'[p] = cp[p]
  BY <1>1, <1>3, PaymentTypes
<1>6. \A m \in Node : (Sending(m)' <=> Sending(m)) /\ (Accepted(m)' <=> Accepted(m))
  BY <1>3 DEF Sending, Accepted
<1>7. AllAccepted'
  BY <1>1, <1>3, <1>4, <1>5, <1>6 DEF PaymentsInv, AllAccepted
<1>8. SameCopies'
  BY <1>1, <1>4, <1>5, <1>6 DEF PaymentsInv, SameCopies, Node, Peer
<1>9. Credited(n)'
  BY <1>1, <1>3, <1>5, <1>6, PaymentTypes DEF PaymentsInv, Credited
<1>10. Credited(p)'
  <2>1. /\ cp[n].ch.accrual \in Nat /\ collected[n] \in Nat
        /\ collected'[n] = collected[n] + cp[n].ch.accrual
    BY <1>1, <1>3, PaymentTypes DEF Channels
  <2>2. call[p].pc = "receive_payment" => call[p].amount \in Nat
    BY <1>1, PaymentTypes
  <2>3. asked[p] \in Nat /\ Credited(p)
    BY <1>1, PaymentTypes DEF PaymentsInv
  <2> QED
    BY <1>1, <1>3, <1>4, <1>5, <1>6, <2>1, <2>2, <2>3 DEF Credited, Sending
<1> QED
  BY <1>1, <1>7, <1>8, <1>9, <1>10

\* A payment is handled: it is the one its sender waits for, the receiver's
\* copy is the one it was made on, and so it is accepted.
LEMMA TakeStep ==
    ASSUME PaymentsInv, NEW r \in net, HandleReceivePayment(r)
    PROVE  AllAccepted' /\ SameCopies' /\ \A m \in Node : Credited(m)'
<1> DEFINE n == r.from
           p == Peer(n)
           c == call[n]
           u == r.body
<1>1. /\ n \in Node /\ p \in Node /\ p # n /\ Peer(p) = n /\ Node = {n, p}
      /\ r \in Requests
  BY TwoNodes, RequestKinds DEF PaymentsInv, IInv, TypeOK
<1>2. /\ r.live /\ Sending(n) /\ u = UpdateOf(c.ch) /\ call[p] = Idle
      /\ c \in Calls
  <2>1. r.live /\ r.kind = "receive_payment"
    BY DEF PaymentsInv, AllAccepted
  <2>2. OfCall(r)
    BY DEF PaymentsInv, IInv, RequestsOK, InFlight
  <2>3. call[p] = Idle
    BY DEF HandleReceivePayment, Handle, Free
  <2> QED
    BY <1>1, <2>1, <2>2, <2>3, PaymentTypes DEF OfCall, Sending
<1>3. ~Accepted(n) /\ ~Accepted(p) /\ ~Sending(p)
  BY <1>2 DEF Sending, Accepted, NoReply, Done, Idle
<1>4. /\ cp[n].ch.bal = cp[p].ch.bal /\ cp[n].ch.seq = cp[p].ch.seq
      /\ cp[n].ch \in Channels /\ cp[p].ch \in Channels /\ cp[p].st = "Open"
  BY <1>1, <1>3, Agreeing, PaymentTypes
<1>5. /\ u.seq = c.ch.seq /\ u.bal = c.ch.bal /\ c.amount \in Nat
      /\ c.ch.seq = cp[p].ch.seq + 1
      /\ u.bal[n] = cp[p].ch.bal[n] - c.amount
      /\ u.bal[p] = cp[p].ch.bal[p] + c.amount
  BY <1>1, <1>2, <1>4, Clone DEF UpdateOf, Sending
<1>6. /\ cp[p].ch.seq \in Nat /\ cp[p].ch.bal[n] \in Nat /\ cp[p].ch.bal[p] \in Nat
      /\ cp[p].ch.accrual \in Nat
  BY <1>1, <1>4 DEF Channels, Balances
<1>7. ~Stale(cp[p].ch, u) /\ Acceptable(cp[p].ch, p, u)
  <2>1. Total(u.bal) = Total(cp[p].ch.bal)
    BY <1>1, <1>5, <1>6 DEF Total, Node, Peer
  <2> QED
    BY <1>5, <1>6, <2>1 DEF Stale, Acceptable
<1>8. PICK s : s = Open(Received(cp[p].ch, p, u))
  OBVIOUS
<1>9. Handle(r, Outcome(s, Done))
  BY <1>4, <1>7, <1>8 DEF HandleReceivePayment, ReceivePayment
<1>10. PICK d : d = [c EXCEPT !.reply = Done]
  OBVIOUS
<1>11. /\ cp' = [cp EXCEPT ![p] = s] /\ call' = [call EXCEPT ![n] = d]
       /\ net' = net \ {r} /\ UNCHANGED <<asked, collected>>
  BY <1>2, <1>9, <1>10, Zenon DEF Handle, Outcome, Answer, user
<1>12. /\ cp'[p] = s /\ cp'[n] = cp[n] /\ call'[n] = d /\ call'[p] = Idle
  BY <1>1, <1>2, <1>11, PaymentTypes
<1>13. d.pc = "receive_payment" /\ d.reply = Done
  BY <1>2, <1>10, CallKinds DEF Sending
<1>14. Accepted(n)' /\ ~Sending(n)' /\ ~Sending(p)'
  BY <1>2, <1>12, <1>13 DEF Accepted, Sending, NoReply, Done, Idle
<1>15. s.st = "Open" /\ s.ch.accrual = cp[p].ch.accrual + c.amount
  BY <1>5, <1>6, <1>8 DEF Open, Received
<1>16. AllAccepted'
  <2>1. \A m \in Node : cp'[m].st = "Open" /\ (call'[m] = Idle \/ Accepted(m)')
    BY <1>1, <1>12, <1>14, <1>15, PaymentTypes
  <2>2. \A q \in net' : q.live /\ q.kind = "receive_payment"
    BY <1>11 DEF PaymentsInv, AllAccepted
  <2> QED
    BY <2>1, <2>2 DEF AllAccepted
<1>17. SameCopies'
  BY <1>1, <1>14 DEF SameCopies
<1>18. Credited(n)'
  <2>1. cp[p].ch.accrual + collected[p] + c.amount = asked[n] /\ collected[p] \in Nat
    BY <1>1, <1>2, PaymentTypes DEF PaymentsInv, Credited
  <2> QED
    BY <1>5, <1>6, <1>11, <1>12, <1>14, <1>15, <2>1 DEF Credited
<1>19. Credited(p)'
  BY <1>1, <1>3, <1>11, <1>12, <1>14 DEF PaymentsInv, Credited
<1> QED
  BY <1>1, <1>16, <1>17, <1>18, <1>19

\* An accepted payment is stored: the copies are equal again.
LEMMA StoreStep ==
    ASSUME PaymentsInv, NEW n \in Node, PaymentAccepted(n)
    PROVE  AllAccepted' /\ SameCopies' /\ \A m \in Node : Credited(m)'
<1> DEFINE p == Peer(n)
           c == call[n]
<1>1. n \in Node /\ p \in Node /\ p # n /\ Peer(p) = n /\ Node = {n, p}
  BY TwoNodes
<1>2. /\ Accepted(n) /\ cp' = [cp EXCEPT ![n] = Open(c.ch)]
      /\ call' = [call EXCEPT ![n] = Idle] /\ UNCHANGED <<net, asked, collected>>
  BY DEF PaymentAccepted, Accepted, Return, user
<1>3. /\ cp'[n] = Open(c.ch) /\ cp'[p] = cp[p] /\ call'[n] = Idle /\ call'[p] = call[p]
  BY <1>1, <1>2, PaymentTypes
<1>4. cp'[n].st = "Open" /\ cp'[n].ch = c.ch /\ c.ch.accrual = cp[n].ch.accrual
  BY <1>2, <1>3, Clone DEF Accepted, Open
<1>5. cp[p].ch.bal = c.ch.bal /\ cp[p].ch.seq = c.ch.seq
  BY <1>1, <1>2 DEF Accepted, PaymentsInv, IInv, AnswerMeans
<1>6. /\ ~Accepted(n)' /\ ~Sending(n)' /\ ~Sending(n)
      /\ (Sending(p)' <=> Sending(p)) /\ (Accepted(p)' <=> Accepted(p))
  BY <1>2, <1>3 DEF Sending, Accepted, Idle, NoReply, Done
<1>7. AllAccepted'
  BY <1>1, <1>2, <1>3, <1>4, <1>6 DEF PaymentsInv, AllAccepted
<1>8. SameCopies'
  BY <1>1, <1>3, <1>4, <1>5 DEF SameCopies, Node, Peer
<1>9. Credited(n)' /\ Credited(p)'
  BY <1>1, <1>2, <1>3, <1>4, <1>6 DEF PaymentsInv, Credited
<1> QED
  BY <1>1, <1>7, <1>8, <1>9

----------------------------------------------------------------------------
(* The properties.                                                         *)

LEMMA PaymentsInit ==
    ASSUME InitPaid
    PROVE  PaymentsInv
<1>1. IInv
  BY InitOK
<1>2. /\ \A n \in Node : /\ cp[n].st = "Open" /\ cp[n].ch.bal = FilledBal
                         /\ cp[n].ch.seq = 2 /\ cp[n].ch.accrual = 0
                         /\ call[n] = Idle /\ asked[n] = 0 /\ collected[n] = 0
      /\ net = {}
  BY DEF InitPaid, InitWith, Open
<1>3. AllAccepted /\ SameCopies
  BY <1>2 DEF AllAccepted, SameCopies, Node
<1>4. ASSUME NEW n \in Node
      PROVE  Credited(n)
  BY <1>2, TwoNodes DEF Credited, Sending, Idle
<1> QED
  BY <1>1, <1>3, <1>4 DEF PaymentsInv

\* Of Guac's actions only those of a payment and of the accrual are taken.
LEMMA PaymentsNext ==
    ASSUME OnlyPayments, PaymentsInv, [Next]_vars
    PROVE  PaymentsInv'
<1>1. IInv'
  BY NextOK DEF PaymentsInv
<1> SUFFICES AllAccepted' /\ SameCopies' /\ \A m \in Node : Credited(m)'
  BY <1>1 DEF PaymentsInv
<1>2. CASE UNCHANGED vars
  BY <1>2 DEF PaymentsInv, vars, nodes, user, AllAccepted, SameCopies, Credited, Sending, Accepted
<1>3. ASSUME NEW n \in Node, UserCall(n)
      PROVE  AllAccepted' /\ SameCopies' /\ \A m \in Node : Credited(m)'
  <2>1. CASE CheckAccrual(n)
    BY <2>1, ReadStep
  <2>2. ASSUME NEW amount \in Payments, Pay(n, amount)
        PROVE  AllAccepted' /\ SameCopies' /\ \A m \in Node : Credited(m)'
    BY <2>2, PayStep
  <2> QED
    BY <1>3, <2>1, <2>2 DEF UserCall, OnlyPayments
<1>4. ASSUME NEW n \in Node, Serve(n)
      PROVE  AllAccepted' /\ SameCopies' /\ \A m \in Node : Credited(m)'
  <2>1. \A r \in net : r.kind = "receive_payment"
    BY DEF PaymentsInv, AllAccepted
  <2>2. ~OpenedFound(n) /\ ~ReDrawnChecked(n)
    BY PaymentTypes DEF OpenedFound, ReDrawnChecked, NotServing
  <2>3. PICK r \in net : HandleReceivePayment(r)
    BY <1>4, <2>1, <2>2, NotifiedKinds
       DEF Serve, HandleProposeChannel, HandleProposeReDraw, HandleNotify
  <2> QED
    BY <2>3, TakeStep
<1>5. ASSUME NEW n \in Node, Continue(n)
      PROVE  AllAccepted' /\ SameCopies' /\ \A m \in Node : Credited(m)'
  <2>1. call[n] = Idle \/ Sending(n) \/ Accepted(n)
    BY DEF PaymentsInv, AllAccepted
  <2>2. call[n].pc \in {"idle", "receive_payment"}
    BY <2>1 DEF Sending, Accepted, Idle
  <2>3. call[n].pc = "receive_payment" => call[n].reply \in {NoReply, Done}
    BY <2>1 DEF Sending, Accepted, Idle
  <2>4. ~Signature(n) /\ ~SendTransaction(n) /\ ~EventSeen(n) /\ ~Confirmed(n)
    BY <2>2, NotifiedKinds DEF Signature, SendTransaction, EventSeen, Confirmed
  <2>5. ~PaymentStale(n)
    <3>1. PaymentStale(n) => call[n].pc = "receive_payment" /\ call[n].reply.tag = "seq"
      BY DEF PaymentStale
    <3>2. NoReply.tag # "seq" /\ Done.tag # "seq"
      BY DEF NoReply, Done
    <3> QED
      BY <2>3, <3>1, <3>2
  <2>6. ~CallRefused(n)
    BY <2>2, <2>3 DEF CallRefused, HttpCalls, NoReply, Done, Refused
  <2> QED
    BY <1>5, <2>4, <2>5, <2>6, StoreStep DEF Continue
<1>6. ASSUME NEW n \in Node
      PROVE  ~Fail(n) /\ ~Timeout(n)
  <2>1. call[n].pc \in {"idle", "receive_payment"}
    BY DEF PaymentsInv, AllAccepted, Sending, Accepted, Idle
  <2>2. srv[n] = NotServing
    BY PaymentTypes
  <2> QED
    BY <2>1, <2>2 DEF OnlyPayments, Fail, NotifyUnconfirmed, SendFails, EventFails, Timeout
<1>7. pool = {}
  BY Senders DEF PaymentsInv, IInv, PoolOK, Settling, AllAccepted
<1> QED
  BY <1>2, <1>3, <1>4, <1>5, <1>6, <1>7 DEF Next

(* Where only payments go and nothing fails, the nodes keep apart only by   *)
(* the payments on their way, and each of these is credited once. The       *)
(* invariant rests on IInv, that needs no such setting.                     *)
THEOREM PaymentsInvCorrect ==
    ASSUME OnlyPayments
    PROVE  SpecPaid => []PaymentsInv
<1>1. InitPaid => PaymentsInv
  BY PaymentsInit
<1>2. PaymentsInv /\ [Next]_vars => PaymentsInv'
  BY PaymentsNext
<1> QED
  BY <1>1, <1>2, PTL DEF SpecPaid

(* readme.md, Check Accrual: with nothing lost, no call timed out and from *)
(* equal sequence numbers, what a user has asked to pay is exactly what    *)
(* its peer's user has been credited with once the calls are over.         *)
THEOREM PaidExactlyHolds ==
    ASSUME OnlyPayments
    PROVE  SpecPaid => []PaidExactly
<1>1. PaymentsInv => PaidExactly
  <2> SUFFICES ASSUME PaymentsInv, NEW n \in Node, call[n] = Idle
               PROVE  cp[Peer(n)].ch.accrual + collected[Peer(n)] = asked[n]
    BY DEF PaidExactly
  <2>1. cp[Peer(n)].ch.accrual \in Nat /\ collected[Peer(n)] \in Nat
    BY TwoNodes, PaymentTypes DEF Channels
  <2> QED
    BY <2>1 DEF PaymentsInv, Credited, Sending, Idle
<1> QED
  BY <1>1, PaymentsInvCorrect, PTL

(* With nothing lost and no call timed out, payments that overlap leave    *)
(* the two copies equal at rest.                                           *)
THEOREM CopiesAgreeHolds ==
    ASSUME OnlyPayments
    PROVE  SpecPaid => []CopiesAgree
<1>1. PaymentsInv => CopiesAgree
  BY DEF PaymentsInv, SameCopies, CopiesAgree, Accepted, Idle
<1> QED
  BY <1>1, PaymentsInvCorrect, PTL
=============================================================================
