-------------------------- MODULE GuacCredit_proofs --------------------------
(***************************************************************************)
(* Nobody is credited with more than twice what its peer's user has asked  *)
(* to pay, for all amounts and whatever is lost, late or made again.       *)
(***************************************************************************)
EXTENDS Guac_proofs

----------------------------------------------------------------------------
(* The numbers.                                                            *)

\* A channel's fields are numbers.
LEMMA ChannelTypes ==
    ASSUME NEW s \in Counterparties, HasChannel(s), NEW n \in Node
    PROVE  /\ s.ch \in Channels /\ s.ch.accrual \in Nat /\ s.ch.seq \in Nat
           /\ s.ch.bal[n] \in Nat
BY CpKinds DEF HasChannel, Channels, Balances

\* What the bound is about is numbers.
LEMMA CreditNow ==
    ASSUME TypeOK, NEW n \in Node
    PROVE  /\ Credit(n) \in Nat /\ PeersShare(n) \in Nat /\ Unanswered(n) \in Nat
           /\ asked[n] \in Nat /\ collected[n] \in Nat
<1>1. /\ cp[n] \in Counterparties /\ call[n] \in Calls /\ asked[n] \in Nat /\ collected[n] \in Nat
  BY DEF TypeOK
<1>2. Peer(n) \in Node
  BY TwoNodes
<1>3. Credit(n) \in Nat /\ PeersShare(n) \in Nat
  BY <1>1, <1>2, ChannelTypes DEF Credit, PeersShare
<1>4. Unanswered(n) \in Nat
  BY <1>1, CallKinds DEF Unanswered
<1> QED
  BY <1>1, <1>3, <1>4

\* And stays numbers.
LEMMA CreditTypes ==
    ASSUME TypeOK, TypeOK', NEW n \in Node
    PROVE  /\ Credit(n) \in Nat /\ PeersShare(n) \in Nat /\ Unanswered(n) \in Nat
           /\ asked[n] \in Nat /\ collected[n] \in Nat
           /\ Credit(n)' \in Nat /\ PeersShare(n)' \in Nat /\ Unanswered(n)' \in Nat
           /\ asked'[n] \in Nat
<1>1. /\ cp[n] \in Counterparties /\ call[n] \in Calls /\ asked[n] \in Nat /\ collected[n] \in Nat
      /\ cp'[n] \in Counterparties /\ call'[n] \in Calls /\ asked'[n] \in Nat /\ collected'[n] \in Nat
  BY DEF TypeOK
<1>2. Peer(n) \in Node
  BY TwoNodes
<1>3. Credit(n) \in Nat /\ PeersShare(n) \in Nat
  BY <1>1, <1>2, ChannelTypes DEF Credit, PeersShare
<1>4. Credit(n)' \in Nat /\ PeersShare(n)' \in Nat
  BY <1>1, <1>2, ChannelTypes DEF Credit, PeersShare
<1>5. Unanswered(n) \in Nat /\ Unanswered(n)' \in Nat
  BY <1>1, CallKinds DEF Unanswered
<1> QED
  BY <1>1, <1>3, <1>4, <1>5

\* What the invariant says of one node, or of one request.
LEMMA CreditParts ==
    ASSUME CreditInv, NEW n \in Node
    PROVE  /\ IInv /\ TypeOK /\ CreditOK(n) /\ PeerLeast(n) /\ KeepsPeer(n)
           /\ Peer(n) \in Node /\ Peer(n) # n /\ Peer(Peer(n)) = n /\ Node = {n, Peer(n)}
           /\ cp \in [Node -> Counterparties] /\ call \in [Node -> Calls] /\ net \subseteq Requests
           /\ asked \in [Node -> Nat] /\ collected \in [Node -> Nat]
           /\ \A r \in net : OrphanOK(r)
BY TwoNodes DEF CreditInv, IInv, TypeOK

----------------------------------------------------------------------------
(* What steps leave alone.                                                 *)

\* Of m's copy of the channel the accrual at most changes.
SameCopy(m) ==
    /\ HasChannel(cp'[m]) <=> HasChannel(cp[m])
    /\ HasChannel(cp[m]) => cp'[m].ch.bal = cp[m].ch.bal /\ cp'[m].ch.seq = cp[m].ch.seq

\* m does not owe more for what it has asked to pay.
OwesNoMore(m) == asked[m] + Unanswered(m)' <= asked'[m] + Unanswered(m)

\* m has no payment accepted now that was not accepted before.
NoneAccepted(m) == Accepted(m)' => Accepted(m) /\ call'[m].ch = call[m].ch

\* An orphan stays in the bound if what its receiver has in all is the same.
LEMMA OrphanKept ==
    ASSUME TypeOK, TypeOK', NEW r \in Requests, OrphanOK(r),
           Outdated(r) => Outdated(r)',
           Credit(Peer(r.from))' + PeersShare(Peer(r.from))'
               = Credit(Peer(r.from)) + PeersShare(Peer(r.from)),
           OwesNoMore(r.from),
           NoneAccepted(Peer(r.from)),
           Accepted(Peer(r.from))' => Credit(Peer(r.from))' = Credit(Peer(r.from))
    PROVE  OrphanOK(r)'
<1> DEFINE p == r.from
           n == Peer(p)
<1>1. p \in Node /\ n \in Node /\ Peer(n) = p
  BY TwoNodes, RequestKinds
<1>2. /\ Credit(n) \in Nat /\ PeersShare(n) \in Nat /\ Unanswered(p) \in Nat /\ asked[p] \in Nat
      /\ Credit(n)' \in Nat /\ PeersShare(n)' \in Nat /\ Unanswered(p)' \in Nat
      /\ asked'[p] \in Nat
  BY <1>1, CreditTypes
<1> SUFFICES ASSUME Orphan(r)
             PROVE  /\ Outdated(r)' \/ Affordable(r, PeersShare(n))'
                    /\ Accepted(n)' => \/ r.body.seq <= call'[n].ch.seq
                                       \/ Affordable(r, call[n].ch.bal[p])'
  BY DEF OrphanOK, Orphan
<1>3. r.body.bal[p] \in Nat
  BY <1>1, RequestKinds DEF Orphan, UpdateTxs, Balances
<1>4. Affordable(r, PeersShare(n)) => Affordable(r, PeersShare(n))'
  BY <1>2, <1>3 DEF Affordable, OwesNoMore
<1>5. ASSUME Accepted(n)', Affordable(r, call[n].ch.bal[p])
      PROVE  Affordable(r, call[n].ch.bal[p])'
  <2>1. call[n].ch = call'[n].ch /\ call[n].ch.bal[p] \in Nat
    BY <1>1, <1>5, CallKinds DEF NoneAccepted, Accepted, TypeOK, Channels, Balances
  <2> QED
    BY <1>2, <1>3, <1>5, <2>1 DEF Affordable, OwesNoMore
<1> QED
  BY <1>4, <1>5 DEF OrphanOK, NoneAccepted

\* A step that credits nobody and changes no balance.
LEMMA Kept ==
    ASSUME CreditInv, IInv',
           \A m \in Node :
               /\ SameCopy(m) /\ Credit(m)' = Credit(m)
               /\ cp'[m].st = "Open" => cp[m].st = "Open"
               /\ KeepsPeer(m)' /\ OwesNoMore(m) /\ NoneAccepted(m),
           \A r \in net' : r \in net \/ ~Orphan(r) \/ OrphanOK(r)'
    PROVE  CreditInv'
<1>1. TypeOK /\ TypeOK' /\ net \subseteq Requests
  BY DEF CreditInv, IInv, TypeOK
<1>2. ASSUME NEW n \in Node
      PROVE  CreditOK(n)' /\ PeerLeast(n)' /\ KeepsPeer(n)'
  <2> DEFINE p == Peer(n)
  <2>1. p \in Node /\ CreditOK(n) /\ PeerLeast(n) /\ p # n /\ Peer(p) = n
    BY CreditParts
  <2>2. CreditOK(n)'
    BY <1>1, <2>1, CreditTypes DEF CreditOK, OwesNoMore
  <2>3. PeerLeast(n)'
    BY <2>1 DEF PeerLeast, SameCopy, HasChannel
  <2> QED
    BY <2>2, <2>3
<1>3. ASSUME NEW r \in net', r \in net
      PROVE  OrphanOK(r)'
  <2> DEFINE p == r.from
             n == Peer(p)
  <2>1. r \in Requests /\ p \in Node /\ n \in Node /\ OrphanOK(r)
    BY <1>1, <1>3, TwoNodes, RequestKinds DEF CreditInv
  <2>2. Outdated(r) => Outdated(r)'
    BY <2>1 DEF Outdated, SameCopy
  <2>3. PeersShare(n)' = PeersShare(n)
    BY <2>1 DEF PeersShare, SameCopy
  <2> QED
    BY <1>1, <2>1, <2>2, <2>3, OrphanKept
<1>4. ASSUME NEW r \in net', ~Orphan(r)
      PROVE  OrphanOK(r)'
  BY <1>4 DEF OrphanOK, Orphan
<1> QED
  BY <1>2, <1>3, <1>4 DEF CreditInv

\* A node whose record stays.
LEMMA RecordKept ==
    ASSUME NEW m \in Node, cp'[m] = cp[m], collected'[m] = collected[m], KeepsPeer(m)
    PROVE  /\ SameCopy(m) /\ Credit(m)' = Credit(m) /\ KeepsPeer(m)'
           /\ cp'[m].st = "Open" => cp[m].st = "Open"
BY DEF SameCopy, Credit, KeepsPeer

\* A node whose call stays, ends, goes on to something else or is not accepted.
LEMMA CallKept ==
    ASSUME TypeOK, TypeOK', NEW m \in Node, asked'[m] = asked[m],
           \/ call'[m] = call[m]
           \/ call'[m].pc # "receive_payment"
           \/ /\ call[m].pc = "receive_payment" /\ call[m].reply # Done
              /\ call'[m].amount = call[m].amount /\ call'[m].reply # Done
    PROVE  OwesNoMore(m) /\ NoneAccepted(m)
<1>1. Unanswered(m) \in Nat /\ asked[m] \in Nat
  BY CreditTypes
<1>2. Unanswered(m)' <= Unanswered(m)
  BY <1>1 DEF Unanswered
<1>3. OwesNoMore(m)
  BY <1>1, <1>2, CreditTypes DEF OwesNoMore
<1>4. NoneAccepted(m)
  BY DEF NoneAccepted, Accepted
<1> QED
  BY <1>3, <1>4

\* The records stay, and no call has a payment that it did not have.
LEMMA QuietCredit ==
    ASSUME CreditInv, IInv', UNCHANGED <<cp, asked, collected>>,
           \A m \in Node : call'[m] = call[m] \/ call'[m].pc # "receive_payment",
           \A r \in net' : r \in net \/ ~Orphan(r) \/ OrphanOK(r)'
    PROVE  CreditInv'
<1>1. TypeOK /\ TypeOK' /\ \A m \in Node : KeepsPeer(m)
  BY DEF CreditInv, IInv
<1>2. ASSUME NEW m \in Node
      PROVE  /\ SameCopy(m) /\ Credit(m)' = Credit(m)
             /\ cp'[m].st = "Open" => cp[m].st = "Open"
             /\ KeepsPeer(m)' /\ OwesNoMore(m) /\ NoneAccepted(m)
  BY <1>1, RecordKept, CallKept
<1> QED
  BY <1>2, Kept

----------------------------------------------------------------------------
(* The user calls.                                                         *)

\* A user fills or withdraws: only a proposal goes out.
LEMMA ProposeCredit ==
    ASSUME CreditInv, IInv', NEW n \in Node,
           \/ \E amount \in Fills : FillNew(n, amount) \/ FillOpen(n, amount)
           \/ \E amount \in Withdrawals : Withdraw(n, amount)
    PROVE  CreditInv'
<1> DEFINE p == Peer(n)
<1>1. /\ p \in Node /\ p # n /\ Node = {n, p} /\ TypeOK /\ TypeOK'
      /\ cp \in [Node -> Counterparties] /\ call \in [Node -> Calls]
      /\ KeepsPeer(n) /\ KeepsPeer(p)
  BY CreditParts DEF IInv
<1>2. PICK c, body :
          /\ c.pc \in Proposing /\ call' = [call EXCEPT ![n] = c]
          /\ net' = net \cup {Request(n, c.op, c.pc, body, TRUE)}
          /\ UNCHANGED <<asked, collected>>
          /\ cp' = cp \/ (cp[n].st \in {"Absent", "New"} /\ cp' = [cp EXCEPT ![n] = New])
  BY DEF FillNew, FillOpen, Withdraw, ProposeReDraw, Await, Proposing
<1>3. call'[n] = c /\ call'[p] = call[p] /\ cp'[p] = cp[p]
  BY <1>1, <1>2
<1>4. ASSUME NEW m \in Node
      PROVE  OwesNoMore(m) /\ NoneAccepted(m)
  BY <1>1, <1>2, <1>3, CallKept DEF Proposing
<1>5. SameCopy(p) /\ Credit(p)' = Credit(p) /\ KeepsPeer(p)'
      /\ (cp'[p].st = "Open" => cp[p].st = "Open")
  BY <1>1, <1>2, <1>3, RecordKept
<1>6. SameCopy(n) /\ Credit(n)' = Credit(n) /\ KeepsPeer(n)'
      /\ (cp'[n].st = "Open" => cp[n].st = "Open")
  <2>1. CASE cp'[n] = cp[n]
    BY <1>1, <1>2, <2>1, RecordKept
  <2>2. CASE cp[n].st \in {"Absent", "New"} /\ cp'[n] = New
    BY <1>2, <2>2 DEF SameCopy, Credit, KeepsPeer, HasChannel, New
  <2> QED
    BY <1>1, <1>2, <2>1, <2>2
<1>7. \A r \in net' : r \in net \/ ~Orphan(r)
  BY <1>2 DEF Orphan, Request
<1> QED
  BY <1>1, <1>4, <1>5, <1>6, <1>7, Kept

\* A user pays: what it asks for is not answered yet.
LEMMA PayCredit ==
    ASSUME CreditInv, IInv', NEW n \in Node, NEW amount \in Payments, Pay(n, amount)
    PROVE  CreditInv'
<1> DEFINE p == Peer(n)
<1>1. /\ p \in Node /\ p # n /\ Node = {n, p} /\ TypeOK /\ TypeOK'
      /\ cp \in [Node -> Counterparties] /\ call \in [Node -> Calls]
      /\ asked \in [Node -> Nat] /\ KeepsPeer(n) /\ KeepsPeer(p)
  BY CreditParts DEF IInv
<1>2. PICK c : c = [pc |-> "receive_payment", op |-> ops[n] + 1,
                    ch |-> MakePayment(cp[n].ch, n, amount, cp[n].ch.seq),
                    amount |-> amount, reply |-> NoReply]
  OBVIOUS
<1>3. /\ call[n] = Idle /\ call' = [call EXCEPT ![n] = c]
      /\ asked' = [asked EXCEPT ![n] = @ + amount]
      /\ UNCHANGED <<cp, collected>>
      /\ net' = net \cup {Request(n, c.op, c.pc, UpdateOf(c.ch), TRUE)}
  BY <1>2 DEF Pay, MayCall, Free, Await
<1>4. c.pc = "receive_payment" /\ c.reply = NoReply /\ c.amount = amount /\ amount \in Nat
  BY <1>2, AmountsAssumption
<1>5. /\ call'[n] = c /\ call'[p] = call[p]
      /\ asked'[n] = asked[n] + amount /\ asked'[p] = asked[p]
  BY <1>1, <1>3
<1>6. OwesNoMore(n) /\ NoneAccepted(n)
  <2>1. Unanswered(n)' = amount /\ Unanswered(n) = 0 /\ asked[n] \in Nat
    BY <1>1, <1>3, <1>4, <1>5 DEF Unanswered, Idle, NoReply, Done
  <2>2. ~Accepted(n)'
    BY <1>4, <1>5 DEF Accepted, NoReply, Done
  <2> QED
    BY <1>4, <1>5, <2>1, <2>2 DEF OwesNoMore, NoneAccepted
<1>7. OwesNoMore(p) /\ NoneAccepted(p)
  BY <1>1, <1>5, CallKept
<1>8. ASSUME NEW m \in Node
      PROVE  /\ SameCopy(m) /\ Credit(m)' = Credit(m) /\ KeepsPeer(m)'
             /\ cp'[m].st = "Open" => cp[m].st = "Open"
  BY <1>1, <1>3, RecordKept
<1>9. \A r \in net' : r \in net \/ ~Orphan(r)
  BY <1>3 DEF Orphan, Request
<1> QED
  BY <1>1, <1>6, <1>7, <1>8, <1>9, Kept

\* A user reads the accrual, which was credited already.
LEMMA ReadCredit ==
    ASSUME CreditInv, IInv', NEW n \in Node, CheckAccrual(n)
    PROVE  CreditInv'
<1> DEFINE p == Peer(n)
<1>1. /\ p \in Node /\ p # n /\ Node = {n, p} /\ TypeOK /\ TypeOK'
      /\ cp \in [Node -> Counterparties] /\ collected \in [Node -> Nat]
      /\ KeepsPeer(n) /\ KeepsPeer(p)
  BY CreditParts DEF IInv
<1>2. PICK s : s = [cp[n] EXCEPT !.ch = AccrualTaken(cp[n].ch)]
  OBVIOUS
<1>3. /\ cp' = [cp EXCEPT ![n] = s] /\ HasChannel(cp[n])
      /\ collected' = [collected EXCEPT ![n] = @ + cp[n].ch.accrual]
      /\ UNCHANGED <<call, net, asked>>
  BY <1>2, Zenon DEF CheckAccrual
<1>4. /\ s.st = cp[n].st /\ s.ch.bal = cp[n].ch.bal /\ s.ch.seq = cp[n].ch.seq
      /\ s.ch.accrual = 0 /\ (s.st # "Open" => s.tx = cp[n].tx)
  BY <1>1, <1>2, <1>3, CpKinds DEF HasChannel, AccrualTaken, Open, ReDrawing, OtherReDrawing
<1>5. /\ cp'[n] = s /\ cp'[p] = cp[p] /\ collected'[p] = collected[p]
      /\ collected'[n] = collected[n] + cp[n].ch.accrual
  BY <1>1, <1>3
<1>6. SameCopy(n) /\ Credit(n)' = Credit(n) /\ KeepsPeer(n)'
      /\ (cp'[n].st = "Open" => cp[n].st = "Open")
  <2>1. HasChannel(s)
    BY <1>3, <1>4 DEF HasChannel
  <2>2. Credit(n)' = Credit(n)
    BY <1>1, <1>3, <1>4, <1>5, <2>1, ChannelTypes DEF Credit
  <2>3. KeepsPeer(n)'
    BY <1>1, <1>3, <1>4, <1>5 DEF KeepsPeer, HasChannel
  <2> QED
    BY <1>3, <1>4, <1>5, <2>1, <2>2, <2>3 DEF SameCopy
<1>7. SameCopy(p) /\ Credit(p)' = Credit(p) /\ KeepsPeer(p)'
      /\ (cp'[p].st = "Open" => cp[p].st = "Open")
  BY <1>1, <1>5, RecordKept
<1>8. ASSUME NEW m \in Node
      PROVE  OwesNoMore(m) /\ NoneAccepted(m)
  BY <1>1, <1>3, CallKept
<1> QED
  BY <1>1, <1>3, <1>6, <1>7, <1>8, Kept

----------------------------------------------------------------------------
(* The handlers.                                                           *)

\* An answer that credits nobody: no payment is accepted, no balance changes.
LEMMA AnsweredCredit ==
    ASSUME CreditInv, IInv', NEW r \in Requests, NEW s \in Counterparties, NEW y \in Replies,
           Answered(r, s, y),
           r.kind = "receive_payment" => y # Done,
           HasChannel(s) <=> HasChannel(cp[Peer(r.from)]),
           HasChannel(s) => s.ch = cp[Peer(r.from)].ch,
           s.st = "Open" => cp[Peer(r.from)].st = "Open",
           KeepsPeer(Peer(r.from))'
    PROVE  CreditInv'
<1> DEFINE n == r.from
           p == Peer(n)
<1>1. /\ n \in Node /\ p \in Node /\ p # n /\ Node = {n, p} /\ TypeOK /\ TypeOK' /\ IInv
      /\ KeepsPeer(n)
  BY TwoNodes, RequestKinds, CreditParts DEF IInv
<1>2. /\ cp'[n] = cp[n] /\ cp'[p] = s /\ net' \subseteq net
      /\ asked' = asked /\ collected' = collected
  BY <1>1, AnsweredEffect DEF Answered, user
<1>3. call'[p] = Idle
  BY <1>1, AnsweredTypes
<1>4. PICK c, d : /\ c = call[n] /\ d = call'[n]
                  /\ ~r.live => d = c
                  /\ r.live => /\ c.pc = r.kind /\ c.reply = NoReply /\ d.pc = c.pc /\ d.reply = y
                               /\ c.pc = "receive_payment" => d.amount = c.amount
  BY <1>1, AnsweredTypes
<1>5. OwesNoMore(n) /\ NoneAccepted(n)
  <2>1. \/ call'[n] = call[n]
        \/ call'[n].pc # "receive_payment"
        \/ /\ call[n].pc = "receive_payment" /\ call[n].reply # Done
           /\ call'[n].amount = call[n].amount /\ call'[n].reply # Done
    BY <1>4 DEF NoReply, Done
  <2> QED
    BY <1>1, <1>2, <2>1, CallKept
<1>6. OwesNoMore(p) /\ NoneAccepted(p)
  BY <1>1, <1>2, <1>3, CallKept DEF Idle
<1>7. SameCopy(n) /\ Credit(n)' = Credit(n) /\ KeepsPeer(n)'
      /\ (cp'[n].st = "Open" => cp[n].st = "Open")
  BY <1>1, <1>2, RecordKept
<1>8. SameCopy(p) /\ Credit(p)' = Credit(p)
  BY <1>2 DEF SameCopy, Credit
<1> QED
  BY <1>1, <1>2, <1>5, <1>6, <1>7, <1>8, Kept

\* A payment is accepted.  What it credits the receiver with it takes from the
\* sender's share of the receiver's copy; it pays for what was not answered,
\* or has been an orphan, and was affordable.
LEMMA TakenCredit ==
    ASSUME CreditInv, IInv', NEW r \in net, r.kind = "receive_payment",
           cp[Peer(r.from)].st = "Open", ~Stale(cp[Peer(r.from)].ch, r.body),
           Acceptable(cp[Peer(r.from)].ch, Peer(r.from), r.body),
           Answered(r, Open(Received(cp[Peer(r.from)].ch, Peer(r.from), r.body)), Done)
    PROVE  CreditInv'
<1> DEFINE n == r.from
           p == Peer(n)
           u == r.body
           ch == cp[p].ch
<1>1. r \in Requests /\ n \in Node /\ IInv /\ TypeOK /\ TypeOK' /\ net \subseteq Requests
  BY RequestKinds DEF CreditInv, IInv, TypeOK
<1>2. p \in Node /\ p # n /\ Peer(p) = n /\ Node = {n, p}
  BY <1>1, TwoNodes
<1>3. PICK s : s = Open(Received(ch, p, u))
  OBVIOUS
<1>4. ch \in Channels /\ u \in UpdateTxs
  BY <1>1, <1>2, CpKinds, RequestKinds DEF TypeOK
<1>5. /\ ch.seq \in Nat /\ ch.bal[n] \in Nat /\ ch.bal[p] \in Nat /\ ch.accrual \in Nat
      /\ u.seq \in Nat /\ u.bal[n] \in Nat /\ u.bal[p] \in Nat
  BY <1>1, <1>2, <1>4 DEF Channels, UpdateTxs, Balances
<1>6. /\ u.seq > ch.seq /\ u.bal[p] >= ch.bal[p]
      /\ u.bal[n] + u.bal[p] = ch.bal[n] + ch.bal[p]
  <2>1. Total(u.bal) = Total(ch.bal)
    BY DEF Acceptable
  <2>2. u.bal[n] + u.bal[p] = ch.bal[n] + ch.bal[p]
    BY <1>1, <1>2, <1>5, <2>1 DEF Total, Node, Peer
  <2> QED
    BY <1>5, <2>2 DEF Stale, Acceptable
<1>7. /\ s.st = "Open" /\ s.ch.seq = u.seq /\ s.ch.bal = u.bal
      /\ s.ch.accrual = ch.accrual + (ch.bal[n] - u.bal[n])
      /\ s \in Counterparties
  <2>1. u.bal[p] - ch.bal[p] = ch.bal[n] - u.bal[n] /\ u.bal[p] - ch.bal[p] \in Nat
    BY <1>5, <1>6
  <2>2. Received(ch, p, u) \in Channels
    BY <1>4, <1>5, <2>1 DEF Received, Channels, UpdateTxs
  <2> QED
    BY <1>3, <2>1, <2>2, CpTypes DEF Open, Received
<1>8. /\ cp'[n] = cp[n] /\ cp'[p] = s /\ net' \subseteq net /\ r \in InFlight
      /\ asked' = asked /\ collected' = collected /\ call[p] = Idle
  BY <1>1, <1>3, <1>7, AnsweredEffect DEF Answered, user, Replies
<1>9. PICK c, d : /\ c = call[n] /\ d = call'[n] /\ call'[p] = Idle
                  /\ ~r.live => d = c
                  /\ r.live => /\ c.pc = "receive_payment" /\ c.reply = NoReply /\ u = UpdateOf(c.ch)
                               /\ d.pc = c.pc /\ d.reply = Done /\ d.ch = c.ch
  <2>1. Done \in Replies
    BY DEF Replies
  <2> QED
    BY <1>1, <1>3, <1>7, <2>1, AnsweredTypes
<1>10. /\ Credit(p) = collected[p] + ch.accrual /\ PeersShare(p) = ch.bal[n]
       /\ Credit(p)' = Credit(p) + (ch.bal[n] - u.bal[n]) /\ PeersShare(p)' = u.bal[n]
       /\ Credit(p) \in Nat /\ collected[p] \in Nat
  <2>1. Credit(p) = collected[p] + ch.accrual /\ PeersShare(p) = ch.bal[n] /\ collected[p] \in Nat
    BY <1>1, <1>2, CreditTypes DEF Credit, PeersShare, HasChannel
  <2>2. Credit(p)' = collected[p] + s.ch.accrual /\ PeersShare(p)' = u.bal[n]
    BY <1>2, <1>7, <1>8 DEF Credit, PeersShare, HasChannel
  <2> QED
    BY <1>5, <1>7, <2>1, <2>2
<1>11. Credit(n)' = Credit(n) /\ PeersShare(n)' = PeersShare(n)
  BY <1>8 DEF Credit, PeersShare
<1>12. /\ Unanswered(n) \in Nat /\ Unanswered(n)' \in Nat /\ asked[n] \in Nat
       /\ Unanswered(p)' = Unanswered(p)
       /\ r.live => Unanswered(n)' = 0
       /\ ~r.live => Unanswered(n)' = Unanswered(n)
  BY <1>1, <1>8, <1>9, CreditTypes DEF Unanswered
<1>13. InReach(r) /\ Covered(r) /\ HasChannel(cp[n])
  BY <1>1, <1>8, Sender DEF InReach, Numbered
<1>14. ~Outdated(r)
  BY <1>2, <1>5, <1>6 DEF Outdated
<1>15. CreditOK(p)'
  <2>1. CASE r.live
    <3>1. /\ cp[n].st = "Open" /\ c.ch = MakePayment(cp[n].ch, n, c.amount, cp[n].ch.seq)
          /\ ~NotEnough(cp[n].ch, n, c.amount) /\ Unanswered(n) = c.amount
      BY <1>1, <1>9, <2>1 DEF IInv, CallMatches, Unanswered, NoReply, Done
    <3>2. cp[n].ch.bal[n] \in Nat /\ c.amount \in Nat
      BY <1>1, <1>12, <1>13, <3>1, ChannelTypes DEF TypeOK
    <3>3. u.bal[n] = cp[n].ch.bal[n] - c.amount
      BY <1>1, <1>9, <2>1, <3>1 DEF UpdateOf, MakePayment, Moved
    <3>4. ch.bal[n] <= cp[n].ch.bal[n]
      BY <1>2, <3>1, CreditParts DEF PeerLeast, HasChannel
    <3>5. Credit(p) + 2 * c.amount <= 2 * asked[n]
      BY <1>2, <3>1, CreditParts DEF CreditOK
    <3>6. Credit(p)' <= 2 * asked[n]
      BY <1>5, <1>10, <1>12, <3>2, <3>3, <3>4, <3>5
    <3>7. Credit(p)' + 2 * Unanswered(n)' <= 2 * asked[n]
      BY <1>5, <1>10, <1>12, <2>1, <3>3, <3>6
    <3> QED
      BY <1>2, <1>8, <3>7 DEF CreditOK
  <2>2. CASE ~r.live
    <3>1. Affordable(r, PeersShare(p))
      BY <1>2, <1>14, <2>2, CreditParts DEF OrphanOK, Orphan
    <3>2. Credit(p) + ch.bal[n] + 2 * Unanswered(n) <= u.bal[n] + 2 * asked[n]
      BY <1>10, <3>1 DEF Affordable
    <3>3. Credit(p)' + 2 * Unanswered(n)' <= 2 * asked[n]
      BY <1>5, <1>10, <1>12, <2>2, <3>2
    <3> QED
      BY <1>2, <1>8, <3>3 DEF CreditOK
  <2> QED
    BY <2>1, <2>2
<1>16. CreditOK(n)'
  BY <1>1, <1>2, <1>8, <1>11, <1>12, CreditParts DEF CreditOK
<1>17. PeerLeast(n)'
  <2>1. HasChannel(cp[n]) => cp[n].ch.bal[p] <= ch.bal[p] /\ cp[n].ch.bal[p] \in Nat
    BY <1>1, <1>2, CreditParts, ChannelTypes DEF PeerLeast, TypeOK
  <2> QED
    BY <1>5, <1>6, <1>7, <1>8, <2>1 DEF PeerLeast
<1>18. PeerLeast(p)'
  <2>1. u.bal[n] <= cp[n].ch.bal[n]
    BY <1>13, <1>14 DEF Covered
  <2> QED
    BY <1>2, <1>7, <1>8, <2>1 DEF PeerLeast
<1>19. KeepsPeer(n)' /\ KeepsPeer(p)'
  <2>1. KeepsPeer(n)'
    BY <1>1, <1>8, CreditParts DEF KeepsPeer
  <2> QED
    BY <1>7, <1>8, <2>1 DEF KeepsPeer
<1>20. ASSUME NEW q \in net', q.from = n
       PROVE  OrphanOK(q)'
  <2>1. q \in Requests /\ OrphanOK(q)
    BY <1>1, <1>8, <1>20, CreditParts
  <2> SUFFICES ASSUME Orphan(q)
               PROVE  OrphanOK(q)'
    BY DEF OrphanOK, Orphan
  <2>2. Outdated(q) => Outdated(q)'
    <3>1. q.body.seq \in Nat
      BY <2>1, RequestKinds DEF Orphan, UpdateTxs
    <3>2. Outdated(q) => q.body.seq <= ch.seq
      BY <1>20 DEF Outdated
    <3>3. q.body.seq <= u.seq => Outdated(q)'
      BY <1>7, <1>8, <1>20 DEF Outdated, HasChannel
    <3> QED
      BY <1>5, <1>6, <3>1, <3>2, <3>3
  <2>3. Credit(p)' + PeersShare(p)' = Credit(p) + PeersShare(p)
    BY <1>5, <1>10
  <2>4. OwesNoMore(n)
    BY <1>8, <1>12 DEF OwesNoMore
  <2>5. NoneAccepted(p) /\ ~Accepted(p)'
    BY <1>9 DEF NoneAccepted, Accepted, Idle
  <2> QED
    BY <1>1, <1>20, <2>1, <2>2, <2>3, <2>4, <2>5, OrphanKept
<1>21. ASSUME NEW q \in net', q.from = p
       PROVE  OrphanOK(q)'
  <2>1. q \in Requests /\ OrphanOK(q)
    BY <1>1, <1>8, <1>21, CreditParts
  <2> SUFFICES ASSUME Orphan(q)
               PROVE  OrphanOK(q)'
    BY DEF OrphanOK, Orphan
  <2>2. Outdated(q) => Outdated(q)'
    BY <1>2, <1>8, <1>21 DEF Outdated
  <2>3. OwesNoMore(p)
    BY <1>1, <1>2, <1>8, <1>12, CreditTypes DEF OwesNoMore
  <2>4. CASE ~r.live
    <3>1. NoneAccepted(n)
      BY <1>9, <2>4 DEF NoneAccepted, Accepted
    <3> QED
      BY <1>1, <1>2, <1>11, <1>21, <2>1, <2>2, <2>3, <3>1, OrphanKept
  <2>5. CASE r.live
    <3>1. Affordable(q, PeersShare(n)) => Affordable(q, PeersShare(n))'
      BY <1>2, <1>8, <1>11, <1>12, <1>21 DEF Affordable
    <3>2. q.body.seq <= d.ch.seq
      <4>1. c.ch.seq = cp[n].ch.seq + 1 /\ d.ch.seq = c.ch.seq /\ u.seq = c.ch.seq
        <5>1. c.ch = MakePayment(cp[n].ch, n, c.amount, cp[n].ch.seq)
          BY <1>1, <1>9, <2>5 DEF IInv, CallMatches
        <5>2. u = UpdateOf(c.ch) /\ d.ch = c.ch
          BY <1>9, <2>5
        <5> QED
          BY <5>1, <5>2 DEF UpdateOf, MakePayment
      <4>2. q.body.seq <= ch.seq + 1 \/ q.body.seq <= cp[n].ch.seq + 1
        BY <1>1, <1>2, <1>8, <1>21, Sender DEF InReach, Numbered, Orphan, InFlight
      <4>3. q.body.seq \in Nat
        BY <2>1, RequestKinds DEF Orphan, UpdateTxs
      <4> QED
        BY <1>5, <1>6, <4>1, <4>2, <4>3
    <3> QED
      BY <1>2, <1>9, <1>21, <2>1, <2>2, <3>1, <3>2 DEF OrphanOK
  <2> QED
    BY <2>4, <2>5
<1>22. \A q \in net' : q.from \in {n, p}
  BY <1>1, <1>2, <1>8, RequestKinds
<1> QED
  BY <1>2, <1>15, <1>16, <1>17, <1>18, <1>19, <1>20, <1>21, <1>22 DEF CreditInv

\* A notification's handler serves a settlement its sender waits for, and its
\* answer settles no payment.
LEMMA NotifiedCalls ==
    ASSUME CreditInv, IInv', NEW p \in Node, OpenedFound(p) \/ ReDrawnChecked(p)
    PROVE  /\ cp[p].st = Notified[srv[p].kind]
           /\ cp[Peer(p)].st = IF srv[p].kind = "notify_channel_opened"
                               THEN "Creating" ELSE "ReDrawing"
           /\ \A m \in Node : OwesNoMore(m) /\ NoneAccepted(m)
           /\ call'[p] = Idle
           /\ UNCHANGED <<net, asked, collected>>
<1> DEFINE n == Peer(p)
<1>1. /\ n \in Node /\ n # p /\ Peer(n) = p /\ Node = {n, p} /\ TypeOK /\ TypeOK' /\ IInv
      /\ call \in [Node -> Calls]
  BY CreditParts DEF IInv
<1>2. PICK r \in Requests : r = srv[p] /\ r.kind \in DOMAIN Notified /\ r.from = n
  BY <1>1, NotifiedKinds DEF OpenedFound, ReDrawnChecked, IInv, TypeOK, HandlersOK, NotServing
<1>3. r # NotServing /\ Announced(r)
  BY <1>1, <1>2, Sender, RequestKinds DEF InFlight, Handled
<1>4. cp[p].st = Notified[r.kind] /\ call[p] = Idle
  BY <1>1, <1>2, <1>3 DEF TypeOK
<1>5. /\ cp[n].st = IF r.kind = "notify_channel_opened" THEN "Creating" ELSE "ReDrawing"
      /\ UNCHANGED <<net, asked, collected>>
  BY <1>2, <1>3, NotifiedKinds DEF Announced, OpenedFound, ReDrawnChecked, user
<1>6. PICK c \in Calls : c = call[n]
  BY <1>1
<1>7. call' = IF r.live THEN [call EXCEPT ![n] = [c EXCEPT !.reply = Done]] ELSE call
  BY <1>2, <1>6, Zenon DEF OpenedFound, ReDrawnChecked, Answer
<1>8. c.pc # "receive_payment"
  BY <1>1, <1>5, <1>6 DEF IInv, CallMatches
<1>9. [c EXCEPT !.reply = Done].pc = c.pc
  BY <1>6, CallKinds DEF Calls, Idle
<1>10. call'[p] = Idle /\ call'[n].pc # "receive_payment"
  BY <1>1, <1>4, <1>6, <1>7, <1>8, <1>9
<1>11. OwesNoMore(n) /\ NoneAccepted(n) /\ OwesNoMore(p) /\ NoneAccepted(p)
  BY <1>1, <1>5, <1>10, CallKept DEF Idle
<1> QED
  BY <1>1, <1>2, <1>4, <1>5, <1>10, <1>11

\* The bound holds if neither is credited nor owes more.
LEMMA CreditStays ==
    ASSUME CreditInv, IInv', NEW n \in Node, Credit(n)' = Credit(n), OwesNoMore(Peer(n))
    PROVE  CreditOK(n)'
BY CreditParts, CreditTypes DEF CreditOK, OwesNoMore, IInv

\* check_for_open has found the event: the channel starts with no accrual, and
\* no payment can have been sent yet.
LEMMA OpenedCredit ==
    ASSUME CreditInv, IInv', NEW p \in Node, OpenedFound(p)
    PROVE  CreditInv'
<1> DEFINE n == Peer(p)
<1>1. /\ n \in Node /\ n # p /\ Peer(n) = p /\ Node = {n, p} /\ TypeOK /\ TypeOK' /\ IInv
      /\ cp \in [Node -> Counterparties] /\ net \subseteq Requests
  BY CreditParts DEF IInv, TypeOK
<1>2. PICK s : s = Open(NewChannel(cp[p].tx.bal))
  OBVIOUS
<1>3. cp' = [cp EXCEPT ![p] = s] /\ srv[p].kind = "notify_channel_opened"
  BY <1>2 DEF OpenedFound
<1>4. /\ cp[p].st = "OtherCreating" /\ cp[n].st = "Creating"
      /\ OwesNoMore(n) /\ OwesNoMore(p) /\ UNCHANGED <<net, asked, collected>>
  BY <1>1, <1>3, NotifiedCalls, NotifiedKinds
<1>5. cp'[p] = s /\ cp'[n] = cp[n] /\ s.st = "Open" /\ s.ch.accrual = 0
  BY <1>1, <1>2, <1>3 DEF Open, NewChannel
<1>6. ASSUME NEW q \in net'
      PROVE  OrphanOK(q)'
  <2>1. q \in net /\ q \in Requests /\ InReach(q) /\ q.from \in {n, p}
    BY <1>1, <1>4, <1>6, Sender, RequestKinds DEF InFlight
  <2>2. ~Orphan(q)
    BY <1>4, <2>1 DEF InReach, Numbered, Orphan, HasChannel
  <2> QED
    BY <2>2 DEF OrphanOK, Orphan
<1>7. Credit(n)' = Credit(n) /\ Credit(p)' = Credit(p)
  <2>1. collected[p] \in Nat
    BY <1>1, CreditTypes
  <2> QED
    BY <1>4, <1>5, <2>1 DEF Credit, HasChannel
<1>8. CreditOK(n)' /\ CreditOK(p)'
  BY <1>1, <1>4, <1>7, CreditStays
<1>9. PeerLeast(n)' /\ PeerLeast(p)'
  BY <1>1, <1>4, <1>5 DEF PeerLeast, HasChannel
<1>10. KeepsPeer(n)' /\ KeepsPeer(p)'
  BY <1>1, <1>4, <1>5, CreditParts DEF KeepsPeer
<1> QED
  BY <1>1, <1>6, <1>8, <1>9, <1>10 DEF CreditInv

\* notify_re_draw opens the channel again: what the peer has sent before it
\* asked for the redraw is out of date.
LEMMA ReDrawnCredit ==
    ASSUME CreditInv, IInv', NEW p \in Node, ReDrawnChecked(p)
    PROVE  CreditInv'
<1> DEFINE n == Peer(p)
<1>1. /\ n \in Node /\ n # p /\ Peer(n) = p /\ Node = {n, p} /\ TypeOK /\ TypeOK' /\ IInv
      /\ cp \in [Node -> Counterparties] /\ net \subseteq Requests
  BY CreditParts DEF IInv, TypeOK
<1>2. PICK s : s = Open([seq |-> cp[p].tx.seq, bal |-> cp[p].tx.new, accrual |-> cp[p].ch.accrual])
  OBVIOUS
<1>3. cp' = [cp EXCEPT ![p] = s] /\ srv[p].kind = "notify_re_draw"
  BY <1>2 DEF ReDrawnChecked
<1>4. /\ cp[p].st = "OtherReDrawing" /\ cp[n].st = "ReDrawing" /\ call'[p] = Idle
      /\ OwesNoMore(n) /\ OwesNoMore(p) /\ NoneAccepted(n) /\ NoneAccepted(p)
      /\ UNCHANGED <<net, asked, collected>>
  BY <1>1, <1>3, NotifiedCalls, NotifiedKinds
<1>5. /\ cp'[p] = s /\ cp'[n] = cp[n] /\ s.st = "Open" /\ s.ch.accrual = cp[p].ch.accrual
      /\ s.ch.seq = cp[p].tx.seq /\ s.ch.bal = cp[p].tx.new
  BY <1>1, <1>2, <1>3 DEF Open
<1>6. /\ cp[p].tx = cp[n].tx /\ NoneAbove(n, cp[p].tx.seq)
      /\ cp[n].tx.old = cp[n].ch.bal /\ cp[n].tx.new[p] = cp[n].ch.bal[p]
  <2>1. ReDrawingOK(n) /\ KeepsPeer(n)
    BY <1>1, CreditParts DEF IInv
  <2> QED
    BY <1>1, <1>4, <2>1 DEF ReDrawingOK, KeepsPeer
<1>7. Credit(n)' = Credit(n) /\ Credit(p)' = Credit(p)
  BY <1>4, <1>5 DEF Credit, HasChannel
<1>8. CreditOK(n)' /\ CreditOK(p)'
  BY <1>1, <1>4, <1>7, CreditStays
<1>9. PeerLeast(n)' /\ PeerLeast(p)'
  <2>1. PeerLeast(p)'
    BY <1>1, <1>4, <1>5 DEF PeerLeast
  <2>2. s.ch.bal[p] = cp[n].ch.bal[p] /\ cp[n].ch.bal[p] \in Nat
    BY <1>1, <1>4, <1>5, <1>6, ChannelTypes DEF HasChannel
  <2>3. PeerLeast(n)'
    BY <1>1, <1>5, <2>2 DEF PeerLeast
  <2> QED
    BY <2>1, <2>3
<1>10. KeepsPeer(n)' /\ KeepsPeer(p)'
  BY <1>1, <1>4, <1>5, CreditParts DEF KeepsPeer
<1>11. ASSUME NEW q \in net', q.from = n
       PROVE  OrphanOK(q)'
  <2>1. ~Accepted(p)'
    BY <1>4 DEF Accepted, Idle
  <2>2. q.kind = "receive_payment" => q.body.seq <= s.ch.seq
    BY <1>4, <1>5, <1>6, <1>11 DEF NoneAbove, Numbered
  <2>3. q.body.seq <= s.ch.seq => Outdated(q)'
    BY <1>1, <1>5, <1>11 DEF Outdated, HasChannel
  <2> QED
    BY <1>1, <1>11, <2>1, <2>2, <2>3 DEF OrphanOK, Orphan
<1>12. ASSUME NEW q \in net', q.from = p
       PROVE  OrphanOK(q)'
  <2>1. q \in Requests /\ OrphanOK(q)
    BY <1>1, <1>4, <1>12, CreditParts
  <2>2. /\ Outdated(q) => Outdated(q)'
        /\ PeersShare(n)' = PeersShare(n)
    BY <1>1, <1>5, <1>12 DEF Outdated, PeersShare
  <2> QED
    BY <1>1, <1>4, <1>7, <1>12, <2>1, <2>2, OrphanKept
<1>13. \A q \in net' : q.from \in {n, p}
  BY <1>1, <1>4, RequestKinds
<1> QED
  BY <1>1, <1>8, <1>9, <1>10, <1>11, <1>12, <1>13 DEF CreditInv

\* Every handler, by its outcome.
LEMMA ServeCredit ==
    ASSUME CreditInv, IInv', NEW m \in Node, Serve(m) \/ NotifyUnconfirmed(m)
    PROVE  CreditInv'
<1>1. /\ IInv /\ cp \in [Node -> Counterparties] /\ net \subseteq Requests
      /\ srv \in [Node -> Requests \cup {NotServing}] /\ cp' \in [Node -> Counterparties]
      /\ \A n \in Node : KeepsPeer(n)
  BY DEF CreditInv, IInv, TypeOK
<1>2. ASSUME NEW r \in net, NEW s, NEW y, Handle(r, Outcome(s, y))
      PROVE  /\ Answered(r, s, y) /\ r \in Requests /\ Peer(r.from) \in Node
             /\ cp'[Peer(r.from)] = s /\ s \in Counterparties
  BY <1>1, <1>2, TwoNodes, RequestKinds DEF Handle, Outcome, Answered, Gone
<1>3. /\ Signed \in Replies /\ Refused \in Replies /\ Signed # Done /\ Refused # Done
      /\ \A i \in Nat : CurrentSeq(i) \in Replies /\ CurrentSeq(i) # Done
  BY DEF Replies, Signed, Refused, Done, CurrentSeq
<1>4. ASSUME NEW r \in Requests, Answered(r, cp[Peer(r.from)], Refused)
      PROVE  CreditInv'
  <2> DEFINE p == Peer(r.from)
  <2>1. p \in Node /\ cp'[p] = cp[p] /\ cp[p] \in Counterparties
    BY <1>1, <1>4, TwoNodes, RequestKinds DEF Answered
  <2>2. KeepsPeer(p)'
    BY <1>1, <2>1 DEF KeepsPeer
  <2> QED
    BY <1>3, <1>4, <2>1, <2>2, AnsweredCredit
<1>5. ASSUME NEW r \in net, HandleProposeChannel(r)
      PROVE  CreditInv'
  <2> DEFINE p == Peer(r.from)
  <2>1. PICK s, y : /\ ProposeChannel(cp[p], p, r.body) = Outcome(s, y)
                    /\ \/ s = cp[p] /\ y = Refused
                       \/ cp[p].st \in {"Absent", "New"} /\ s = New /\ y = Refused
                       \/ /\ cp[p].st \in {"Absent", "New"} /\ r.body.bal[p] = 0
                          /\ s = OtherCreating(r.body) /\ y = Signed
    BY DEF ProposeChannel
  <2>2. /\ Answered(r, s, y) /\ r \in Requests /\ p \in Node /\ cp'[p] = s
        /\ s \in Counterparties /\ r.kind = "propose_channel"
    BY <1>2, <1>5, <2>1 DEF HandleProposeChannel
  <2>3. CASE s = cp[p] /\ y = Refused
    BY <1>4, <2>2, <2>3
  <2>4. CASE cp[p].st \in {"Absent", "New"} /\ s = New /\ y = Refused
    <3>1. KeepsPeer(p)' /\ ~HasChannel(s) /\ ~HasChannel(cp[p]) /\ s.st # "Open"
      BY <2>2, <2>4 DEF KeepsPeer, HasChannel, New
    <3> QED
      BY <1>3, <2>2, <2>4, <3>1, AnsweredCredit
  <2>5. CASE /\ cp[p].st \in {"Absent", "New"} /\ r.body.bal[p] = 0
             /\ s = OtherCreating(r.body) /\ y = Signed
    <3>1. KeepsPeer(p)' /\ ~HasChannel(s) /\ ~HasChannel(cp[p]) /\ s.st # "Open"
      BY <2>2, <2>5 DEF KeepsPeer, HasChannel, OtherCreating
    <3> QED
      BY <1>3, <2>2, <2>5, <3>1, AnsweredCredit
  <2> QED
    BY <2>1, <2>3, <2>4, <2>5
<1>6. ASSUME NEW r \in net, HandleProposeReDraw(r)
      PROVE  CreditInv'
  <2> DEFINE p == Peer(r.from)
  <2>1. PICK s, y : /\ ProposedReDraw(cp[p], p, r.body) = Outcome(s, y)
                    /\ \/ s = cp[p] /\ y = Refused
                       \/ /\ cp[p].st = "Open"
                          /\ s = OtherReDrawing(cp[p].ch, r.body) /\ y = Signed
    BY DEF ProposedReDraw
  <2>2. /\ Answered(r, s, y) /\ r \in Requests /\ p \in Node /\ cp'[p] = s
        /\ s \in Counterparties /\ r.kind = "propose_re_draw"
    BY <1>2, <1>6, <2>1 DEF HandleProposeReDraw
  <2>3. CASE s = cp[p] /\ y = Refused
    BY <1>4, <2>2, <2>3
  <2>4. CASE cp[p].st = "Open" /\ s = OtherReDrawing(cp[p].ch, r.body) /\ y = Signed
    <3>1. KeepsPeer(p)' /\ HasChannel(s) /\ HasChannel(cp[p]) /\ s.ch = cp[p].ch /\ s.st # "Open"
      BY <2>2, <2>4 DEF KeepsPeer, HasChannel, OtherReDrawing
    <3> QED
      BY <1>3, <2>2, <2>4, <3>1, AnsweredCredit
  <2> QED
    BY <2>1, <2>3, <2>4
<1>7. ASSUME NEW r \in net, HandleReceivePayment(r)
      PROVE  CreditInv'
  <2> DEFINE p == Peer(r.from)
             s == cp[p]
  <2>1. /\ r.kind = "receive_payment" /\ Handle(r, ReceivePayment(s, p, r.body))
        /\ p \in Node /\ s \in Counterparties /\ r \in Requests
    BY <1>1, <1>7, TwoNodes, RequestKinds DEF HandleReceivePayment
  <2>2. CASE s.st = "Open" /\ Stale(s.ch, r.body)
    <3>1. Answered(r, s, CurrentSeq(s.ch.seq)) /\ cp'[p] = s
      BY <1>2, <2>1, <2>2 DEF ReceivePayment
    <3>2. s.ch.seq \in Nat
      BY <2>1, <2>2, ChannelTypes DEF HasChannel
    <3>3. KeepsPeer(p)'
      BY <1>1, <2>1, <3>1 DEF KeepsPeer
    <3> QED
      BY <1>3, <2>1, <3>1, <3>2, <3>3, AnsweredCredit
  <2>3. CASE s.st = "Open" /\ ~Stale(s.ch, r.body) /\ Acceptable(s.ch, p, r.body)
    <3>1. Answered(r, Open(Received(s.ch, p, r.body)), Done)
      BY <1>2, <2>1, <2>3 DEF ReceivePayment
    <3> QED
      BY <2>1, <2>3, <3>1, TakenCredit
  <2>4. CASE \/ s.st # "Open"
             \/ s.st = "Open" /\ ~Stale(s.ch, r.body) /\ ~Acceptable(s.ch, p, r.body)
    <3>1. Answered(r, s, Refused)
      BY <1>2, <2>1, <2>4 DEF ReceivePayment
    <3> QED
      BY <1>4, <2>1, <3>1
  <2> QED
    BY <2>2, <2>3, <2>4
<1>8. ASSUME NEW r \in net, HandleNotify(r)
      PROVE  CreditInv'
  <2> DEFINE p == Peer(r.from)
  <2>1. CASE cp[p].st = Notified[r.kind]
    <3>1. UNCHANGED <<cp, call, asked, collected>> /\ net' \subseteq net
      BY <1>8, <2>1 DEF HandleNotify, user
    <3> QED
      BY <1>1, <3>1, QuietCredit
  <2>2. CASE cp[p].st # Notified[r.kind]
    <3>1. cp' = [cp EXCEPT ![p] = cp[p]] /\ r \in Requests
      BY <1>1, <1>8 DEF HandleNotify
    <3>2. Answered(r, cp[p], Refused)
      BY <1>8, <2>2, <3>1 DEF HandleNotify, Answered, Gone
    <3> QED
      BY <1>4, <3>1, <3>2
  <2> QED
    BY <2>1, <2>2
<1>9. CASE NotifyUnconfirmed(m)
  <2>1. PICK r \in Requests : r = srv[m] /\ Peer(r.from) = m
    BY <1>1, <1>9, TwoNodes DEF NotifyUnconfirmed, IInv, HandlersOK
  <2>2. cp' = [cp EXCEPT ![m] = cp[m]]
    BY <1>1, <1>9 DEF NotifyUnconfirmed
  <2>3. Answered(r, cp[m], Refused)
    BY <1>9, <2>1, <2>2 DEF NotifyUnconfirmed, Answered, Gone
  <2> QED
    BY <1>4, <2>1, <2>3
<1> QED
  BY <1>5, <1>6, <1>7, <1>8, <1>9, OpenedCredit, ReDrawnCredit DEF Serve

----------------------------------------------------------------------------
(* The steps of a call that has no payment to settle.                      *)

\* A settlement goes on, or a call ends with an error.
LEMMA GoesOnCredit ==
    ASSUME CreditInv, IInv', NEW n \in Node,
           \/ SendTransaction(n) \/ SendFails(n) \/ EventSeen(n) \/ EventFails(n)
           \/ CallRefused(n)
    PROVE  CreditInv'
<1>1. call \in [Node -> Calls] /\ UNCHANGED <<cp, asked, collected>>
  BY CreditParts DEF SendTransaction, SendFails, EventSeen, EventFails, CallRefused, user
<1>2. PICK c \in Calls : c = call[n]
  BY <1>1
<1>3. CASE SendFails(n) \/ EventFails(n) \/ CallRefused(n)
  <2>1. call' = [call EXCEPT ![n] = Idle] /\ net' = net
    BY <1>3 DEF SendFails, EventFails, CallRefused, Return
  <2> QED
    BY <1>1, <2>1, QuietCredit DEF Idle
<1>4. CASE SendTransaction(n)
  <2>1. PICK d : d = [c EXCEPT !.pc = "event"]
    OBVIOUS
  <2>2. call' = [call EXCEPT ![n] = d] /\ net' = net /\ c.pc = "send"
    BY <1>2, <1>4, <2>1, Zenon DEF SendTransaction
  <2>3. d.pc = "event"
    BY <2>1, <2>2 DEF Calls, Idle
  <2> QED
    BY <1>1, <2>2, <2>3, QuietCredit
<1>5. CASE EventSeen(n)
  <2>1. PICK kind, d : /\ kind \in DOMAIN Notified /\ d = [c EXCEPT !.pc = kind]
                       /\ call' = [call EXCEPT ![n] = d] /\ c.pc = "event"
                       /\ net' = net \cup {Request(n, d.op, d.pc, <<>>, TRUE)}
    BY <1>2, <1>5, NotifiedKinds DEF EventSeen, Await
  <2>2. d.pc = kind
    BY <2>1 DEF Calls, Idle
  <2>3. \A r \in net' : r \in net \/ ~Orphan(r)
    BY <2>1 DEF Orphan, Request
  <2> QED
    BY <1>1, <2>1, <2>2, <2>3, NotifiedKinds, QuietCredit
<1> QED
  BY <1>3, <1>4, <1>5

\* The peer has signed what leaves its own share alone.
LEMMA SignatureCredit ==
    ASSUME CreditInv, IInv', NEW n \in Node, Signature(n)
    PROVE  CreditInv'
<1> DEFINE p == Peer(n)
<1>1. /\ p \in Node /\ p # n /\ Node = {n, p} /\ TypeOK /\ TypeOK' /\ IInv
      /\ cp \in [Node -> Counterparties] /\ call \in [Node -> Calls]
      /\ KeepsPeer(n) /\ KeepsPeer(p)
  BY CreditParts DEF IInv
<1>2. PICK c \in Calls : c = call[n]
  BY <1>1
<1>3. c.pc \in Proposing /\ c.reply = Signed
  BY <1>2 DEF Signature, Proposing
<1>4. PICK d : d = [c EXCEPT !.pc = "send", !.reply = NoReply]
  OBVIOUS
<1>5. PICK s : s = IF c.pc = "propose_channel" THEN Creating(c.tx) ELSE ReDrawing(c.ch, c.tx)
  OBVIOUS
<1>6. cp' = [cp EXCEPT ![n] = s] /\ call' = [call EXCEPT ![n] = d]
      /\ UNCHANGED <<net, asked, collected>>
  BY <1>2, <1>4, <1>5, Zenon DEF Signature, user
<1>7. d.pc # "receive_payment"
  BY <1>3, <1>4, CallKinds DEF Calls, Idle, Proposing
<1>8. cp'[n] = s /\ cp'[p] = cp[p] /\ call'[n] = d /\ call'[p] = call[p]
  BY <1>1, <1>6
<1>9. SameCopy(n) /\ Credit(n)' = Credit(n) /\ KeepsPeer(n)' /\ cp'[n].st # "Open"
  <2>1. CASE c.pc = "propose_channel"
    <3>1. cp[n] = New /\ cp[p] = OtherCreating(c.tx) /\ s = Creating(c.tx)
      BY <1>1, <1>2, <1>3, <1>5, <2>1 DEF IInv, CallMatches, AnswerMeans
    <3>2. c.tx.bal[p] = 0
      BY <1>1, <3>1 DEF KeepsPeer, OtherCreating
    <3> QED
      BY <1>6, <1>8, <3>1, <3>2 DEF SameCopy, Credit, KeepsPeer, HasChannel, New, Creating
  <2>2. CASE c.pc = "propose_re_draw"
    <3>1. /\ cp[n] = Open(c.ch) /\ cp[p].st = "OtherReDrawing" /\ cp[p].tx = c.tx
          /\ s = ReDrawing(c.ch, c.tx)
      BY <1>1, <1>2, <1>3, <1>5, <2>2 DEF IInv, CallMatches, AnswerMeans
    <3>2. c.tx.new[p] = c.tx.old[p]
      BY <1>1, <3>1 DEF IInv, SignedOK
    <3> QED
      BY <1>6, <1>8, <3>1, <3>2 DEF SameCopy, Credit, KeepsPeer, HasChannel, Open, ReDrawing
  <2> QED
    BY <1>3, <2>1, <2>2 DEF Proposing
<1>10. SameCopy(p) /\ Credit(p)' = Credit(p) /\ KeepsPeer(p)'
       /\ (cp'[p].st = "Open" => cp[p].st = "Open")
  BY <1>1, <1>6, <1>8, RecordKept
<1>11. OwesNoMore(n) /\ NoneAccepted(n) /\ OwesNoMore(p) /\ NoneAccepted(p)
  BY <1>1, <1>6, <1>7, <1>8, CallKept
<1> QED
  BY <1>1, <1>6, <1>9, <1>10, <1>11, Kept

----------------------------------------------------------------------------
(* The steps of a payment's call.                                          *)

\* What a payment's sender has, and what its receiver has it down for.
LEMMA PayingCall ==
    ASSUME CreditInv, NEW n \in Node, call[n].pc = "receive_payment"
    PROVE  /\ call[n] \in Calls /\ call[n].amount \in Nat /\ call[n].ch \in Channels
           /\ cp[n].st = "Open" /\ cp[n].ch \in Channels /\ cp[n].ch.bal[n] \in Nat
           /\ call[n].ch = MakePayment(cp[n].ch, n, call[n].amount, cp[n].ch.seq)
           /\ call[n].ch.bal[n] = cp[n].ch.bal[n] - call[n].amount
           /\ call[n].ch.bal[n] \in Nat
           /\ PeersShare(Peer(n)) <= cp[n].ch.bal[n]
<1>1. /\ call[n] \in Calls /\ cp[n] \in Counterparties
      /\ cp[n].st = "Open" /\ call[n].ch = MakePayment(cp[n].ch, n, call[n].amount, cp[n].ch.seq)
  BY DEF CreditInv, IInv, TypeOK, CallMatches
<1>2. call[n].amount \in Nat /\ call[n].ch \in Channels /\ cp[n].ch \in Channels
  BY <1>1, CallKinds, CpKinds
<1>3. call[n].ch.bal[n] = cp[n].ch.bal[n] - call[n].amount
  BY <1>1 DEF MakePayment, Moved
<1>4. cp[n].ch.bal[n] \in Nat /\ call[n].ch.bal[n] \in Nat
  BY <1>2 DEF Channels, Balances
<1>5. Peer(n) \in Node /\ Peer(Peer(n)) = n /\ PeerLeast(Peer(n))
  BY TwoNodes DEF CreditInv
<1>6. PeersShare(Peer(n)) <= cp[n].ch.bal[n]
  BY <1>1, <1>4, <1>5 DEF PeerLeast, PeersShare
<1> QED
  BY <1>1, <1>2, <1>3, <1>4, <1>6

\* A payment whose sender gives up on it, made once or twice, is affordable:
\* it takes from the sender's share at most twice what was asked for.
LEMMA GivenUp ==
    ASSUME CreditInv, IInv', NEW n \in Node, call[n].pc = "receive_payment",
           call[n].reply # Done, call' = [call EXCEPT ![n] = Idle],
           UNCHANGED <<cp, asked, collected>>,
           NEW r \in Requests, r.from = n, r.kind = "receive_payment",
           r.body.bal[n] >= cp[n].ch.bal[n] - 2 * call[n].amount
    PROVE  OrphanOK(r)'
<1> DEFINE p == Peer(n)
           a == call[n].amount
<1>1. /\ n \in Node /\ p \in Node /\ Peer(p) = n /\ p # n /\ TypeOK /\ TypeOK' /\ IInv
      /\ call \in [Node -> Calls] /\ CreditOK(p)
  BY CreditParts DEF IInv
<1>2. a \in Nat /\ cp[n].ch.bal[n] \in Nat /\ PeersShare(p) <= cp[n].ch.bal[n]
  BY PayingCall
<1>3. Unanswered(n) = a /\ Unanswered(n)' = 0
  BY <1>1 DEF Unanswered, Idle
<1>4. Credit(p)' = Credit(p) /\ PeersShare(p)' = PeersShare(p)
  BY DEF Credit, PeersShare
<1>5. /\ Credit(p) \in Nat /\ PeersShare(p) \in Nat /\ asked[n] \in Nat
      /\ Credit(p) + 2 * a <= 2 * asked[n]
  BY <1>1, <1>3, CreditTypes DEF CreditOK
<1>6. r.body.bal[n] \in Nat
  BY <1>1, RequestKinds DEF UpdateTxs, Balances
<1>7. ASSUME NEW share \in Nat, share <= cp[n].ch.bal[n]
      PROVE  Credit(p) + share + 0 <= r.body.bal[n] + 2 * asked[n]
  BY <1>2, <1>5, <1>6, <1>7
<1>8. Affordable(r, PeersShare(p))'
  <2>1. Credit(p) + PeersShare(p) + 0 <= r.body.bal[n] + 2 * asked[n]
    BY <1>2, <1>5, <1>7
  <2> QED
    BY <1>3, <1>4, <1>5, <2>1 DEF Affordable
<1>9. ASSUME Accepted(p)'
      PROVE  Affordable(r, call[p].ch.bal[n])'
  <2>1. call'[p] = call[p] /\ Accepted(p)
    BY <1>1, <1>9 DEF Accepted
  <2>2. call[p].ch.bal = cp[n].ch.bal
    BY <1>1, <2>1 DEF Accepted, IInv, AnswerMeans
  <2>3. Credit(p) + call[p].ch.bal[n] + 0 <= r.body.bal[n] + 2 * asked[n]
    BY <1>2, <1>7, <2>2
  <2> QED
    BY <1>3, <1>4, <1>5, <2>1, <2>3 DEF Affordable
<1> QED
  BY <1>8, <1>9 DEF OrphanOK

\* A call ends without its answer: a payment it was to bring is an orphan now.
LEMMA TimeoutCredit ==
    ASSUME CreditInv, IInv', NEW n \in Node, Timeout(n)
    PROVE  CreditInv'
<1>1. /\ call' = [call EXCEPT ![n] = Idle] /\ UNCHANGED <<cp, asked, collected>>
      /\ call \in [Node -> Calls] /\ net \subseteq Requests
  BY CreditParts DEF Timeout, Return, user
<1>2. \A r \in net' : \/ r \in net
                       \/ \E q \in net : q.from = n /\ q.live /\ r = [q EXCEPT !.live = FALSE]
  BY DEF Timeout
<1>3. ASSUME NEW r \in net', r \notin net, Orphan(r)
      PROVE  OrphanOK(r)'
  <2>1. PICK q \in net : q.from = n /\ q.live /\ r = [q EXCEPT !.live = FALSE]
    BY <1>2, <1>3
  <2>2. q \in Requests /\ OfCall(q)
    BY <1>1, Sender DEF CreditInv, InFlight
  <2>3. /\ r \in Requests /\ r.from = n /\ r.kind = "receive_payment"
        /\ r.kind = q.kind /\ r.body = q.body
    BY <1>3, <2>1, <2>2 DEF Requests, Orphan
  <2>4. /\ call[n].pc = "receive_payment" /\ call[n].reply = NoReply
        /\ r.body = UpdateOf(call[n].ch)
    BY <2>1, <2>2, <2>3 DEF OfCall
  <2>5. r.body.bal[n] >= cp[n].ch.bal[n] - 2 * call[n].amount
    <3>1. r.body.bal[n] = cp[n].ch.bal[n] - call[n].amount
      BY <2>4, PayingCall DEF UpdateOf
    <3> QED
      BY <2>4, <3>1, PayingCall
  <2>6. call[n].reply # Done
    BY <2>4 DEF NoReply, Done
  <2> QED
    BY <1>1, <2>3, <2>4, <2>5, <2>6, GivenUp
<1> QED
  BY <1>1, <1>3, QuietCredit DEF Idle

\* A stale payment is made once more, and its sender gives up on it.
LEMMA StaleCredit ==
    ASSUME CreditInv, IInv', NEW n \in Node, PaymentStale(n)
    PROVE  CreditInv'
<1> DEFINE c == call[n]
           again == MakePayment(c.ch, n, c.amount, c.reply.seq)
           w == Request(n, c.op, c.pc, UpdateOf(again), FALSE)
<1>1. /\ call' = [call EXCEPT ![n] = Idle] /\ UNCHANGED <<cp, asked, collected>>
      /\ call \in [Node -> Calls] /\ c.pc = "receive_payment" /\ c.reply # Done
  BY CreditParts DEF PaymentStale, Return, user, Done
<1>2. ASSUME NEW r \in net', r \notin net
      PROVE  OrphanOK(r)'
  <2>1. ~NotEnough(c.ch, n, c.amount) /\ r = w /\ r \in Requests
    BY <1>2 DEF PaymentStale, IInv, TypeOK
  <2>2. r.from = n /\ r.kind = "receive_payment" /\ r.body.bal[n] = c.ch.bal[n] - c.amount
    BY <1>1, <2>1 DEF Request, UpdateOf, MakePayment, Moved
  <2>3. r.body.bal[n] >= cp[n].ch.bal[n] - 2 * c.amount
    BY <1>1, <2>2, PayingCall
  <2> QED
    BY <1>1, <2>1, <2>2, <2>3, GivenUp
<1> QED
  BY <1>1, <1>2, QuietCredit DEF Idle

\* An accepted payment is stored: the two copies are equal, and what could be
\* taken from the clone can be taken from the copy.
LEMMA StoredCredit ==
    ASSUME CreditInv, IInv', NEW n \in Node, PaymentAccepted(n)
    PROVE  CreditInv'
<1> DEFINE p == Peer(n)
           c == call[n]
<1>1. /\ p \in Node /\ p # n /\ Peer(p) = n /\ Node = {n, p} /\ TypeOK /\ TypeOK' /\ IInv
      /\ cp \in [Node -> Counterparties] /\ call \in [Node -> Calls] /\ net \subseteq Requests
  BY CreditParts DEF IInv
<1>2. /\ Accepted(n) /\ cp' = [cp EXCEPT ![n] = Open(c.ch)]
      /\ call' = [call EXCEPT ![n] = Idle] /\ UNCHANGED <<net, asked, collected>>
  BY DEF PaymentAccepted, Accepted, Return, user
<1>3. /\ cp'[n] = Open(c.ch) /\ cp'[p] = cp[p] /\ call'[n] = Idle /\ call'[p] = call[p]
      /\ cp'[n].st = "Open" /\ cp'[n].ch = c.ch
  BY <1>1, <1>2 DEF Open
<1>4. /\ cp[n].st = "Open" /\ c.ch.accrual = cp[n].ch.accrual
  <2>1. c.pc = "receive_payment"
    BY <1>2 DEF Accepted
  <2>2. cp[n].st = "Open" /\ c.ch = MakePayment(cp[n].ch, n, c.amount, cp[n].ch.seq)
    BY <2>1, PayingCall
  <2> QED
    BY <2>2 DEF MakePayment
<1>5. cp[p].st = "Open" /\ cp[p].ch.bal = c.ch.bal
  BY <1>1, <1>2 DEF Accepted, IInv, AnswerMeans
<1>6. Credit(n)' = Credit(n) /\ Credit(p)' = Credit(p)
  BY <1>2, <1>3, <1>4 DEF Credit, HasChannel
<1>7. OwesNoMore(n) /\ NoneAccepted(n) /\ OwesNoMore(p) /\ NoneAccepted(p) /\ ~Accepted(n)'
  BY <1>1, <1>2, <1>3, CallKept DEF Idle, Accepted
<1>8. CreditOK(n)' /\ CreditOK(p)'
  BY <1>1, <1>6, <1>7, CreditStays
<1>9. PeerLeast(n)' /\ PeerLeast(p)'
  <2>1. c.ch.bal[n] \in Nat /\ c.ch.bal[p] \in Nat
    BY <1>1, <1>2, PayingCall DEF Accepted, Channels, Balances
  <2> QED
    BY <1>1, <1>3, <1>5, <2>1 DEF PeerLeast
<1>10. KeepsPeer(n)' /\ KeepsPeer(p)'
  BY <1>1, <1>3, CreditParts DEF KeepsPeer
<1>11. ASSUME NEW q \in net', q.from = n
       PROVE  OrphanOK(q)'
  <2>1. q \in Requests /\ OrphanOK(q)
    BY <1>1, <1>2, <1>11, CreditParts
  <2>2. (Outdated(q) => Outdated(q)') /\ PeersShare(p)' = PeersShare(p)
    BY <1>1, <1>3, <1>11 DEF Outdated, PeersShare
  <2> QED
    BY <1>1, <1>6, <1>7, <1>11, <2>1, <2>2, OrphanKept
<1>12. ASSUME NEW q \in net', q.from = p
       PROVE  OrphanOK(q)'
  <2>1. OrphanOK(q)
    BY <1>1, <1>2, <1>12, CreditParts
  <2>2. q.body.seq <= c.ch.seq => Outdated(q)'
    BY <1>1, <1>3, <1>12 DEF Outdated, HasChannel
  <2>3. Affordable(q, c.ch.bal[p]) => Affordable(q, PeersShare(n))'
    <3>1. Unanswered(p)' = Unanswered(p)
      BY <1>3 DEF Unanswered
    <3>2. PeersShare(n)' = c.ch.bal[p]
      BY <1>3 DEF PeersShare, HasChannel
    <3> QED
      BY <1>1, <1>2, <1>6, <1>12, <3>1, <3>2 DEF Affordable
  <2> QED
    BY <1>1, <1>2, <1>7, <1>12, <2>1, <2>2, <2>3 DEF OrphanOK, Orphan
<1>13. \A q \in net' : q.from \in {n, p}
  BY <1>1, <1>2, RequestKinds
<1> QED
  BY <1>1, <1>8, <1>9, <1>10, <1>11, <1>12, <1>13 DEF CreditInv

\* The peer has confirmed a settlement: the two copies are equal, and the peer's
\* share is what it was.
LEMMA ConfirmedCredit ==
    ASSUME CreditInv, IInv', NEW n \in Node, Confirmed(n)
    PROVE  CreditInv'
<1> DEFINE p == Peer(n)
           c == call[n]
<1>1. /\ p \in Node /\ p # n /\ Peer(p) = n /\ Node = {n, p} /\ TypeOK /\ TypeOK' /\ IInv
      /\ cp \in [Node -> Counterparties] /\ call \in [Node -> Calls] /\ net \subseteq Requests
      /\ CallMatches(n) /\ AnswerMeans(n) /\ CreatingOK(n) /\ ReDrawingOK(n) /\ KeepsPeer(n)
  BY CreditParts DEF IInv
<1>2. /\ c.pc \in DOMAIN Notified /\ c.reply = Done /\ call' = [call EXCEPT ![n] = Idle]
      /\ UNCHANGED <<net, asked, collected>>
  BY DEF Confirmed, Return, user
<1>3. PICK s : s = IF c.pc = "notify_channel_opened"
                   THEN Open(NewChannel(c.tx.bal))
                   ELSE Open([c.ch EXCEPT !.bal = c.tx.new])
  OBVIOUS
<1>4. cp' = [cp EXCEPT ![n] = s]
  BY <1>3, Zenon DEF Confirmed
<1>5. /\ cp'[n] = s /\ cp'[p] = cp[p] /\ call'[n] = Idle /\ call'[p] = call[p]
      /\ s.st = "Open" /\ cp[p].st = "Open"
  BY <1>1, <1>2, <1>3, <1>4 DEF Open, AnswerMeans
<1>6. /\ Credit(n)' = Credit(n) /\ PeersShare(n)' = PeersShare(n) /\ cp[p].ch.bal = s.ch.bal
      /\ HasChannel(cp[n]) => s.ch.seq = cp[n].ch.seq
  <2>1. CASE c.pc = "notify_channel_opened"
    <3>1. cp[n] = Creating(c.tx) /\ cp[p] = Open(NewChannel(c.tx.bal)) /\ c.tx.bal[p] = 0
      BY <1>1, <1>2, <1>5, <2>1 DEF CallMatches, CreatingOK, KeepsPeer, Creating, ReDrawing, OtherCreating
    <3>2. s = Open(NewChannel(c.tx.bal))
      BY <1>3, <2>1
    <3>3. ~HasChannel(cp[n]) /\ HasChannel(s) /\ s.ch = NewChannel(c.tx.bal)
          /\ s.ch.accrual = 0 /\ s.ch.bal = c.tx.bal /\ cp[p].ch.bal = c.tx.bal
      BY <3>1, <3>2 DEF HasChannel, Creating, Open, NewChannel
    <3>4. collected[n] \in Nat
      BY <1>1, CreditTypes
    <3>5. Credit(n)' = Credit(n)
      BY <1>2, <1>5, <3>3, <3>4 DEF Credit
    <3>6. PeersShare(n)' = PeersShare(n)
      BY <1>5, <3>1, <3>3 DEF PeersShare
    <3> QED
      BY <3>3, <3>5, <3>6
  <2>2. CASE c.pc = "notify_re_draw"
    <3>1. cp[n] = ReDrawing(c.ch, c.tx) /\ c.ch \in Channels
      BY <1>1, <1>2, <2>2, CpKinds DEF CallMatches, Creating, ReDrawing
    <3>2. /\ cp[p].ch.bal = c.tx.new /\ c.tx.old = c.ch.bal /\ c.tx.new[p] = c.tx.old[p]
      BY <1>1, <1>5, <3>1 DEF ReDrawingOK, KeepsPeer, ReDrawing
    <3>3. s = Open([c.ch EXCEPT !.bal = c.tx.new])
      BY <1>3, <2>2
    <3>4. /\ HasChannel(s) /\ s.ch.bal = c.tx.new /\ s.ch.seq = c.ch.seq
          /\ s.ch.accrual = c.ch.accrual
      BY <3>1, <3>3 DEF HasChannel, Open, Channels
    <3>5. HasChannel(cp[n]) /\ cp[n].ch = c.ch
      BY <3>1 DEF HasChannel, ReDrawing
    <3>6. Credit(n)' = Credit(n)
      BY <1>2, <1>5, <3>4, <3>5 DEF Credit
    <3>7. PeersShare(n)' = PeersShare(n)
      BY <1>5, <3>2, <3>4, <3>5 DEF PeersShare
    <3> QED
      BY <3>2, <3>4, <3>5, <3>6, <3>7
  <2> QED
    BY <1>2, <2>1, <2>2, NotifiedKinds
<1>7. Credit(p)' = Credit(p) /\ PeersShare(p)' = PeersShare(p)
  BY <1>2, <1>5 DEF Credit, PeersShare
<1>8. OwesNoMore(n) /\ NoneAccepted(n) /\ OwesNoMore(p) /\ NoneAccepted(p)
  BY <1>1, <1>2, <1>5, CallKept DEF Idle
<1>9. CreditOK(n)' /\ CreditOK(p)'
  BY <1>1, <1>6, <1>7, <1>8, CreditStays
<1>10. PeerLeast(n)' /\ PeerLeast(p)'
  <2>1. cp[p].ch.bal[n] \in Nat /\ cp[p].ch.bal[p] \in Nat
    BY <1>1, <1>5, ChannelTypes DEF HasChannel
  <2> QED
    BY <1>1, <1>5, <1>6, <2>1 DEF PeerLeast
<1>11. KeepsPeer(n)' /\ KeepsPeer(p)'
  BY <1>1, <1>5, CreditParts DEF KeepsPeer
<1>12. ASSUME NEW q \in net'
       PROVE  OrphanOK(q)'
  <2>1. q \in Requests /\ OrphanOK(q) /\ q.from \in {n, p}
    BY <1>1, <1>2, <1>12, CreditParts, RequestKinds
  <2>2. Outdated(q) => Outdated(q)'
    BY <1>1, <1>5, <1>6, <2>1 DEF Outdated, HasChannel
  <2> QED
    BY <1>1, <1>6, <1>7, <1>8, <2>1, <2>2, OrphanKept
<1> QED
  BY <1>1, <1>9, <1>10, <1>11, <1>12 DEF CreditInv

----------------------------------------------------------------------------
(* The bound.                                                              *)

\* Nobody has been credited, or has asked, yet.
LEMMA CreditInit ==
    ASSUME Init \/ InitFilled
    PROVE  CreditInv
<1>1. IInv /\ net = {}
  BY InitOK DEF Init, InitFilled, InitWith
<1>2. \A n \in Node : /\ asked[n] = 0 /\ collected[n] = 0 /\ call[n] = Idle
                      /\ \/ cp[n] = Absent
                         \/ /\ cp[n].st = "Open" /\ cp[n].ch.accrual = 0
                            /\ cp[n].ch.bal = FilledBal
  <2>1. CASE Init
    BY <2>1 DEF Init, InitWith
  <2>2. CASE InitFilled
    <3>1. cp = [n \in Node |-> Open([seq |-> IF n = 0 THEN 1 ELSE 0,
                                     bal |-> FilledBal, accrual |-> 0])]
          /\ asked = [n \in Node |-> 0] /\ collected = [n \in Node |-> 0]
          /\ call = [n \in Node |-> Idle]
      BY <2>2 DEF InitFilled, InitWith
    <3> QED
      BY <3>1 DEF Open
  <2> QED
    BY <2>1, <2>2
<1>3. ASSUME NEW n \in Node
      PROVE  CreditOK(n) /\ PeerLeast(n) /\ KeepsPeer(n)
  <2>1. Peer(n) \in Node /\ FilledBal[Peer(n)] \in Nat
    BY TwoNodes, FilledBalAssumption DEF Balances
  <2>2. Credit(n) = 0 /\ Unanswered(Peer(n)) = 0 /\ asked[Peer(n)] = 0
    BY <1>2, <2>1 DEF Credit, Unanswered, HasChannel, Absent, Idle
  <2>3. CreditOK(n)
    BY <2>2 DEF CreditOK
  <2>4. PeerLeast(n) /\ KeepsPeer(n)
    BY <1>2, <2>1 DEF PeerLeast, KeepsPeer, HasChannel, Absent
  <2> QED
    BY <2>3, <2>4
<1> QED
  BY <1>1, <1>3 DEF CreditInv

\* Every step keeps the bound.
LEMMA CreditNext ==
    ASSUME CreditInv, [Next]_vars
    PROVE  CreditInv'
<1>1. IInv'
  BY NextOK DEF CreditInv
<1>2. CASE UNCHANGED vars
  BY <1>1, <1>2, QuietCredit DEF vars, nodes, user
<1>3. ASSUME NEW n \in Node, UserCall(n)
      PROVE  CreditInv'
  BY <1>1, <1>3, ProposeCredit, PayCredit, ReadCredit DEF UserCall
<1>4. ASSUME NEW n \in Node, Serve(n) \/ Fail(n)
      PROVE  CreditInv'
  BY <1>1, <1>4, ServeCredit, GoesOnCredit DEF Fail
<1>5. ASSUME NEW n \in Node, Continue(n)
      PROVE  CreditInv'
  BY <1>1, <1>5, SignatureCredit, GoesOnCredit, ConfirmedCredit, StoredCredit, StaleCredit
     DEF Continue
<1>6. ASSUME NEW t \in pool, Mine(t)
      PROVE  CreditInv'
  BY <1>1, <1>6, QuietCredit DEF Mine, nodes, user
<1> QED
  BY <1>1, <1>2, <1>3, <1>4, <1>5, <1>6, TimeoutCredit DEF Next

(* Whatever is lost, late, refused or made again, what an orphaned payment *)
(* (channel_manager.rs:600-645) may still bring its receiver is in bounds. *)
THEOREM CreditInvCorrect == SpecEither => []CreditInv
<1>1. Init \/ InitFilled => CreditInv
  BY CreditInit
<1>2. CreditInv /\ [Next]_vars => CreditInv'
  BY CreditNext
<1> QED
  BY <1>1, <1>2, PTL DEF SpecEither

(* readme.md, Check Accrual: a user is credited at most twice with what    *)
(* its peer's user has asked to pay, for any amounts, however often a      *)
(* payment is lost, late, made again or crossed by another.                *)
THEOREM CreditBoundedHolds == SpecEither => []CreditBounded
<1>1. CreditInv => CreditBounded
  <2> SUFFICES ASSUME CreditInv, NEW n \in Node
               PROVE  Credit(n) <= 2 * asked[Peer(n)]
    BY DEF CreditBounded
  <2>1. /\ Credit(n) \in Nat /\ Unanswered(Peer(n)) \in Nat /\ asked[Peer(n)] \in Nat
        /\ CreditOK(n)
    BY CreditParts, CreditNow
  <2> QED
    BY <2>1 DEF CreditOK
<1> QED
  BY <1>1, CreditInvCorrect, PTL
=============================================================================
