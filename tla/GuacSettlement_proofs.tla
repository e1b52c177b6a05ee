----------------------- MODULE GuacSettlement_proofs -----------------------
(***************************************************************************)
(* Guac implements Settlement, for all amounts and numbers of calls and    *)
(* whatever fails.  Each of its steps changes one node's record, or mines  *)
(* a transaction, or is invisible.                                         *)
(***************************************************************************)
EXTENDS GuacSettlement, Guac_proofs

----------------------------------------------------------------------------
(* The mapping.                                                            *)

\* What each kind of record stands for.
LEMMA Stages ==
    /\ StageOf["Absent"] = "closed" /\ StageOf["New"] = "closed" /\ StageOf["Open"] = "open"
    /\ StageOf["OtherCreating"] = "agreed" /\ StageOf["OtherReDrawing"] = "agreed"
    /\ StageOf["Creating"] = "waiting" /\ StageOf["ReDrawing"] = "waiting"
BY DEF StageOf

\* What each transaction is as a deal.
LEMMA DealsOf ==
    /\ \A tx \in NewChannelTxs : DealOf(tx) = [seq |-> 0, old |-> Nothing, new |-> tx.bal]
    /\ \A tx \in ReDrawTxs : DealOf(tx) = tx
    /\ \A tx \in NewChannelTxs \cup ReDrawTxs : DealOf(tx) \in Deals!Deals
<1>1. ASSUME NEW tx \in NewChannelTxs
      PROVE  DealOf(tx) = [seq |-> 0, old |-> Nothing, new |-> tx.bal] /\ tx.bal \in Balances
  BY DEF DealOf, NewChannelTxs
<1>2. ASSUME NEW tx \in ReDrawTxs
      PROVE  DealOf(tx) = tx
  BY DEF DealOf, ReDrawTxs
<1>3. Nothing \in Balances
  BY DEF Nothing, Balances
<1>4. ReDrawTxs = Deals!Deals
  BY DEF ReDrawTxs, Balances, Node, Deals!Deals, Deals!Balances, Deals!Node
<1>5. ASSUME NEW tx \in NewChannelTxs
      PROVE  DealOf(tx) \in ReDrawTxs
  BY <1>1, <1>3 DEF ReDrawTxs
<1> QED
  BY <1>1, <1>2, <1>4, <1>5

\* What each kind of record has as its deal and its balances.
LEMMA Kinds ==
    /\ DealIn(Absent) = NoDeal /\ DealIn(New) = NoDeal
    /\ \A ch : DealIn(Open(ch)) = NoDeal /\ Divided(Open(ch)) = ch.bal
    /\ \A tx : /\ DealIn(Creating(tx)) = DealOf(tx) /\ Divided(Creating(tx)) = Nothing
               /\ DealIn(OtherCreating(tx)) = DealOf(tx) /\ Divided(OtherCreating(tx)) = Nothing
    /\ \A ch, tx : /\ DealIn(ReDrawing(ch, tx)) = DealOf(tx)
                   /\ Divided(ReDrawing(ch, tx)) = ch.bal
                   /\ DealIn(OtherReDrawing(ch, tx)) = DealOf(tx)
                   /\ Divided(OtherReDrawing(ch, tx)) = ch.bal
    /\ Divided(Absent) = Nothing /\ Divided(New) = Nothing
BY DEF DealIn, Divided, HasChannel, Absent, New, Creating, OtherCreating, ReDrawing, OtherReDrawing, Open

\* A step that replaces one record.
LEMMA OneRecord ==
    ASSUME cp \in [Node -> Counterparties], NEW n \in Node, NEW s,
           cp' = [cp EXCEPT ![n] = s]
    PROVE  /\ [m \in Node |-> StageOf[cp[m].st]]'
                  = [[m \in Node |-> StageOf[cp[m].st]] EXCEPT ![n] = StageOf[s.st]]
           /\ [m \in Node |-> DealIn(cp[m])]'
                  = [[m \in Node |-> DealIn(cp[m])] EXCEPT ![n] = DealIn(s)]
           /\ [m \in Node |-> Divided(cp[m])]'
                  = [[m \in Node |-> Divided(cp[m])] EXCEPT ![n] = Divided(s)]
BY DEF DealIn, Divided

\* A step that only changes what Settlement does not see.
LEMMA Unseen ==
    ASSUME cp \in [Node -> Counterparties], UNCHANGED chain,
           \/ UNCHANGED cp
           \/ \E n \in Node : \E s :
                  /\ cp' = [cp EXCEPT ![n] = s]
                  /\ StageOf[s.st] = StageOf[cp[n].st]
                  /\ DealIn(s) = DealIn(cp[n])
                  /\ Divided(s) = Divided(cp[n])
    PROVE  UNCHANGED Deals!vars
<1>1. CASE UNCHANGED cp
  BY <1>1 DEF Deals!vars
<1>2. ASSUME NEW n \in Node, NEW s, cp' = [cp EXCEPT ![n] = s],
             StageOf[s.st] = StageOf[cp[n].st],
             DealIn(s) = DealIn(cp[n]), Divided(s) = Divided(cp[n])
      PROVE  UNCHANGED Deals!vars
  BY <1>2, OneRecord DEF Deals!vars
<1> QED
  BY <1>1, <1>2

\* Settlement's own copies of the operators of Channel.
LEMMA SameChannel ==
    /\ Deals!Node = Node /\ Deals!Balances = Balances
    /\ Deals!Nothing = Nothing /\ Deals!NoDeal = NoDeal
    /\ \A n : Deals!Peer(n) = Peer(n)
    /\ \A b : Deals!Total(b) = Total(b)
BY DEF Node, Balances, Nothing, NoDeal, Peer, Total, Deals!Node, Deals!Balances, Deals!Nothing,
       Deals!NoDeal, Deals!Peer, Deals!Total

----------------------------------------------------------------------------
(* No deal is agreed to again once it was taken.                           *)

\* Both nodes' part of the invariant.
LEMMA TakenParts ==
    ASSUME TakenInv, NEW n \in Node
    PROVE  /\ IInv /\ TypeOK /\ Peer(n) \in Node /\ Peer(n) # n /\ Peer(Peer(n)) = n
           /\ Node = {n, Peer(n)}
           /\ cp \in [Node -> Counterparties] /\ cp[n] \in Counterparties
           /\ cp[Peer(n)] \in Counterparties
           /\ chain.mined \subseteq Transactions
           /\ PeerKnows(n) /\ PeerKnows(Peer(n))
           /\ \A t \in chain.mined : TakenOK(t)
BY TwoNodes DEF TakenInv, IInv, TypeOK

\* A record is replaced by one as new, that forgets no channel and no
\* redraw the peer has not finished.
LEMMA RecordKept ==
    ASSUME TakenInv, IInv', NEW n \in Node, NEW s,
           cp' = [cp EXCEPT ![n] = s], UNCHANGED chain,
           HasChannel(cp[n]) => HasChannel(s) /\ cp[n].ch.seq <= s.ch.seq,
           cp[n].st = "Creating" => s.st = "Creating" \/ HasChannel(s),
           HasChannel(s) => \/ HasChannel(cp[n])
                            \/ HasChannel(cp[Peer(n)]) \/ cp[Peer(n)].st = "Creating",
           cp[n].st = "ReDrawing" =>
               \/ s.st = "ReDrawing" /\ s.tx = cp[n].tx
               \/ cp[n].tx.seq <= cp[Peer(n)].ch.seq
    PROVE  TakenInv'
<1> DEFINE p == Peer(n)
<1>1. cp'[n] = s /\ cp'[p] = cp[p] /\ s \in Counterparties
  BY TakenParts DEF IInv, TypeOK
<1>2. PeerKnows(n)' /\ PeerKnows(p)'
  BY <1>1, TakenParts DEF PeerKnows
<1>3. ASSUME NEW t \in chain.mined, IsReDraw(t)
      PROVE  TakenOK(t)'
  <2>1. t.by \in {n, p} /\ TakenOK(t) /\ t.tx.seq \in Nat
    <3>1. t.by \in Node /\ t.tx \in NewChannelTxs \cup ReDrawTxs
      BY TakenParts DEF Transactions
    <3> QED
      BY <1>3, <3>1, TakenParts DEF IsReDraw, NewChannelTxs, ReDrawTxs
  <2>2. CASE t.by = p
    <3>1. HasChannel(cp[n]) /\ cp[n].ch.seq \in Nat /\ s.ch.seq \in Nat
      BY <1>1, <1>3, <2>1, <2>2, TakenParts, CpKinds DEF TakenOK, HasChannel, Channels
    <3> QED
      BY <1>1, <1>3, <2>1, <2>2, <3>1, TakenParts DEF TakenOK, IsReDraw
  <2>3. CASE t.by = n
    BY <1>1, <1>3, <2>1, <2>3, TakenParts DEF TakenOK, IsReDraw
  <2> QED
    BY <2>1, <2>2, <2>3
<1> QED
  BY <1>2, <1>3, TakenParts DEF TakenInv, TakenOK, IsReDraw

\* A step that replaces no record and mines nothing.
LEMMA NoRecord ==
    ASSUME TakenInv, IInv', UNCHANGED <<cp, chain>>
    PROVE  TakenInv'
BY DEF TakenInv, PeerKnows, TakenOK, IsReDraw

\* A user's call.
LEMMA UserTaken ==
    ASSUME TakenInv, IInv', NEW n \in Node, UserCall(n)
    PROVE  TakenInv'
<1>1. CASE \E amount \in Fills : FillNew(n, amount)
  <2>1. cp' = [cp EXCEPT ![n] = New] /\ cp[n].st \in {"Absent", "New"} /\ UNCHANGED chain
    BY <1>1 DEF FillNew, blockchain
  <2>2. ~HasChannel(cp[n]) /\ ~HasChannel(New)
    BY <2>1 DEF HasChannel, New
  <2> QED
    BY <2>1, <2>2, RecordKept
<1>2. CASE CheckAccrual(n)
  <2>1. PICK s : s = [cp[n] EXCEPT !.ch = AccrualTaken(cp[n].ch)]
    OBVIOUS
  <2>2. cp' = [cp EXCEPT ![n] = s] /\ HasChannel(cp[n]) /\ UNCHANGED chain
    BY <1>2, <2>1, Zenon DEF CheckAccrual, blockchain
  <2>3. /\ s.st = cp[n].st /\ s.ch.seq = cp[n].ch.seq /\ cp[n].ch.seq \in Nat
        /\ s.st = "ReDrawing" => s.tx = cp[n].tx
    BY <2>1, <2>2, TakenParts, CpKinds
       DEF HasChannel, AccrualTaken, Open, ReDrawing, OtherReDrawing, Channels
  <2>4. /\ HasChannel(s) /\ cp[n].st # "Creating" /\ cp[n].ch.seq <= s.ch.seq
        /\ cp[n].st = "ReDrawing" => s.st = "ReDrawing" /\ s.tx = cp[n].tx
    BY <2>2, <2>3 DEF HasChannel
  <2> QED
    BY <2>2, <2>4, RecordKept
<1>3. CASE UNCHANGED <<cp, chain>>
  BY <1>3, NoRecord
<1> QED
  BY <1>1, <1>2, <1>3 DEF UserCall, FillOpen, Withdraw, ProposeReDraw, Pay, blockchain

\* A proposal, or a payment, is handled.
LEMMA HandlerTaken ==
    ASSUME TakenInv, IInv', NEW r \in net,
           HandleProposeChannel(r) \/ HandleProposeReDraw(r) \/ HandleReceivePayment(r)
    PROVE  TakenInv'
<1> DEFINE p == Peer(r.from)
<1>1. p \in Node /\ r \in Requests
  BY TwoNodes, RequestKinds DEF TakenInv, IInv, TypeOK
<1>2. ASSUME NEW s, NEW y, Handle(r, Outcome(s, y))
      PROVE  cp' = [cp EXCEPT ![p] = s] /\ UNCHANGED chain
  BY <1>2 DEF Handle, Outcome, blockchain
<1>3. ASSUME cp' = [cp EXCEPT ![p] = cp[p]], UNCHANGED chain
      PROVE  TakenInv'
  BY <1>1, <1>3, TakenParts, NoRecord
<1>4. CASE HandleProposeChannel(r)
  <2>1. PICK s, y : /\ ProposeChannel(cp[p], p, r.body) = Outcome(s, y)
                    /\ \/ s = cp[p]
                       \/ cp[p].st \in {"Absent", "New"} /\ s \in {New, OtherCreating(r.body)}
    BY DEF ProposeChannel
  <2>2. cp' = [cp EXCEPT ![p] = s] /\ UNCHANGED chain
    BY <1>2, <1>4, <2>1 DEF HandleProposeChannel
  <2>3. CASE cp[p].st \in {"Absent", "New"} /\ s \in {New, OtherCreating(r.body)}
    <3>1. ~HasChannel(cp[p]) /\ ~HasChannel(s)
      BY <2>3 DEF HasChannel, New, OtherCreating
    <3> QED
      BY <1>1, <2>2, <2>3, <3>1, RecordKept
  <2> QED
    BY <1>3, <2>1, <2>2, <2>3
<1>5. CASE HandleProposeReDraw(r)
  <2>1. PICK s, y : /\ ProposedReDraw(cp[p], p, r.body) = Outcome(s, y)
                    /\ \/ s = cp[p]
                       \/ cp[p].st = "Open" /\ s = OtherReDrawing(cp[p].ch, r.body)
    BY DEF ProposedReDraw
  <2>2. cp' = [cp EXCEPT ![p] = s] /\ UNCHANGED chain
    BY <1>2, <1>5, <2>1 DEF HandleProposeReDraw
  <2>3. CASE cp[p].st = "Open" /\ s = OtherReDrawing(cp[p].ch, r.body)
    <3>1. HasChannel(cp[p]) /\ HasChannel(s) /\ s.ch = cp[p].ch
      BY <2>3 DEF HasChannel, OtherReDrawing
    <3>2. cp[p].ch.seq <= s.ch.seq
      BY <1>1, <2>3, <3>1, TakenParts, CpKinds DEF Channels
    <3> QED
      BY <1>1, <2>2, <2>3, <3>1, <3>2, RecordKept
  <2> QED
    BY <1>3, <2>1, <2>2, <2>3
<1>6. CASE HandleReceivePayment(r)
  <2>1. PICK s, y : /\ ReceivePayment(cp[p], p, r.body) = Outcome(s, y)
                    /\ \/ s = cp[p]
                       \/ /\ cp[p].st = "Open" /\ ~Stale(cp[p].ch, r.body)
                          /\ s = Open(Received(cp[p].ch, p, r.body))
    BY DEF ReceivePayment
  <2>2. cp' = [cp EXCEPT ![p] = s] /\ UNCHANGED chain
    BY <1>2, <1>6, <2>1 DEF HandleReceivePayment
  <2>3. CASE /\ cp[p].st = "Open" /\ ~Stale(cp[p].ch, r.body)
             /\ s = Open(Received(cp[p].ch, p, r.body))
    <3>1. HasChannel(cp[p]) /\ HasChannel(s) /\ s.ch.seq = r.body.seq
      BY <2>3 DEF HasChannel, Open, Received
    <3>2. cp[p].ch.seq \in Nat /\ r.body.seq \in Nat
      BY <1>1, <1>6, <2>3, TakenParts, CpKinds, RequestKinds
         DEF HandleReceivePayment, Channels, UpdateTxs
    <3>3. cp[p].ch.seq <= s.ch.seq
      BY <2>3, <3>1, <3>2 DEF Stale
    <3> QED
      BY <1>1, <2>2, <2>3, <3>1, <3>3, RecordKept
  <2> QED
    BY <1>3, <2>1, <2>2, <2>3
<1> QED
  BY <1>4, <1>5, <1>6

\* A notification is confirmed: who sent it is in Creating or ReDrawing.
LEMMA NotifiedTaken ==
    ASSUME TakenInv, IInv', NEW p \in Node, OpenedFound(p) \/ ReDrawnChecked(p)
    PROVE  TakenInv'
<1> DEFINE n == Peer(p)
<1>1. /\ srv[p] # NotServing /\ cp[p].st = Notified[srv[p].kind] /\ srv[p].from = n
  BY NotifiedKinds DEF TakenInv, IInv, TypeOK, HandlersOK, OpenedFound, ReDrawnChecked, NotServing
<1>2. srv[p] \in InFlight
  BY <1>1 DEF InFlight, Handled
<1>3. UNCHANGED chain
  BY DEF OpenedFound, ReDrawnChecked, blockchain
<1>4. CASE OpenedFound(p)
  <2>1. cp[p].st = "OtherCreating" /\ cp' = [cp EXCEPT ![p] = Open(NewChannel(cp[p].tx.bal))]
    BY <1>1, <1>4, NotifiedKinds DEF OpenedFound
  <2>2. cp[n].st = "Creating"
    BY <1>1, <1>2, <1>4, NotifiedKinds DEF TakenInv, IInv, RequestsOK, Announced, OpenedFound
  <2>3. ~HasChannel(cp[p])
    BY <2>1 DEF HasChannel
  <2> QED
    BY <1>3, <2>1, <2>2, <2>3, RecordKept
<1>5. CASE ReDrawnChecked(p)
  <2>1. PICK s : s = Open([seq |-> cp[p].tx.seq, bal |-> cp[p].tx.new,
                           accrual |-> cp[p].ch.accrual])
    OBVIOUS
  <2>2. cp[p].st = "OtherReDrawing" /\ cp' = [cp EXCEPT ![p] = s]
    BY <1>1, <1>5, <2>1, NotifiedKinds DEF ReDrawnChecked
  <2>3. HasChannel(cp[p]) /\ HasChannel(s) /\ s.ch.seq = cp[p].tx.seq
    BY <2>1, <2>2 DEF HasChannel, Open
  <2>4. cp[p].ch.seq \in Nat /\ cp[p].tx.seq \in Nat /\ cp[p].tx.seq > cp[p].ch.seq
    BY <2>2, TakenParts, CpKinds DEF IInv, SignedOK, Channels, ReDrawTxs
  <2>5. cp[p].ch.seq <= s.ch.seq
    BY <2>3, <2>4
  <2> QED
    BY <1>3, <2>2, <2>3, <2>5, RecordKept
<1> QED
  BY <1>4, <1>5

\* The peer's signature is in.
LEMMA SignatureTaken ==
    ASSUME TakenInv, IInv', NEW n \in Node, Signature(n)
    PROVE  TakenInv'
<1> DEFINE c == call[n]
<1>1. CallMatches(n) /\ UNCHANGED chain
  BY DEF TakenInv, IInv, Signature, blockchain
<1>2. CASE c.pc = "propose_channel"
  <2>1. cp' = [cp EXCEPT ![n] = Creating(c.tx)] /\ cp[n] = New
    BY <1>1, <1>2 DEF Signature, CallMatches
  <2>2. ~HasChannel(cp[n]) /\ ~HasChannel(Creating(c.tx)) /\ cp[n].st = "New"
    BY <2>1 DEF HasChannel, New, Creating
  <2> QED
    BY <1>1, <2>1, <2>2, RecordKept
<1>3. CASE c.pc = "propose_re_draw"
  <2>1. cp' = [cp EXCEPT ![n] = ReDrawing(c.ch, c.tx)] /\ cp[n] = Open(c.ch)
    BY <1>1, <1>3 DEF Signature, CallMatches
  <2>2. /\ HasChannel(cp[n]) /\ HasChannel(ReDrawing(c.ch, c.tx)) /\ cp[n].st = "Open"
        /\ ReDrawing(c.ch, c.tx).ch = cp[n].ch
    BY <2>1 DEF HasChannel, Open, ReDrawing
  <2>3. cp[n].ch.seq <= ReDrawing(c.ch, c.tx).ch.seq
    BY <2>2, TakenParts, CpKinds DEF Channels
  <2> QED
    BY <1>1, <2>1, <2>2, <2>3, RecordKept
<1> QED
  BY <1>2, <1>3 DEF Signature

\* The peer has confirmed, and has the redraw's number.
LEMMA ConfirmedTaken ==
    ASSUME TakenInv, IInv', NEW n \in Node, Confirmed(n)
    PROVE  TakenInv'
<1> DEFINE p == Peer(n)
           c == call[n]
<1>1. CallMatches(n) /\ AnswerMeans(n) /\ ReDrawingOK(n) /\ UNCHANGED chain
  BY DEF TakenInv, IInv, Confirmed, blockchain
<1>2. c.pc \in DOMAIN Notified /\ c.reply = Done /\ cp[p].st = "Open"
  BY <1>1 DEF Confirmed, AnswerMeans
<1>3. PICK s : s = IF c.pc = "notify_channel_opened"
                   THEN Open(NewChannel(c.tx.bal))
                   ELSE Open([c.ch EXCEPT !.bal = c.tx.new])
  OBVIOUS
<1>4. cp' = [cp EXCEPT ![n] = s]
  BY <1>3, Zenon DEF Confirmed
<1>5. HasChannel(s) /\ HasChannel(cp[p])
  BY <1>2, <1>3 DEF HasChannel, Open
<1>6. CASE c.pc = "notify_channel_opened"
  <2>1. cp[n].st = "Creating" /\ ~HasChannel(cp[n])
    BY <1>1, <1>6, NotifiedKinds DEF CallMatches, Creating, HasChannel
  <2> QED
    BY <1>1, <1>4, <1>5, <2>1, RecordKept
<1>7. CASE c.pc = "notify_re_draw"
  <2>1. cp[n] = ReDrawing(c.ch, c.tx)
    BY <1>1, <1>2, <1>7 DEF CallMatches
  <2>2. cp[n].st = "ReDrawing" /\ cp[n].ch = c.ch /\ cp[n].tx = c.tx
    BY <2>1 DEF ReDrawing
  <2>3. c.ch \in Channels /\ c.tx.seq \in Nat
    BY <2>2, TakenParts, CpKinds DEF ReDrawTxs
  <2>4. s.ch.seq = c.ch.seq /\ c.ch.seq \in Nat
    BY <1>3, <1>7, <2>3 DEF Open, Channels
  <2>5. cp[p].ch.seq = c.tx.seq
    BY <1>1, <1>2, <2>2 DEF ReDrawingOK
  <2>6. cp[n].ch.seq <= s.ch.seq /\ cp[n].tx.seq <= cp[p].ch.seq
    BY <2>2, <2>3, <2>4, <2>5
  <2> QED
    BY <1>1, <1>4, <1>5, <2>2, <2>6, RecordKept
<1> QED
  BY <1>2, <1>6, <1>7, NotifiedKinds

\* An accepted payment is stored.
LEMMA PaymentTaken ==
    ASSUME TakenInv, IInv', NEW n \in Node, PaymentAccepted(n)
    PROVE  TakenInv'
<1> DEFINE c == call[n]
<1>1. CallMatches(n) /\ UNCHANGED chain /\ cp' = [cp EXCEPT ![n] = Open(c.ch)]
  BY DEF TakenInv, IInv, PaymentAccepted, blockchain
<1>2. cp[n].st = "Open" /\ c.ch = MakePayment(cp[n].ch, n, c.amount, cp[n].ch.seq)
  BY <1>1 DEF PaymentAccepted, CallMatches
<1>3. /\ HasChannel(cp[n]) /\ HasChannel(Open(c.ch)) /\ Open(c.ch).ch = c.ch
      /\ c.ch.seq = cp[n].ch.seq + 1
  BY <1>2 DEF HasChannel, Open, MakePayment
<1>4. cp[n].ch.seq \in Nat
  BY <1>2, TakenParts, CpKinds DEF Channels
<1>5. cp[n].ch.seq <= Open(c.ch).ch.seq
  BY <1>3, <1>4
<1> QED
  BY <1>1, <1>2, <1>3, <1>5, RecordKept

\* The contract takes a redraw: the node asked has signed it.
LEMMA MineTaken ==
    ASSUME TakenInv, IInv', NEW t \in pool, Mine(t)
    PROVE  TakenInv'
<1> DEFINE n == t.by
           p == Peer(n)
<1>1. /\ n \in Node /\ Settling(n) /\ t.tx = cp[n].tx /\ t \notin chain.mined
      /\ t = Settlement(n)
      /\ UNCHANGED cp /\ chain'.mined = chain.mined \cup {t}
  BY DEF TakenInv, IInv, TypeOK, PoolOK, Transactions, Settlement, Mine, nodes
<1>2. ASSUME IsReDraw(t)
      PROVE  TakenOK(t)'
  <2>1. cp[n].st = "ReDrawing"
    BY <1>1, <1>2, TakenParts, CpKinds DEF Settling, IsReDraw, NewChannelTxs
  <2>2. cp[p].st = "OtherReDrawing" /\ cp[p].tx = t.tx
    BY <1>1, <2>1 DEF TakenInv, IInv, ReDrawingOK, Settled
  <2>3. t.tx.new[p] = t.tx.old[p]
    BY <1>1, <2>2, TakenParts DEF IInv, SignedOK
  <2> QED
    BY <1>1, <2>1, <2>2, <2>3 DEF TakenOK, HasChannel
<1>3. \A u \in chain.mined : TakenOK(u)'
  BY <1>1 DEF TakenInv, TakenOK, IsReDraw
<1>4. TakenOK(t)'
  BY <1>2 DEF TakenOK, IsReDraw
<1>5. \A m \in Node : PeerKnows(m)'
  BY <1>1 DEF TakenInv, PeerKnows
<1> QED
  BY <1>1, <1>3, <1>4, <1>5 DEF TakenInv

\* Nothing was taken yet.
LEMMA TakenInit ==
    ASSUME Init \/ InitFilled
    PROVE  TakenInv
<1>1. IInv /\ chain.mined = {}
  BY InitOK DEF Init, InitFilled, InitWith
<1>2. CASE Init
  BY <1>1, <1>2 DEF TakenInv, PeerKnows, HasChannel, Init, InitWith, Absent
<1>3. CASE InitFilled
  <2>1. \A n \in Node : HasChannel(cp[n])
    BY <1>3 DEF HasChannel, InitFilled, InitWith, Open
  <2> QED
    BY <1>1, <2>1, TwoNodes DEF TakenInv, PeerKnows
<1> QED
  BY <1>2, <1>3

\* Every step keeps it.
LEMMA TakenNext ==
    ASSUME TakenInv, [Next]_vars
    PROVE  TakenInv'
<1>1. IInv'
  BY NextOK DEF TakenInv
<1>2. CASE UNCHANGED <<cp, chain>>
  BY <1>1, <1>2, NoRecord
<1>3. ASSUME NEW n \in Node, Serve(n)
      PROVE  TakenInv'
  <2>1. CASE \E r \in net : HandleNotify(r)
    BY <1>2, <2>1 DEF HandleNotify, blockchain
  <2> QED
    BY <1>1, <1>3, <2>1, HandlerTaken, NotifiedTaken DEF Serve
<1>4. ASSUME NEW n \in Node, Continue(n)
      PROVE  TakenInv'
  <2>1. CASE SendTransaction(n) \/ EventSeen(n) \/ PaymentStale(n) \/ CallRefused(n)
    BY <1>2, <2>1 DEF SendTransaction, EventSeen, PaymentStale, CallRefused, blockchain
  <2> QED
    BY <1>1, <1>4, <2>1, SignatureTaken, ConfirmedTaken, PaymentTaken DEF Continue
<1>5. ASSUME NEW n \in Node, Fail(n) \/ Timeout(n)
      PROVE  UNCHANGED <<cp, chain>>
  BY <1>5 DEF Fail, NotifyUnconfirmed, SendFails, EventFails, Timeout, blockchain
<1> QED
  BY <1>1, <1>2, <1>3, <1>4, <1>5, UserTaken, MineTaken DEF Next, vars, nodes, blockchain

(* A redraw the contract has taken is out of date for the node that was    *)
(* asked, and changed nothing for it.                                      *)
THEOREM TakenInvCorrect == SpecEither => []TakenInv
<1>1. Init \/ InitFilled => TakenInv
  BY TakenInit
<1>2. TakenInv /\ [Next]_vars => TakenInv'
  BY TakenNext
<1> QED
  BY <1>1, <1>2, PTL DEF SpecEither

\* A channel that is proposed is not in the contract yet.
LEMMA NewChannelFresh ==
    ASSUME TakenInv, NEW p \in Node, cp[p].st \in {"Absent", "New"}
    PROVE  chain.mined = {}
<1> SUFFICES ASSUME chain.mined # {}
             PROVE  FALSE
  OBVIOUS
<1> DEFINE n == Peer(p)
<1>1. chain.open
  BY DEF TakenInv, IInv, ChainOK
<1>2. cp[n].st \notin {"Absent", "New", "OtherCreating"}
  BY <1>1, TakenParts DEF IInv, ChainOK
<1>3. cp[n].st # "Creating"
  <2>1. CreatingOK(n) /\ Peer(n) = p
    BY TakenParts DEF IInv
  <2> QED
    BY <2>1 DEF CreatingOK, OtherCreating, Open
<1>4. ~HasChannel(cp[p]) /\ cp[p].st # "Creating"
  BY DEF HasChannel
<1>5. ~HasChannel(cp[n])
  BY <1>4, TakenParts DEF PeerKnows
<1> QED
  BY <1>2, <1>3, <1>5, TakenParts, CpKinds DEF HasChannel

\* A redraw that is agreed to was not taken yet, or changes nothing.
LEMMA ReDrawFresh ==
    ASSUME TakenInv, NEW p \in Node, NEW tx \in ReDrawTxs, cp[p].st = "Open",
           AcceptableReDraw(cp[p].ch, p, tx), NEW t \in chain.mined, DealOf(t.tx) = tx
    PROVE  tx.new = tx.old
<1> DEFINE n == Peer(p)
<1>1. /\ tx.seq \in Nat /\ cp[p].ch.seq \in Nat /\ tx.seq > cp[p].ch.seq
      /\ tx.new[p] = tx.old[p] /\ tx.new \in Balances /\ tx.old \in Balances
  BY TakenParts, CpKinds DEF AcceptableReDraw, ReDrawTxs, Channels
<1>2. t.by \in Node /\ t.tx \in NewChannelTxs \cup ReDrawTxs
  BY TakenParts DEF Transactions
<1>3. t.tx = tx /\ IsReDraw(t)
  <2>1. t.tx \notin NewChannelTxs
    <3> SUFFICES ASSUME t.tx \in NewChannelTxs
                 PROVE  FALSE
      OBVIOUS
    <3>1. DealOf(t.tx).seq = 0
      BY DealsOf
    <3> QED
      BY <1>1, <3>1
  <2> QED
    BY <1>2, <2>1, DealsOf DEF IsReDraw, ReDrawTxs
<1>4. TakenOK(t)
  BY DEF TakenInv
<1>5. t.by # n
  <2> SUFFICES ASSUME t.by = n
               PROVE  FALSE
    OBVIOUS
  <2>1. cp[n].st = "ReDrawing" /\ cp[n].tx = tx
    BY <1>1, <1>3, <1>4, TakenParts DEF TakenOK
  <2>2. cp[p].ch.seq = tx.seq
    BY <2>1, TakenParts DEF IInv, ReDrawingOK
  <2> QED
    BY <1>1, <2>2
<1>6. tx.new[n] = tx.old[n]
  BY <1>2, <1>3, <1>4, <1>5, TakenParts DEF TakenOK
<1> QED
  BY <1>1, <1>6, TakenParts DEF Balances

----------------------------------------------------------------------------
(* Settlement's steps, in terms of the record that is replaced.            *)

\* A node signs.
LEMMA Agreeing ==
    ASSUME cp \in [Node -> Counterparties], NEW p \in Node, NEW s,
           cp' = [cp EXCEPT ![p] = s], UNCHANGED chain,
           StageOf[cp[p].st] \in {"closed", "open"}, StageOf[s.st] = "agreed",
           DealIn(s) \in Deals!Deals, DealIn(s).old = Divided(cp[p]),
           DealIn(s).new[p] = Divided(cp[p])[p], Divided(s) = Divided(cp[p]),
           ASSUME NEW t \in chain.mined, DealOf(t.tx) = DealIn(s)
           PROVE  DealIn(s).new = DealIn(s).old
    PROVE  Deals!Agree(p)
BY OneRecord DEF Deals!Agree

\* A node takes up what its peer has signed.
LEMMA Starting ==
    ASSUME cp \in [Node -> Counterparties], NEW n \in Node, NEW s,
           cp' = [cp EXCEPT ![n] = s], UNCHANGED chain,
           StageOf[cp[n].st] \in {"closed", "open"}, StageOf[s.st] = "waiting",
           StageOf[cp[Peer(n)].st] = "agreed", DealIn(s) = DealIn(cp[Peer(n)]),
           DealIn(s).old = Divided(cp[n]), Divided(s) = Divided(cp[n])
    PROVE  Deals!Start(n)
<1>1. Peer(n) \in Node /\ Deals!Peer(n) = Peer(n)
  BY TwoNodes, SameChannel
<1> QED
  BY <1>1, OneRecord DEF Deals!Start

\* A node opens the channel with the balances settled.
LEMMA Opening ==
    ASSUME cp \in [Node -> Counterparties], NEW n \in Node, NEW s,
           cp' = [cp EXCEPT ![n] = s], UNCHANGED chain,
           StageOf[s.st] = "open", DealIn(s) = NoDeal, Divided(s) = DealIn(cp[n]).new,
           NEW t \in chain.mined, DealOf(t.tx) = DealIn(cp[n])
    PROVE  Deals!Opened(n)
BY OneRecord, SameChannel DEF Deals!Opened

\* An open channel's balances change.
LEMMA Moving ==
    ASSUME cp \in [Node -> Counterparties], NEW n \in Node, NEW s,
           cp' = [cp EXCEPT ![n] = s], UNCHANGED chain,
           StageOf[cp[n].st] = "open", StageOf[s.st] = "open", DealIn(s) = DealIn(cp[n]),
           Divided(s) \in Balances, Total(Divided(s)) = Total(Divided(cp[n]))
    PROVE  Deals!Move(n)
BY OneRecord, SameChannel DEF Deals!Move

----------------------------------------------------------------------------
(* Guac's steps.                                                           *)

\* A user's call goes on (CheckAccrual, FillNew), or only asks.
LEMMA UserMaps ==
    ASSUME IInv, NEW n \in Node, UserCall(n)
    PROVE  UNCHANGED Deals!vars
<1>1. cp \in [Node -> Counterparties] /\ cp[n] \in Counterparties
  BY DEF IInv, TypeOK
<1>2. CASE \E amount \in Fills : FillNew(n, amount)
  <2>1. cp' = [cp EXCEPT ![n] = New] /\ cp[n] \in {Absent, New} /\ UNCHANGED chain
    BY <1>1, <1>2, CpKinds DEF FillNew, blockchain
  <2>2. /\ StageOf[New.st] = StageOf[cp[n].st] /\ DealIn(New) = DealIn(cp[n])
        /\ Divided(New) = Divided(cp[n])
    BY <2>1, Stages, Kinds DEF Absent, New
  <2> QED
    BY <1>1, <2>1, <2>2, Unseen
<1>3. CASE CheckAccrual(n)
  <2>1. PICK s : s = [cp[n] EXCEPT !.ch = AccrualTaken(cp[n].ch)]
    OBVIOUS
  <2>2. cp' = [cp EXCEPT ![n] = s] /\ HasChannel(cp[n]) /\ UNCHANGED chain
    BY <1>3, <2>1, Zenon DEF CheckAccrual, blockchain
  <2>3. s.st = cp[n].st /\ DealIn(s) = DealIn(cp[n]) /\ Divided(s) = Divided(cp[n])
    BY <1>1, <2>1, <2>2, CpKinds
       DEF HasChannel, AccrualTaken, Open, ReDrawing, OtherReDrawing, DealIn, Divided
  <2> QED
    BY <1>1, <2>2, <2>3, Unseen
<1>4. CASE UNCHANGED <<cp, chain>>
  BY <1>1, <1>4, Unseen
<1> QED
  BY <1>2, <1>3, <1>4 DEF UserCall, FillOpen, Withdraw, ProposeReDraw, Pay, blockchain

\* A proposal, or a payment, is handled.
LEMMA HandlerMaps ==
    ASSUME TakenInv, NEW r \in net,
           HandleProposeChannel(r) \/ HandleProposeReDraw(r) \/ HandleReceivePayment(r)
    PROVE  \/ Deals!Agree(Peer(r.from))
           \/ Deals!Move(Peer(r.from))
           \/ UNCHANGED Deals!vars
<1> DEFINE p == Peer(r.from)
<1>1. /\ cp \in [Node -> Counterparties] /\ p \in Node /\ cp[p] \in Counterparties
      /\ r \in Requests
  BY TwoNodes, RequestKinds DEF TakenInv, IInv, TypeOK
<1>2. ASSUME NEW s, NEW y, Handle(r, Outcome(s, y))
      PROVE  cp' = [cp EXCEPT ![p] = s] /\ UNCHANGED chain
  BY <1>2 DEF Handle, Outcome, blockchain
<1>3. ASSUME cp' = [cp EXCEPT ![p] = cp[p]], UNCHANGED chain
      PROVE  UNCHANGED Deals!vars
  BY <1>1, <1>3, Unseen
<1>4. CASE HandleProposeChannel(r)
  <2>1. r.body \in NewChannelTxs
    BY <1>1, <1>4, RequestKinds DEF HandleProposeChannel
  <2>2. PICK s, y : /\ ProposeChannel(cp[p], p, r.body) = Outcome(s, y)
                    /\ \/ s = cp[p]
                       \/ cp[p].st \in {"Absent", "New"} /\ s = New
                       \/ /\ cp[p].st \in {"Absent", "New"} /\ r.body.bal[p] = 0
                          /\ s = OtherCreating(r.body)
    BY DEF ProposeChannel
  <2>3. cp' = [cp EXCEPT ![p] = s] /\ UNCHANGED chain
    BY <1>2, <1>4, <2>2 DEF HandleProposeChannel
  <2>4. CASE s = cp[p]
    BY <1>3, <2>3, <2>4
  <2>5. CASE cp[p].st \in {"Absent", "New"} /\ s = New
    <3>1. /\ StageOf[s.st] = StageOf[cp[p].st] /\ DealIn(s) = DealIn(cp[p])
          /\ Divided(s) = Divided(cp[p])
      BY <1>1, <2>5, CpKinds, Stages, Kinds DEF New
    <3> QED
      BY <1>1, <2>3, <3>1, Unseen
  <2>6. CASE cp[p].st \in {"Absent", "New"} /\ r.body.bal[p] = 0 /\ s = OtherCreating(r.body)
    <3>1. /\ StageOf[cp[p].st] = "closed" /\ StageOf[s.st] = "agreed"
          /\ Divided(cp[p]) = Nothing /\ Divided(s) = Nothing
      BY <1>1, <2>6, CpKinds, Stages, Kinds DEF OtherCreating
    <3>2. /\ DealIn(s) \in Deals!Deals /\ DealIn(s).old = Nothing
          /\ DealIn(s).new[p] = 0 /\ Nothing[p] = 0
      BY <1>1, <2>1, <2>6, DealsOf, Kinds DEF Nothing
    <3>3. chain.mined = {}
      BY <1>1, <2>6, NewChannelFresh
    <3> QED
      BY <1>1, <2>3, <3>1, <3>2, <3>3, Agreeing
  <2> QED
    BY <2>2, <2>4, <2>5, <2>6
<1>5. CASE HandleProposeReDraw(r)
  <2>1. r.body \in ReDrawTxs
    BY <1>1, <1>5, RequestKinds DEF HandleProposeReDraw
  <2>2. PICK s, y : /\ ProposedReDraw(cp[p], p, r.body) = Outcome(s, y)
                    /\ \/ s = cp[p]
                       \/ /\ cp[p].st = "Open" /\ AcceptableReDraw(cp[p].ch, p, r.body)
                          /\ s = OtherReDrawing(cp[p].ch, r.body)
    BY DEF ProposedReDraw
  <2>3. cp' = [cp EXCEPT ![p] = s] /\ UNCHANGED chain
    BY <1>2, <1>5, <2>2 DEF HandleProposeReDraw
  <2>4. CASE s = cp[p]
    BY <1>3, <2>3, <2>4
  <2>5. CASE /\ cp[p].st = "Open" /\ AcceptableReDraw(cp[p].ch, p, r.body)
             /\ s = OtherReDrawing(cp[p].ch, r.body)
    <3>1. /\ StageOf[cp[p].st] = "open" /\ StageOf[s.st] = "agreed"
          /\ Divided(cp[p]) = cp[p].ch.bal /\ Divided(s) = cp[p].ch.bal
      BY <1>1, <2>5, CpKinds, Stages, Kinds DEF OtherReDrawing
    <3>2. DealIn(s) = r.body /\ r.body \in Deals!Deals
      BY <2>1, <2>5, DealsOf, Kinds
    <3>3. ASSUME NEW t \in chain.mined, DealOf(t.tx) = r.body
          PROVE  r.body.new = r.body.old
      BY <1>1, <2>1, <2>5, <3>3, ReDrawFresh
    <3> QED
      BY <1>1, <2>3, <2>5, <3>1, <3>2, <3>3, Agreeing DEF AcceptableReDraw
  <2> QED
    BY <2>2, <2>4, <2>5
<1>6. CASE HandleReceivePayment(r)
  <2>1. r.body \in UpdateTxs
    BY <1>1, <1>6, RequestKinds DEF HandleReceivePayment
  <2>2. PICK s, y : /\ ReceivePayment(cp[p], p, r.body) = Outcome(s, y)
                    /\ \/ s = cp[p]
                       \/ /\ cp[p].st = "Open" /\ Acceptable(cp[p].ch, p, r.body)
                          /\ s = Open(Received(cp[p].ch, p, r.body))
    BY DEF ReceivePayment
  <2>3. cp' = [cp EXCEPT ![p] = s] /\ UNCHANGED chain
    BY <1>2, <1>6, <2>2 DEF HandleReceivePayment
  <2>4. CASE s = cp[p]
    BY <1>3, <2>3, <2>4
  <2>5. CASE /\ cp[p].st = "Open" /\ Acceptable(cp[p].ch, p, r.body)
             /\ s = Open(Received(cp[p].ch, p, r.body))
    <3>1. /\ StageOf[cp[p].st] = "open" /\ StageOf[s.st] = "open"
          /\ DealIn(s) = NoDeal /\ DealIn(cp[p]) = NoDeal
          /\ Divided(cp[p]) = cp[p].ch.bal /\ Divided(s) = Received(cp[p].ch, p, r.body).bal
      BY <1>1, <2>5, CpKinds, Stages, Kinds DEF Open
    <3>2. Divided(s) = r.body.bal /\ r.body.bal \in Balances
      BY <2>1, <3>1 DEF Received, UpdateTxs
    <3> QED
      BY <1>1, <2>3, <2>5, <3>1, <3>2, Moving DEF Acceptable
  <2> QED
    BY <2>2, <2>4, <2>5
<1> QED
  BY <1>4, <1>5, <1>6

\* A notification is confirmed: the settlement is mined, and the one the
\* handler's node has signed.
LEMMA NotifiedMaps ==
    ASSUME IInv, NEW p \in Node, OpenedFound(p) \/ ReDrawnChecked(p)
    PROVE  Deals!Learn(p)
<1> DEFINE n == Peer(p)
<1>1. /\ n \in Node /\ Peer(n) = p /\ cp \in [Node -> Counterparties]
      /\ cp[p] \in Counterparties /\ cp[n] \in Counterparties
      /\ srv[p] \in Requests \cup {NotServing}
  BY TwoNodes DEF IInv, TypeOK
<1>2. /\ srv[p] # NotServing /\ cp[p].st = Notified[srv[p].kind] /\ srv[p].from = n
      /\ srv[p].kind \in DOMAIN Notified
  BY NotifiedKinds DEF IInv, TypeOK, HandlersOK, OpenedFound, ReDrawnChecked, NotServing
<1>3. /\ Settled(n)
      /\ cp[n].st = IF srv[p].kind = "notify_channel_opened" THEN "Creating" ELSE "ReDrawing"
  BY <1>2 DEF IInv, RequestsOK, InFlight, Handled, Announced
<1>4. CreatingOK(n) /\ ReDrawingOK(n)
  BY <1>1 DEF IInv
<1>5. cp[p].tx = cp[n].tx
  BY <1>1, <1>2, <1>3, <1>4, NotifiedKinds
     DEF CreatingOK, ReDrawingOK, OtherCreating, Open
<1>6. PICK t \in chain.mined : t.tx = cp[p].tx
  BY <1>3, <1>5 DEF Settled, Settlement
<1>7. UNCHANGED chain
  BY DEF OpenedFound, ReDrawnChecked, blockchain
<1>8. CASE OpenedFound(p)
  <2>1. cp[p].st = "OtherCreating" /\ cp' = [cp EXCEPT ![p] = Open(NewChannel(cp[p].tx.bal))]
    BY <1>2, <1>8, NotifiedKinds DEF OpenedFound
  <2>2. StageOf[cp[p].st] = "agreed" /\ DealIn(cp[p]) = DealOf(cp[p].tx)
        /\ DealOf(cp[p].tx).new = cp[p].tx.bal
    BY <1>1, <2>1, CpKinds, Stages, Kinds, DealsOf
  <2>3. PICK s : s = Open(NewChannel(cp[p].tx.bal))
    OBVIOUS
  <2>4. StageOf[s.st] = "open" /\ DealIn(s) = NoDeal /\ Divided(s) = cp[p].tx.bal
    BY <2>3, Stages, Kinds DEF Open, NewChannel
  <2>5. Deals!Opened(p)
    BY <1>1, <1>6, <1>7, <2>1, <2>2, <2>3, <2>4, Opening
  <2> QED
    BY <2>2, <2>5 DEF Deals!Learn
<1>9. CASE ReDrawnChecked(p)
  <2>1. PICK s : s = Open([seq |-> cp[p].tx.seq, bal |-> cp[p].tx.new,
                           accrual |-> cp[p].ch.accrual])
    OBVIOUS
  <2>2. cp[p].st = "OtherReDrawing" /\ cp' = [cp EXCEPT ![p] = s]
    BY <1>2, <1>9, <2>1, NotifiedKinds DEF ReDrawnChecked
  <2>3. StageOf[cp[p].st] = "agreed" /\ DealIn(cp[p]) = DealOf(cp[p].tx)
        /\ DealOf(cp[p].tx) = cp[p].tx
    BY <1>1, <2>2, CpKinds, Stages, Kinds, DealsOf
  <2>4. StageOf[s.st] = "open" /\ DealIn(s) = NoDeal /\ Divided(s) = cp[p].tx.new
    BY <2>1, Stages, Kinds DEF Open
  <2>5. Deals!Opened(p)
    BY <1>1, <1>6, <1>7, <2>2, <2>3, <2>4, Opening
  <2> QED
    BY <2>3, <2>5 DEF Deals!Learn
<1> QED
  BY <1>8, <1>9

\* The peer's signature is in: its deal is taken up.
LEMMA SignatureMaps ==
    ASSUME IInv, NEW n \in Node, Signature(n)
    PROVE  Deals!Start(n)
<1> DEFINE p == Peer(n)
           c == call[n]
<1>1. /\ p \in Node /\ cp \in [Node -> Counterparties] /\ c \in Calls
      /\ cp[p] \in Counterparties /\ UNCHANGED chain
      /\ CallMatches(n) /\ AnswerMeans(n)
  BY TwoNodes DEF IInv, TypeOK, Signature, blockchain
<1>2. CASE c.pc = "propose_channel"
  <2>1. /\ cp' = [cp EXCEPT ![n] = Creating(c.tx)] /\ c.tx \in NewChannelTxs
        /\ cp[n] = New /\ cp[p] = OtherCreating(c.tx)
    BY <1>1, <1>2, CallKinds DEF Signature, CallMatches, AnswerMeans
  <2>2. /\ StageOf[cp[n].st] = "closed" /\ StageOf[cp[p].st] = "agreed"
        /\ StageOf[Creating(c.tx).st] = "waiting"
    BY <2>1, Stages DEF New, OtherCreating, Creating
  <2>3. /\ DealIn(Creating(c.tx)) = DealOf(c.tx) /\ DealIn(cp[p]) = DealOf(c.tx)
        /\ Divided(Creating(c.tx)) = Nothing /\ Divided(cp[n]) = Nothing
        /\ DealOf(c.tx).old = Nothing
    BY <2>1, Kinds, DealsOf
  <2> QED
    BY <1>1, <2>1, <2>2, <2>3, Starting
<1>3. CASE c.pc = "propose_re_draw"
  <2>1. /\ cp' = [cp EXCEPT ![n] = ReDrawing(c.ch, c.tx)] /\ c.tx \in ReDrawTxs
        /\ cp[n] = Open(c.ch) /\ cp[p].st = "OtherReDrawing" /\ cp[p].tx = c.tx
        /\ c.tx.old = c.ch.bal
    BY <1>1, <1>3, CallKinds DEF Signature, CallMatches, AnswerMeans
  <2>2. /\ StageOf[cp[n].st] = "open" /\ StageOf[cp[p].st] = "agreed"
        /\ StageOf[ReDrawing(c.ch, c.tx).st] = "waiting"
    BY <2>1, Stages DEF Open, ReDrawing
  <2>3. /\ DealIn(ReDrawing(c.ch, c.tx)) = c.tx /\ DealIn(cp[p]) = c.tx
        /\ Divided(ReDrawing(c.ch, c.tx)) = c.ch.bal /\ Divided(cp[n]) = c.ch.bal
    BY <1>1, <2>1, CpKinds, Kinds, DealsOf
  <2> QED
    BY <1>1, <2>1, <2>2, <2>3, Starting
<1> QED
  BY <1>2, <1>3 DEF Signature

\* The peer has confirmed the notification: it has opened already.
LEMMA ConfirmedMaps ==
    ASSUME IInv, NEW n \in Node, Confirmed(n)
    PROVE  Deals!Finish(n)
<1> DEFINE p == Peer(n)
           c == call[n]
<1>1. /\ p \in Node /\ cp \in [Node -> Counterparties] /\ c \in Calls
      /\ cp[p] \in Counterparties /\ cp[n] \in Counterparties /\ UNCHANGED chain
      /\ CallMatches(n) /\ AnswerMeans(n) /\ CreatingOK(n) /\ ReDrawingOK(n)
  BY TwoNodes DEF IInv, TypeOK, Confirmed, blockchain
<1>2. c.pc \in DOMAIN Notified /\ c.reply = Done /\ Settled(n) /\ cp[p].st = "Open"
  BY <1>1 DEF Confirmed, CallMatches, AnswerMeans
<1>3. PICK t \in chain.mined : t.tx = cp[n].tx
  BY <1>2 DEF Settled, Settlement
<1>4. PICK s : s = IF c.pc = "notify_channel_opened"
                   THEN Open(NewChannel(c.tx.bal))
                   ELSE Open([c.ch EXCEPT !.bal = c.tx.new])
  OBVIOUS
<1>5. cp' = [cp EXCEPT ![n] = s]
  BY <1>4, Zenon DEF Confirmed
<1>6. StageOf[cp[p].st] = "open" /\ Divided(cp[p]) = cp[p].ch.bal
  BY <1>2, Stages DEF Divided, HasChannel
<1>7. /\ StageOf[cp[n].st] = "waiting" /\ StageOf[s.st] = "open" /\ DealIn(s) = NoDeal
      /\ DealIn(cp[n]) = DealOf(cp[n].tx) /\ Divided(s) = DealIn(cp[n]).new
      /\ Divided(cp[p]) = DealIn(cp[n]).new
  <2>1. CASE c.pc = "notify_channel_opened"
    <3>1. cp[n] = Creating(c.tx) /\ c.tx \in NewChannelTxs
      BY <1>1, <1>2, <2>1, CpKinds DEF CallMatches, Creating, ReDrawing
    <3>2. cp[p] = Open(NewChannel(c.tx.bal))
      BY <1>1, <1>2, <3>1 DEF CreatingOK, Creating, OtherCreating
    <3>3. DealOf(c.tx).new = c.tx.bal /\ s = Open(NewChannel(c.tx.bal))
      BY <1>4, <2>1, <3>1, DealsOf
    <3> QED
      BY <3>1, <3>2, <3>3, Stages, Kinds DEF Creating, Open, NewChannel
  <2>2. CASE c.pc = "notify_re_draw"
    <3>1. cp[n] = ReDrawing(c.ch, c.tx) /\ c.tx \in ReDrawTxs /\ c.ch \in Channels
      BY <1>1, <1>2, <2>2, CpKinds DEF CallMatches, Creating, ReDrawing
    <3>2. cp[p].ch.bal = c.tx.new
      BY <1>1, <1>2, <3>1 DEF ReDrawingOK, ReDrawing
    <3>3. DealOf(c.tx) = c.tx
      BY <3>1, DealsOf
    <3>4. s = Open([c.ch EXCEPT !.bal = c.tx.new]) /\ [c.ch EXCEPT !.bal = c.tx.new].bal = c.tx.new
      BY <1>4, <2>2, <3>1 DEF Channels
    <3>5. /\ StageOf[cp[n].st] = "waiting" /\ DealIn(cp[n]) = DealOf(cp[n].tx)
          /\ DealIn(cp[n]) = c.tx
      BY <3>1, <3>3, Stages, Kinds DEF ReDrawing
    <3>6. StageOf[s.st] = "open" /\ DealIn(s) = NoDeal /\ Divided(s) = c.tx.new
      BY <3>4, Stages, Kinds DEF Open
    <3> QED
      BY <1>6, <3>2, <3>5, <3>6
  <2> QED
    BY <1>2, <2>1, <2>2, NotifiedKinds
<1>8. Deals!Opened(n)
  BY <1>1, <1>3, <1>5, <1>7, Opening
<1>9. Deals!Peer(n) = p
  BY SameChannel
<1> QED
  BY <1>1, <1>6, <1>7, <1>8, <1>9 DEF Deals!Finish

\* An accepted payment is stored.
LEMMA PaymentMaps ==
    ASSUME IInv, NEW n \in Node, PaymentAccepted(n)
    PROVE  Deals!Move(n)
<1> DEFINE c == call[n]
<1>1. /\ cp \in [Node -> Counterparties] /\ c \in Calls /\ cp[n] \in Counterparties
      /\ UNCHANGED chain /\ CallMatches(n) /\ cp' = [cp EXCEPT ![n] = Open(c.ch)]
  BY DEF IInv, TypeOK, PaymentAccepted, blockchain
<1>2. /\ cp[n].st = "Open" /\ ~NotEnough(cp[n].ch, n, c.amount)
      /\ c.ch = MakePayment(cp[n].ch, n, c.amount, cp[n].ch.seq)
      /\ c.ch \in Channels /\ c.amount \in Nat
  BY <1>1, CallKinds DEF PaymentAccepted, CallMatches
<1>3. cp[n] = Open(cp[n].ch) /\ cp[n].ch \in Channels
  BY <1>1, <1>2, CpKinds
<1>4. /\ StageOf[cp[n].st] = "open" /\ StageOf[Open(c.ch).st] = "open"
      /\ DealIn(Open(c.ch)) = NoDeal /\ DealIn(cp[n]) = NoDeal
      /\ Divided(Open(c.ch)) = c.ch.bal /\ Divided(cp[n]) = cp[n].ch.bal
  BY <1>3, Stages, Kinds DEF Open
<1>5. c.ch.bal \in Balances /\ Total(c.ch.bal) = Total(cp[n].ch.bal)
  BY <1>2, <1>3 DEF Channels, Balances, NotEnough, MakePayment, Moved, Total, Node
<1> QED
  BY <1>1, <1>4, <1>5, Moving

\* The contract takes a settlement, for the first time.
LEMMA MineMaps ==
    ASSUME IInv, NEW t \in pool, Mine(t)
    PROVE  Deals!Settle(t.by)
<1> DEFINE n == t.by
<1>1. /\ n \in Node /\ Settling(n) /\ t.tx = cp[n].tx /\ cp[n] \in Counterparties
      /\ t.tx \in NewChannelTxs \cup ReDrawTxs /\ chain.mined \subseteq Transactions
      /\ chain.seq \in Nat
  BY DEF IInv, TypeOK, PoolOK, Transactions
<1>2. StageOf[cp[n].st] = "waiting" /\ DealIn(cp[n]) = DealOf(t.tx)
  BY <1>1, CpKinds, Stages, Kinds DEF Settling
<1>3. UNCHANGED cp /\ chain'.mined = chain.mined \cup {t}
  BY DEF Mine, nodes
<1>4. ASSUME NEW u \in chain.mined
      PROVE  DealOf(u.tx) # DealOf(t.tx)
  <2>1. u.tx \in NewChannelTxs \cup ReDrawTxs
    BY <1>1 DEF Transactions
  <2>2. t.tx \in ReDrawTxs /\ IsReDraw(t) /\ t.tx.seq > chain.seq
    BY <1>1 DEF IInv, ChainOK, Mine, Valid, IsReDraw, NewChannelTxs, ReDrawTxs
  <2>3. CASE u.tx \in ReDrawTxs
    <3>1. IsReDraw(u)
      BY <2>3 DEF IsReDraw, ReDrawTxs
    <3>2. u.tx.seq <= chain.seq /\ u.tx.seq \in Nat /\ t.tx.seq \in Nat
      BY <2>2, <2>3, <3>1 DEF IInv, ChainOK, ReDrawTxs
    <3> QED
      BY <1>1, <2>2, <2>3, <3>2, DealsOf
  <2>4. CASE u.tx \in NewChannelTxs
    <3>1. DealOf(u.tx).seq = 0 /\ DealOf(t.tx).seq = t.tx.seq /\ t.tx.seq \in Nat
      BY <2>2, <2>4, DealsOf DEF ReDrawTxs
    <3> QED
      BY <1>1, <2>2, <3>1
  <2> QED
    BY <2>1, <2>3, <2>4
<1> QED
  BY <1>1, <1>2, <1>3, <1>4 DEF Deals!Settle

----------------------------------------------------------------------------
(* Refinement.                                                             *)

\* The two initial states are ones of Settlement.
LEMMA InitMaps ==
    ASSUME Init \/ InitFilled
    PROVE  Deals!Init
<1>1. CASE Init
  <2>1. cp = [n \in Node |-> Absent] /\ chain.mined = {}
    BY <1>1 DEF Init, InitWith
  <2>2. [n \in Node |-> StageOf[cp[n].st]] = [n \in Node |-> "closed"]
    BY <2>1, Stages DEF Absent
  <2>3. /\ [n \in Node |-> DealIn(cp[n])] = [n \in Node |-> NoDeal]
        /\ [n \in Node |-> Divided(cp[n])] = [n \in Node |-> Nothing]
    BY <2>1, Kinds
  <2> QED
    BY <2>1, <2>2, <2>3, SameChannel DEF Deals!Init
<1>2. CASE InitFilled
  <2>1. \A n \in Node : cp[n].st = "Open" /\ cp[n] \in Counterparties /\ cp[n].ch.bal = FilledBal
    BY <1>2, InitOK DEF InitFilled, InitWith, Open, IInv, TypeOK
  <2>2. chain.mined = {}
    BY <1>2 DEF InitFilled, InitWith
  <2>3. \A n \in Node : /\ StageOf[cp[n].st] = "open" /\ DealIn(cp[n]) = NoDeal
                        /\ Divided(cp[n]) = FilledBal
    BY <2>1, CpKinds, Stages, Kinds
  <2>4. /\ [n \in Node |-> StageOf[cp[n].st]] = [n \in Node |-> "open"]
        /\ [n \in Node |-> DealIn(cp[n])] = [n \in Node |-> NoDeal]
        /\ [n \in Node |-> Divided(cp[n])] = [n \in Node |-> FilledBal]
    BY <2>3
  <2>5. 0 \in Node /\ 1 \in Node
    BY DEF Node
  <2> QED
    BY <2>2, <2>4, <2>5, SameChannel, FilledBalAssumption DEF Deals!Init
<1> QED
  BY <1>1, <1>2

\* Each step is one of Settlement's, or changes nothing that it sees.
LEMMA NextMaps ==
    ASSUME TakenInv, [Next]_vars
    PROVE  [Deals!Next]_(Deals!vars)
<1>1. cp \in [Node -> Counterparties] /\ net \subseteq Requests /\ pool \subseteq Transactions
  BY DEF TakenInv, IInv, TypeOK
<1>2. CASE UNCHANGED <<cp, chain>>
  BY <1>1, <1>2, Unseen
<1>3. ASSUME NEW n \in Node, UserCall(n)
      PROVE  UNCHANGED Deals!vars
  BY <1>3, UserMaps DEF TakenInv
<1>4. ASSUME NEW n \in Node, Serve(n)
      PROVE  [Deals!Next]_(Deals!vars)
  <2>1. ASSUME NEW r \in net,
               HandleProposeChannel(r) \/ HandleProposeReDraw(r) \/ HandleReceivePayment(r)
        PROVE  [Deals!Next]_(Deals!vars)
    <3>1. Peer(r.from) \in Deals!Node
      BY <1>1, TwoNodes, RequestKinds, SameChannel
    <3> QED
      BY <2>1, <3>1, HandlerMaps DEF Deals!Next
  <2>2. CASE \E r \in net : HandleNotify(r)
    BY <1>2, <2>2 DEF HandleNotify, blockchain
  <2>3. CASE OpenedFound(n) \/ ReDrawnChecked(n)
    BY <2>3, NotifiedMaps, SameChannel DEF Deals!Next, TakenInv
  <2> QED
    BY <1>4, <2>1, <2>2, <2>3 DEF Serve
<1>5. ASSUME NEW n \in Node, Continue(n)
      PROVE  [Deals!Next]_(Deals!vars)
  <2>1. CASE SendTransaction(n) \/ EventSeen(n) \/ PaymentStale(n) \/ CallRefused(n)
    BY <1>2, <2>1 DEF SendTransaction, EventSeen, PaymentStale, CallRefused, blockchain
  <2>2. CASE Signature(n)
    BY <2>2, SignatureMaps, SameChannel DEF Deals!Next, TakenInv
  <2>3. CASE Confirmed(n)
    BY <2>3, ConfirmedMaps, SameChannel DEF Deals!Next, TakenInv
  <2>4. CASE PaymentAccepted(n)
    BY <2>4, PaymentMaps, SameChannel DEF Deals!Next, TakenInv
  <2> QED
    BY <1>5, <2>1, <2>2, <2>3, <2>4 DEF Continue
<1>6. ASSUME NEW n \in Node, Fail(n) \/ Timeout(n)
      PROVE  UNCHANGED <<cp, chain>>
  BY <1>6 DEF Fail, NotifyUnconfirmed, SendFails, EventFails, Timeout, blockchain
<1>7. ASSUME NEW t \in pool, Mine(t)
      PROVE  Deals!Next
  BY <1>1, <1>7, MineMaps, SameChannel DEF Deals!Next, Transactions, TakenInv
<1> QED
  BY <1>2, <1>3, <1>4, <1>5, <1>6, <1>7 DEF Next, vars, nodes, blockchain

(* Every behaviour of the two nodes, with any calls, failures and orphaned *)
(* requests, is one of Settlement: the channel's money is divided anew     *)
(* only by a deal both agreed to and the contract has settled.             *)
THEOREM ImplementsSettlementHolds == SpecEither => ImplementsSettlement
<1>1. Init \/ InitFilled => Deals!Init
  BY InitMaps
<1>2. TakenInv /\ [Next]_vars => [Deals!Next]_(Deals!vars)
  BY NextMaps
<1> QED
  BY <1>1, <1>2, TakenInvCorrect, PTL DEF SpecEither, ImplementsSettlement, Deals!Spec

----------------------------------------------------------------------------
(* What Settlement promises holds of Guac.                                 *)

Promise == INSTANCE Settlement_proofs WITH
    stage <- [n \in Node |-> StageOf[cp[n].st]],
    deal <- [n \in Node |-> DealIn(cp[n])],
    bal <- [n \in Node |-> Divided(cp[n])],
    settled <- {DealOf(t.tx) : t \in chain.mined}

\* The promises are made of the same operators.
LEMMA SameOperators ==
    /\ Promise!Node = Deals!Node /\ Promise!Deals = Deals!Deals
    /\ Promise!Balances = Deals!Balances
    /\ Promise!Nothing = Deals!Nothing /\ Promise!NoDeal = Deals!NoDeal
    /\ \A n : Promise!Peer(n) = Deals!Peer(n)
    /\ \A b : Promise!Total(b) = Deals!Total(b)
BY DEF Deals!Node, Deals!Balances, Deals!Deals, Deals!Nothing, Deals!NoDeal, Deals!Peer,
       Deals!Total, Promise!Node, Promise!Balances, Promise!Deals, Promise!Nothing,
       Promise!NoDeal, Promise!Peer, Promise!Total

\* Guac implements the Settlement that the promises are proved of.
LEMMA Promised == SpecEither => Promise!Spec
<1>1. Deals!Init => Promise!Init
  BY SameOperators DEF Deals!Init, Promise!Init
<1>2. UNCHANGED Deals!vars => UNCHANGED Promise!vars
  BY DEF Deals!vars, Promise!vars
<1>3. ASSUME NEW n \in Deals!Node
      PROVE  /\ Deals!Move(n) => Promise!Move(n)
             /\ Deals!Agree(n) => Promise!Agree(n)
             /\ Deals!Start(n) => Promise!Start(n)
             /\ Deals!Settle(n) => Promise!Settle(n)
             /\ Deals!Learn(n) => Promise!Learn(n)
             /\ Deals!Finish(n) => Promise!Finish(n)
  <2>1. Deals!Move(n) => Promise!Move(n)
    BY SameOperators DEF Deals!Move, Promise!Move
  <2>2. Deals!Agree(n) => Promise!Agree(n)
    BY SameOperators DEF Deals!Agree, Promise!Agree
  <2>3. Deals!Start(n) => Promise!Start(n)
    BY SameOperators DEF Deals!Start, Promise!Start
  <2>4. Deals!Settle(n) => Promise!Settle(n)
    BY DEF Deals!Settle, Promise!Settle
  <2>5. Deals!Opened(n) => Promise!Opened(n)
    BY SameOperators DEF Deals!Opened, Promise!Opened
  <2>6. Deals!Learn(n) => Promise!Learn(n)
    BY <2>5 DEF Deals!Learn, Promise!Learn
  <2>7. Deals!Finish(n) => Promise!Finish(n)
    BY <2>5, SameOperators DEF Deals!Finish, Promise!Finish
  <2> QED
    BY <2>1, <2>2, <2>3, <2>4, <2>6, <2>7
<1>4. [Deals!Next]_(Deals!vars) => [Promise!Next]_(Promise!vars)
  BY <1>2, <1>3, SameOperators DEF Deals!Next, Promise!Next
<1> QED
  BY <1>1, <1>4, ImplementsSettlementHolds, PTL
     DEF ImplementsSettlement, Deals!Spec, Promise!Spec

(* Unless one node is in Creating or ReDrawing the two divide the same     *)
(* amount of money, whatever became of the calls.                          *)
THEOREM SameMoneyHolds == SpecEither => []SameMoney
<1>1. Promise!SameMoney => SameMoney
  BY SameOperators DEF Promise!SameMoney, SameMoney, Deals!SameMoney
<1> QED
  BY <1>1, Promised, Promise!SameMoneyHolds, PTL

(* A node that has signed a deal has the same share until it is through    *)
(* with it, and then.                                                      *)
THEOREM AskedKeepsShareHolds == SpecEither => AskedKeepsShare
<1>1. [Promise!ShareKept]_(Promise!vars) => [Deals!ShareKept]_(Deals!vars)
  BY SameOperators
     DEF Promise!ShareKept, Deals!ShareKept, Promise!vars, Deals!vars
<1> QED
  BY <1>1, Promised, Promise!AskedKeepsShareHolds, PTL
     DEF AskedKeepsShare, Deals!AskedKeepsShare, Promise!AskedKeepsShare
=============================================================================
