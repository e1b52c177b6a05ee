----------------------------- MODULE Guac_proofs -----------------------------
(***************************************************************************)
(* The two nodes never disagree about the channel's money, whatever the    *)
(* users ask for, however often, and whatever is lost, late or fails.      *)
(***************************************************************************)
EXTENDS GuacInvariant, TLAPS

----------------------------------------------------------------------------
(* The two nodes, and the kinds of records.                                *)

LEMMA TwoNodes ==
    \A n \in Node : /\ Peer(n) \in Node
                    /\ Peer(n) # n
                    /\ Peer(Peer(n)) = n
                    /\ Node = {n, Peer(n)}
BY DEF Node, Peer

\* The six kinds of record by the fields they have.
LEMMA CpKinds ==
    ASSUME NEW s \in Counterparties
    PROVE  /\ s.st \in {"Absent", "New", "Creating", "OtherCreating", "ReDrawing",
                        "OtherReDrawing", "Open"}
           /\ s.st = "Absent" => s = Absent
           /\ s.st = "New" => s = New
           /\ s.st = "Creating" => s = Creating(s.tx) /\ s.tx \in NewChannelTxs
           /\ s.st = "OtherCreating" => s = OtherCreating(s.tx) /\ s.tx \in NewChannelTxs
           /\ s.st = "ReDrawing" => s = ReDrawing(s.ch, s.tx) /\ s.ch \in Channels
                                    /\ s.tx \in ReDrawTxs
           /\ s.st = "OtherReDrawing" => s = OtherReDrawing(s.ch, s.tx) /\ s.ch \in Channels
                                         /\ s.tx \in ReDrawTxs
           /\ s.st = "Open" => s = Open(s.ch) /\ s.ch \in Channels
BY DEF Counterparties, Absent, New, Creating, OtherCreating, ReDrawing, OtherReDrawing, Open

\* Each kind of record that a step stores is well typed.
LEMMA CpTypes ==
    /\ Absent \in Counterparties /\ New \in Counterparties
    /\ \A tx \in NewChannelTxs :
           Creating(tx) \in Counterparties /\ OtherCreating(tx) \in Counterparties
    /\ \A ch \in Channels : Open(ch) \in Counterparties
    /\ \A ch \in Channels, tx \in ReDrawTxs :
           ReDrawing(ch, tx) \in Counterparties /\ OtherReDrawing(ch, tx) \in Counterparties
BY DEF Counterparties, Absent, New, Creating, OtherCreating, ReDrawing, OtherReDrawing, Open

\* What a call under way has, by what it awaits.
LEMMA CallKinds ==
    ASSUME NEW c \in Calls
    PROVE  /\ c.pc \in {"idle", "send", "event"} \cup HttpCalls
           /\ c.pc = "idle" <=> c = Idle
           /\ c.pc # "idle" => c.op \in Nat /\ c.reply \in Replies
           /\ c.pc = "propose_channel" =>
                  c \in [pc : {"propose_channel"}, op : Nat, tx : NewChannelTxs, reply : Replies]
           /\ c.pc = "propose_re_draw" =>
                  c \in [pc : {"propose_re_draw"}, op : Nat, ch : Channels, tx : ReDrawTxs,
                         reply : Replies]
           /\ c.pc = "receive_payment" =>
                  c \in [pc : {"receive_payment"}, op : Nat, ch : Channels, amount : Nat,
                         reply : Replies]
           /\ c.pc \in {"send", "event"} \cup DOMAIN Notified =>
                  \/ /\ c.pc # "notify_re_draw"
                     /\ c \in [pc : {"send", "event", "notify_channel_opened"}, op : Nat,
                               tx : NewChannelTxs, reply : Replies]
                  \/ /\ c.pc # "notify_channel_opened"
                     /\ c \in [pc : {"send", "event", "notify_re_draw"}, op : Nat,
                               ch : Channels, tx : ReDrawTxs, reply : Replies]
BY DEF Calls, Idle, HttpCalls, Notified

\* What a request carries, by its kind.
LEMMA RequestKinds ==
    ASSUME NEW r \in Requests
    PROVE  /\ r.from \in Node /\ r.op \in Nat /\ r.live \in BOOLEAN
           /\ r.kind \in HttpCalls
           /\ r.kind = "propose_channel" => r.body \in NewChannelTxs
           /\ r.kind = "propose_re_draw" => r.body \in ReDrawTxs
           /\ r.kind = "receive_payment" => r.body \in UpdateTxs
           /\ r.kind \in DOMAIN Notified => r.body = <<>>
           /\ r = Request(r.from, r.op, r.kind, r.body, r.live)
           /\ r # NotServing
BY DEF Requests, HttpCalls, Notified, Request, NotServing

\* The state in which each notification is served.
LEMMA NotifiedKinds ==
    /\ DOMAIN Notified = {"notify_channel_opened", "notify_re_draw"}
    /\ Notified["notify_channel_opened"] = "OtherCreating"
    /\ Notified["notify_re_draw"] = "OtherReDrawing"
BY DEF Notified

----------------------------------------------------------------------------
(* A call goes on.                                                         *)

\* What a call under way, and with it its peer, is like.
LEMMA Under ==
    ASSUME IInv, NEW n \in Node
    PROVE  /\ cp[n] \in Counterparties /\ call[n] \in Calls
           /\ call[n] # Idle => srv[n] = NotServing
           /\ call[n].pc = "send" => call[n].reply = NoReply
           /\ ~Waiting(n) => Waiting(Peer(n))
BY TwoNodes, CallKinds DEF IInv, TypeOK, OneAnswered, CallMatches

\* The peer has signed: the call stores Creating or ReDrawing and sends.
LEMMA SignatureStep ==
    ASSUME IInv, NEW n \in Node, Signature(n)
    PROVE  IInv'
<1> DEFINE p == Peer(n)
<1>1. p \in Node /\ p # n /\ Peer(p) = n /\ Node = {n, p}
  BY TwoNodes
<1>2. cp \in [Node -> Counterparties] /\ call \in [Node -> Calls]
  BY DEF IInv, TypeOK
<1>3. PICK c \in Calls : c = call[n]
  BY <1>2
<1>4. c.pc \in Proposing /\ c.reply = Signed
  BY <1>3 DEF Signature, Proposing
<1>5. PICK d : d = [c EXCEPT !.pc = "send", !.reply = NoReply]
  OBVIOUS
<1>6. PICK s : s = IF c.pc = "propose_channel" THEN Creating(c.tx) ELSE ReDrawing(c.ch, c.tx)
  OBVIOUS
<1>7. cp' = [cp EXCEPT ![n] = s] /\ call' = [call EXCEPT ![n] = d]
      /\ UNCHANGED <<srv, net, pool, chain, user>>
  BY <1>3, <1>5, <1>6, Zenon DEF Signature, blockchain
<1>8. /\ d \in Calls /\ d.pc = "send" /\ d.reply = NoReply /\ d.tx = c.tx /\ d.op = c.op
      /\ c.pc = "propose_re_draw" => d.ch = c.ch
      /\ d # Idle
  <2>1. CASE c.pc = "propose_channel"
    BY <1>5, <2>1, CallKinds DEF Calls, Replies, Idle
  <2>2. CASE c.pc = "propose_re_draw"
    BY <1>5, <2>2, CallKinds DEF Calls, Replies, Idle
  <2> QED
    BY <1>4, <2>1, <2>2 DEF Proposing
<1>9. s \in Counterparties
  BY <1>4, <1>6, CallKinds, CpTypes DEF Proposing
<1>10. TypeOK'
  <2>1. srv[n] = NotServing
    BY <1>1, <1>3, <1>4, CallKinds DEF IInv, TypeOK, Proposing
  <2> QED
    BY <1>1, <1>2, <1>7, <1>8, <1>9, <2>1 DEF IInv, TypeOK, user
<1>11. /\ cp'[n] = s /\ cp'[p] = cp[p] /\ call'[n] = d /\ call'[p] = call[p]
       /\ srv[n] = NotServing
  BY <1>1, <1>2, <1>3, <1>4, <1>7, CallKinds DEF IInv, TypeOK, Proposing
<1>12. CASE c.pc = "propose_channel"
  <2>1. cp[n] = New /\ cp[p] = OtherCreating(c.tx) /\ s = Creating(c.tx)
    BY <1>3, <1>4, <1>6, <1>12 DEF IInv, CallMatches, AnswerMeans
  <2>2. call[p] = Idle
    BY <1>1, <1>2, <2>1, CallKinds DEF IInv, CallMatches, New, OtherCreating, Open, Creating, ReDrawing, HttpCalls, Notified
  <2>3. RequestsOK'
    <3>1. InFlight' = InFlight
      BY <1>7 DEF InFlight, Handled
    <3>2. ASSUME NEW r \in InFlight
          PROVE  (OfCall(r) /\ InReach(r) /\ Covered(r) /\ Announced(r))'
      <4>1. OfCall(r) /\ InReach(r) /\ Covered(r) /\ Announced(r) /\ r.from \in {n, p}
        BY <1>1, RequestKinds DEF IInv, RequestsOK, InFlight, Handled, TypeOK
      <4>2. OfCall(r)'
        BY <1>3, <1>4, <1>11, <4>1 DEF OfCall, Signed, NoReply
      <4>3. InReach(r)' /\ Covered(r)'
        BY <1>1, <1>11, <2>1, <4>1 DEF InReach, Covered, Outdated, Numbered, HasChannel, New, Creating, OtherCreating
      <4>4. Announced(r)'
        BY <1>1, <1>11, <2>1, <4>1 DEF Announced, New, Creating, OtherCreating
      <4> QED
        BY <4>2, <4>3, <4>4
    <3> QED
      BY <3>1, <3>2 DEF RequestsOK
  <2>4. OneAnswered'
    BY <1>1, <1>11, <2>2 DEF OneAnswered, Waiting
  <2>5. HandlersOK'
    BY <1>7 DEF IInv, HandlersOK
  <2>6. ~chain.open /\ chain.mined = {} /\ pool = {}
    BY <1>1, <2>1 DEF IInv, ChainOK, PoolOK, TypeOK, Transactions, Settling, New, OtherCreating
  <2>7. CallMatches(n)' /\ CallMatches(p)'
    BY <1>7, <1>8, <1>11, <2>1, <2>2, <2>6 DEF CallMatches, Settlement, Settled, Notified, HttpCalls, Idle, Creating
  <2>8. AnswerMeans(n)' /\ AnswerMeans(p)'
    BY <1>8, <1>11, <2>2 DEF AnswerMeans, Idle, Notified, NoReply
  <2>9. SignedOK(n)' /\ SignedOK(p)' /\ ReDrawingOK(n)' /\ ReDrawingOK(p)' /\ CreatingOK(p)'
    BY <1>1, <1>11, <2>1 DEF SignedOK, ReDrawingOK, CreatingOK, Creating, OtherCreating
  <2>10. CreatingOK(n)'
    BY <1>1, <1>7, <1>11, <2>1, <2>6 DEF CreatingOK, Creating, Settled
  <2>11. PeerBlocked(n)' /\ PeerBlocked(p)'
    BY <1>1, <1>11, <2>1, <2>2 DEF PeerBlocked, Settling, OtherCreating
  <2>12. (PoolOK /\ ChainOK /\ SeqOK /\ FundsBacked /\ OwnShareLeast)'
    BY <1>1, <1>7, <1>11, <2>1, <2>6
       DEF PoolOK, ChainOK, SeqOK, FundsBacked, OwnShareLeast, Creating, OtherCreating, HasChannel
  <2> QED
    BY <1>1, <1>10, <2>3, <2>4, <2>5, <2>7, <2>8, <2>9, <2>10, <2>11, <2>12 DEF IInv
<1>13. CASE c.pc = "propose_re_draw"
  <2>1. /\ cp[n] = Open(c.ch) /\ s = ReDrawing(c.ch, c.tx)
        /\ cp[p].st = "OtherReDrawing" /\ cp[p].tx = c.tx
        /\ c.tx.seq = c.ch.seq + 1 /\ c.tx.old = c.ch.bal /\ NoneAbove(n, c.tx.seq)
        /\ c.ch \in Channels /\ c.tx \in ReDrawTxs
    BY <1>3, <1>4, <1>6, <1>13, CallKinds DEF IInv, CallMatches, AnswerMeans
  <2>2. call[p] = Idle
    BY <1>1, <1>2, <2>1, CallKinds DEF IInv, CallMatches, New, OtherCreating, Open, Creating, ReDrawing, HttpCalls, Notified
  <2>3. RequestsOK'
    <3>1. InFlight' = InFlight
      BY <1>7 DEF InFlight, Handled
    <3>2. ASSUME NEW r \in InFlight
          PROVE  (OfCall(r) /\ InReach(r) /\ Covered(r) /\ Announced(r))'
      <4>1. OfCall(r) /\ InReach(r) /\ Covered(r) /\ Announced(r) /\ r.from \in {n, p}
        BY <1>1, RequestKinds DEF IInv, RequestsOK, InFlight, Handled, TypeOK
      <4>2. OfCall(r)'
        BY <1>3, <1>4, <1>11, <4>1 DEF OfCall, Signed, NoReply
      <4>3. InReach(r)' /\ Covered(r)'
        BY <1>1, <1>11, <2>1, <4>1 DEF InReach, Covered, Outdated, Numbered, HasChannel, Open, ReDrawing
      <4>4. Announced(r)'
        BY <1>1, <1>11, <2>1, <4>1 DEF Announced, Open, ReDrawing
      <4> QED
        BY <4>2, <4>3, <4>4
    <3> QED
      BY <3>1, <3>2 DEF RequestsOK
  <2>4. OneAnswered'
    BY <1>1, <1>11, <2>2 DEF OneAnswered, Waiting
  <2>5. HandlersOK'
    BY <1>7 DEF IInv, HandlersOK
  <2>6. /\ chain.open /\ Total(c.tx.old) = chain.total /\ chain.seq < c.tx.seq
        /\ [by |-> n, tx |-> c.tx] \notin chain.mined /\ pool = {}
    <3>1. cp[p].ch \in Channels /\ cp[p].ch.seq < c.tx.seq
      BY <1>1, <1>2, <2>1, CpKinds DEF IInv, SignedOK, ReDrawTxs, Channels
    <3>2. chain.seq < c.tx.seq
      BY <1>1, <2>1, <3>1 DEF IInv, SeqOK, TypeOK, HasChannel, Open, Channels, ReDrawTxs
    <3>3. "seq" \in DOMAIN c.tx /\ chain.seq \in Nat /\ c.tx.seq \in Nat
      BY <2>1 DEF ReDrawTxs, IInv, TypeOK
    <3>4. [by |-> n, tx |-> c.tx] \notin chain.mined
      BY <3>2, <3>3 DEF IInv, ChainOK, IsReDraw
    <3>5. chain.open /\ Total(c.tx.old) = chain.total
      BY <2>1 DEF IInv, FundsBacked, Open
    <3>6. pool = {}
      BY <1>1, <2>1 DEF IInv, PoolOK, TypeOK, Transactions, Settling, Open
    <3> QED
      BY <3>2, <3>4, <3>5, <3>6
  <2>7. CallMatches(n)' /\ CallMatches(p)'
    BY <1>7, <1>8, <1>11, <1>13, <2>1, <2>2, <2>6 DEF CallMatches, Settlement, Settled, Notified, HttpCalls, Idle, ReDrawing
  <2>8. AnswerMeans(n)' /\ AnswerMeans(p)'
    BY <1>8, <1>11, <2>2 DEF AnswerMeans, Idle, Notified, NoReply
  <2>9. SignedOK(n)' /\ SignedOK(p)' /\ CreatingOK(n)' /\ ReDrawingOK(p)' /\ CreatingOK(p)'
    BY <1>1, <1>11, <2>1 DEF IInv, SignedOK, ReDrawingOK, CreatingOK, ReDrawing
  <2>10. ReDrawingOK(n)'
    BY <1>1, <1>7, <1>11, <2>1, <2>6 DEF ReDrawingOK, ReDrawing, Settlement, Settled, NoneAbove
  <2>11. PeerBlocked(n)' /\ PeerBlocked(p)'
    BY <1>1, <1>11, <2>1, <2>2 DEF PeerBlocked, Settling
  <2>12. (PoolOK /\ ChainOK /\ SeqOK /\ FundsBacked /\ OwnShareLeast)'
    BY <1>1, <1>7, <1>11, <2>1, <2>6
       DEF IInv, PoolOK, ChainOK, SeqOK, FundsBacked, OwnShareLeast, ReDrawing, HasChannel
  <2> QED
    BY <1>1, <1>10, <2>3, <2>4, <2>5, <2>7, <2>8, <2>9, <2>10, <2>11, <2>12 DEF IInv
<1> QED
  BY <1>4, <1>12, <1>13 DEF Proposing

\* A settlement names its sender.
LEMMA Senders ==
    ASSUME IInv
    PROVE  \A t \in pool : t.by \in Node
BY DEF IInv, TypeOK, Transactions

\* An answer changes nothing else of a call.
LEMMA Replied ==
    ASSUME NEW c \in Calls, c # Idle, NEW y \in Replies
    PROVE  LET d == [c EXCEPT !.reply = y]
           IN  /\ d \in Calls /\ d # Idle /\ d.pc = c.pc /\ d.op = c.op /\ d.reply = y
               /\ c.pc # "receive_payment" => d.tx = c.tx
               /\ c.pc = "receive_payment" => d.ch = c.ch /\ d.amount = c.amount
               /\ c.pc # "receive_payment" /\ c.tx \in ReDrawTxs => d.ch = c.ch
<1> DEFINE d == [c EXCEPT !.reply = y]
<1>1. CASE c.pc = "receive_payment"
  BY <1>1, CallKinds DEF Calls, Idle
<1>2. CASE c \in [pc : {"propose_channel", "send", "event", "notify_channel_opened"},
                  op : Nat, tx : NewChannelTxs, reply : Replies]
  <2>1. c.tx \notin ReDrawTxs
    BY <1>2 DEF NewChannelTxs, ReDrawTxs
  <2> QED
    BY <1>2, <2>1 DEF Calls, Idle
<1>3. CASE c \in [pc : {"propose_re_draw", "send", "event", "notify_re_draw"},
                  op : Nat, ch : Channels, tx : ReDrawTxs, reply : Replies]
  BY <1>3 DEF Calls, Idle
<1> QED
  BY <1>1, <1>2, <1>3 DEF Calls

----------------------------------------------------------------------------
(* A call ends, or is refused, and the counterparties stay as they are.    *)

\* A call has one request whose answer it awaits.
LEMMA OneRequest ==
    ASSUME IInv, NEW r \in InFlight, NEW q \in InFlight,
           r.live, q.live, r.from = q.from
    PROVE  q = r
<1>1. r \in Requests /\ q \in Requests
  BY DEF IInv, TypeOK, InFlight, Handled
<1>2. OfCall(r) /\ OfCall(q)
  BY DEF IInv, RequestsOK
<1>3. r.kind = q.kind /\ r.op = q.op /\ r.body = q.body
  BY <1>1, <1>2, RequestKinds DEF OfCall, Proposing, HttpCalls, Notified
<1> QED
  BY <1>1, <1>3, RequestKinds DEF Request

\* r is q, or what is left of q when its sender gives up.
Same(r, q) ==
    /\ r.from = q.from /\ r.op = q.op /\ r.kind = q.kind /\ r.body = q.body
    /\ r.live => q.live

\* Of n's numbered requests no new one is on its way.
NoneNew(n) ==
    \A r \in net' : r.from = n => \E q \in net : Same(r, q)

\* n's call is over, or its peer refuses what it asks, or it does not care.
Over(n) ==
    \/ call' = [call EXCEPT ![n] = Idle]
    \/ /\ call' = [call EXCEPT ![n] = [@ EXCEPT !.reply = Refused]]
       /\ call[n].pc \in HttpCalls
       /\ call[n].reply = NoReply
       /\ call[Peer(n)] = Idle
    \/ call' = call /\ pool' = pool /\ NoneNew(n)

\* A counterparty that was not there is stored as New.
Stored(p) ==
    \/ cp' = cp
    \/ cp[p] = Absent /\ call[p] = Idle /\ cp' = [cp EXCEPT ![p] = New]

\* n's call ends or is refused and no channel changes: IInv needs only its parts
\* about types, requests, handlers and the pool.
LEMMA CallOver ==
    ASSUME IInv, NEW n \in Node, Over(n), Stored(Peer(n)), chain' = chain,
           TypeOK', HandlersOK', RequestsOK', PoolOK', pool' \subseteq pool \cup {Settlement(n)},
           NoneNew(Peer(n)), NoneNew(n) \/ cp[n].st # "ReDrawing"
    PROVE  IInv'
<1> DEFINE p == Peer(n)
<1>1. p \in Node /\ p # n /\ Peer(p) = n /\ Node = {n, p}
  BY TwoNodes
<1>2. cp \in [Node -> Counterparties] /\ call \in [Node -> Calls]
  BY DEF IInv, TypeOK
<1>3. PICK c \in Calls : c = call[n]
  BY <1>2
<1>4. PICK d : d = call'[n]
  OBVIOUS
<1>5. /\ call'[n] = d /\ call'[p] = call[p]
      /\ \/ d = Idle
         \/ /\ d.pc = c.pc /\ d.pc \in HttpCalls /\ d.reply = Refused
            /\ c.pc # "receive_payment" => d.tx = c.tx
            /\ c.pc = "receive_payment" => d.ch = c.ch /\ d.amount = c.amount
            /\ c.pc # "receive_payment" /\ c.tx \in ReDrawTxs => d.ch = c.ch
            /\ c.reply = NoReply
            /\ call[p] = Idle
         \/ d = c /\ pool' = pool /\ NoneNew(n)
  <2>1. CASE call' = [call EXCEPT ![n] = Idle]
    BY <1>1, <1>2, <1>4, <2>1
  <2>2. CASE /\ call' = [call EXCEPT ![n] = [@ EXCEPT !.reply = Refused]]
             /\ call[n].pc \in HttpCalls
             /\ call[n].reply = NoReply
             /\ call[Peer(n)] = Idle
    <3>1. PICK e : e = [c EXCEPT !.reply = Refused]
      OBVIOUS
    <3>2. call' = [call EXCEPT ![n] = e]
      BY <1>3, <2>2, <3>1, Zenon
    <3>3. c # Idle /\ Refused \in Replies
      BY <1>3, <2>2 DEF Idle, HttpCalls, Replies
    <3> QED
      BY <1>1, <1>2, <1>3, <1>4, <2>2, <3>1, <3>2, <3>3, Replied
  <2> QED
    BY <1>3, <1>4, <2>1, <2>2 DEF Over
<1>6. /\ cp'[n] = cp[n]
      /\ cp'[p] = cp[p] \/ (cp[p] = Absent /\ call[p] = Idle /\ cp'[p] = New)
  BY <1>1, <1>2 DEF Stored
<1>7. cp[n] \in Counterparties /\ cp[p] \in Counterparties
  BY <1>1, <1>2
<1>8. OneAnswered'
  BY <1>1, <1>3, <1>5 DEF IInv, OneAnswered, Waiting
<1>9. CallMatches(p)'
  BY <1>1, <1>5, <1>6
     DEF IInv, CallMatches, Idle, Notified, Settlement, Settled
<1>10. CallMatches(n)'
  <2>1. CASE d = Idle
    BY <1>5, <2>1 DEF CallMatches, Idle, Notified
  <2>2. CASE d # Idle /\ d # c
    <3>1. CASE c.pc \in DOMAIN Notified
      <4>1. c.tx \in ReDrawTxs \/ cp[n] = Creating(c.tx)
        BY <1>1, <1>3, <1>7, <3>1, CpKinds DEF IInv, CallMatches, ReDrawing
      <4> QED
        BY <1>1, <1>3, <1>5, <1>6, <2>2, <3>1, <4>1
           DEF IInv, CallMatches, Settlement, Settled, Notified, ReDrawing, Creating
    <3>2. CASE c.pc \in Asking
      <4>1. c.pc = "propose_re_draw" => c.tx \in ReDrawTxs
        BY CallKinds
      <4> QED
        BY <1>1, <1>3, <1>5, <1>6, <2>2, <3>2, <4>1
           DEF IInv, CallMatches, Notified, Asking, Proposing, NoReply, Signed, Refused
    <3> QED
      BY <1>5, <2>2, <3>1, <3>2 DEF HttpCalls, Asking, Proposing, Notified
  <2>3. CASE d = c /\ d # Idle
    <3>1. pool' = pool
      BY <1>5, <2>3 DEF NoReply, Refused
    <3> QED
      BY <1>1, <1>3, <1>5, <1>6, <2>3, <3>1
         DEF IInv, CallMatches, Idle, Notified, Settlement, Settled
  <2> QED
    BY <2>1, <2>2, <2>3
<1>11. /\ \A s : NoneAbove(p, s) => NoneAbove(p, s)'
       /\ cp[n].st = "ReDrawing" => \A s : NoneAbove(n, s) => NoneAbove(n, s)'
  BY <1>1 DEF NoneNew, NoneAbove, Numbered, Same
<1>12. AnswerMeans(n)'
  <2>1. CASE d = c /\ NoneNew(n)
    <3>1. \A s : NoneAbove(n, s) => NoneAbove(n, s)'
      BY <2>1 DEF NoneNew, NoneAbove, Numbered, Same
    <3>2. cp'[p] = cp[p] \/ (cp[p].st = "Absent" /\ cp'[p].st = "New")
      BY <1>6 DEF Absent, New
    <3> QED
      BY <1>1, <1>3, <1>5, <2>1, <3>1, <3>2
         DEF IInv, AnswerMeans, OtherCreating, HasChannel
  <2>2. CASE ~(d = c /\ NoneNew(n))
    BY <1>5, <2>2 DEF AnswerMeans, Idle, Notified, NoReply, Refused, Done, Signed
  <2> QED
    BY <2>1, <2>2
<1>13. AnswerMeans(p)'
  BY <1>1, <1>5, <1>6, <1>11 DEF IInv, AnswerMeans, Idle, Notified
<1>14. SignedOK(n)' /\ SignedOK(p)'
  BY <1>1, <1>6 DEF IInv, SignedOK, New
<1>15. CreatingOK(n)' /\ CreatingOK(p)'
  <2>1. cp[p] = cp'[p] \/ (cp[n].st # "Creating" /\ cp'[p].st # "Creating")
    BY <1>1, <1>6 DEF IInv, CreatingOK, New, Absent, Open, OtherCreating
  <2> QED
    BY <1>1, <1>6, <2>1 DEF IInv, CreatingOK, Settlement, Settled
<1>16. ReDrawingOK(n)' /\ ReDrawingOK(p)'
  <2>1. cp[p] = cp'[p] \/ (cp[n].st # "ReDrawing" /\ cp'[p].st # "ReDrawing")
    BY <1>1, <1>6 DEF IInv, ReDrawingOK, New, Absent, Open, OtherCreating
  <2> QED
    BY <1>1, <1>6, <1>11, <2>1 DEF IInv, ReDrawingOK, Settlement, Settled
<1>17. PeerBlocked(n)' /\ PeerBlocked(p)'
  <2>1. Settling(n)' = Settling(n) /\ Settling(p)' = Settling(p)
    BY <1>6 DEF Settling, New, Absent
  <2> QED
    BY <1>1, <1>3, <1>5, <2>1 DEF IInv, PeerBlocked, Idle
<1>18. cp'[p] = cp[p] \/ (cp[p].st = "Absent" /\ cp'[p].st = "New")
  BY <1>6 DEF Absent, New
<1>19. ChainOK'
  BY <1>1, <1>6, <1>18 DEF IInv, ChainOK, HasChannel, IsReDraw
<1>20. SeqOK' /\ FundsBacked' /\ OwnShareLeast'
  <2>1. SeqOK'
    BY <1>1, <1>6, <1>18 DEF IInv, SeqOK, HasChannel
  <2>2. FundsBacked'
    BY <1>1, <1>6, <1>18 DEF IInv, FundsBacked
  <2>3. OwnShareLeast'
    BY <1>1, <1>6, <1>18 DEF IInv, OwnShareLeast
  <2> QED
    BY <2>1, <2>2, <2>3
<1> QED
  BY <1>1, <1>8, <1>9, <1>10, <1>12, <1>13, <1>14, <1>15, <1>16, <1>17, <1>19, <1>20 DEF IInv

\* Its requests are gone, answered, or go on alone.
Left(n) ==
    \A r \in InFlight' :
        /\ r.from = n => ~r.live \/ call' = call
        /\ \/ r \in InFlight
           \/ r.from = n /\ call'[n] = Idle /\ \E q \in InFlight : Same(r, q)

\* Of them the part about requests: those of n may outlive the call.
LEMMA RequestsOver ==
    ASSUME IInv, NEW n \in Node, Over(n), Stored(Peer(n)), chain' = chain, Left(n)
    PROVE  RequestsOK'
<1> DEFINE p == Peer(n)
<1>1. p \in Node /\ p # n /\ Peer(p) = n /\ Node = {n, p}
  BY TwoNodes
<1>2. cp \in [Node -> Counterparties] /\ call \in [Node -> Calls]
  BY DEF IInv, TypeOK
<1>3. call'[p] = call[p] /\ (call[n] = Idle => call'[n] = Idle)
  BY <1>1, <1>2 DEF Over, HttpCalls, Idle
<1>4. /\ cp'[n] = cp[n]
      /\ cp'[p] = cp[p] \/ (cp[p].st = "Absent" /\ cp'[p].st = "New")
  BY <1>1, <1>2 DEF Stored, Absent, New
<1>5. ASSUME NEW r \in InFlight'
      PROVE  (OfCall(r) /\ InReach(r) /\ Covered(r) /\ Announced(r))'
  <2>1. PICK q \in InFlight : Same(r, q) /\ (r.from = p \/ call'[n] # Idle => r = q)
    BY <1>1 DEF Left, Same
  <2>2. OfCall(q) /\ InReach(q) /\ Covered(q) /\ Announced(q) /\ q.from \in {n, p}
    BY <1>1, RequestKinds DEF IInv, RequestsOK, InFlight, Handled, TypeOK
  <2>3. OfCall(r)'
    BY <1>1, <1>3, <2>1, <2>2 DEF OfCall, Left, Same
  <2>4. InReach(r)' /\ Covered(r)'
    BY <1>1, <1>4, <2>1, <2>2 DEF InReach, Covered, Outdated, Numbered, HasChannel, Same
  <2>5. Announced(r)'
    BY <1>1, <1>3, <1>4, <2>1, <2>2 DEF Announced, Left, Same, Settled, Settlement
  <2> QED
    BY <2>3, <2>4, <2>5
<1> QED
  BY <1>5 DEF RequestsOK

----------------------------------------------------------------------------
(* A handler answers.                                                      *)

\* The request r is handled: as it comes off the net, or when its handler is
\* done with what it awaits.
Gone(r) ==
    \/ r \in net /\ Free(Peer(r.from)) /\ net' = net \ {r} /\ srv' = srv
    \/ /\ srv[Peer(r.from)] = r
       /\ srv' = [srv EXCEPT ![Peer(r.from)] = NotServing]
       /\ net' = net

\* A request handled is gone, and no other of its call is live.
LEMMA HandledOnce ==
    ASSUME IInv, NEW r \in Requests, Gone(r)
    PROVE  /\ r \in InFlight /\ net' \subseteq net /\ InFlight' \subseteq InFlight
           /\ r.live => \A q \in InFlight' : q.from = r.from => ~q.live
           /\ call[Peer(r.from)] = Idle /\ srv'[Peer(r.from)] = NotServing
           /\ srv' \in [Node -> Requests \cup {NotServing}]
           /\ \A n \in Node : srv'[n] # NotServing => srv'[n] = srv[n]
           /\ HandlersOK'
<1> DEFINE n == r.from
           p == Peer(n)
<1>1. n \in Node /\ p \in Node /\ p # n /\ Peer(p) = n /\ Node = {n, p}
  BY TwoNodes, RequestKinds
<1>2. srv \in [Node -> Requests \cup {NotServing}] /\ net \subseteq Requests
      /\ NotServing \notin Requests
  BY RequestKinds DEF IInv, TypeOK
<1>3. r # NotServing /\ r \in InFlight
  BY <1>1, <1>2 DEF Gone, InFlight, Handled
<1>4. /\ net' \subseteq net
      /\ srv' \in [Node -> Requests \cup {NotServing}]
      /\ \A m \in Node : srv'[m] # NotServing => srv'[m] = srv[m]
      /\ srv'[p] = NotServing
  BY <1>1, <1>2 DEF Gone, Free
<1>5. InFlight' \subseteq InFlight
  BY <1>4 DEF InFlight, Handled
<1>6. r.live => r \notin InFlight'
  BY <1>1, <1>2, <1>4 DEF IInv, HandlersOK, Gone, InFlight, Handled
<1>7. r.live => \A q \in InFlight' : q.from = n => ~q.live
  BY <1>3, <1>5, <1>6, OneRequest
<1>8. call[p] = Idle
  BY <1>1, <1>3 DEF Gone, Free, IInv, TypeOK
<1>9. HandlersOK'
  BY <1>4 DEF IInv, HandlersOK
<1> QED
  BY <1>3, <1>4, <1>5, <1>7, <1>8, <1>9

\* What is known of the sender of r.
LEMMA Sender ==
    ASSUME IInv, NEW r \in InFlight
    PROVE  /\ r \in Requests
           /\ OfCall(r) /\ InReach(r) /\ Covered(r) /\ Announced(r)
           /\ r.live => call[r.from] # Idle /\ call[r.from].pc \in HttpCalls
<1>1. r \in Requests
  BY DEF IInv, TypeOK, InFlight, Handled
<1>2. OfCall(r) /\ InReach(r) /\ Covered(r) /\ Announced(r)
  BY DEF IInv, RequestsOK
<1> QED
  BY <1>1, <1>2, RequestKinds DEF OfCall, Idle, HttpCalls

\* r is answered with y, and its handler leaves the counterparty as s.
Answered(r, s, y) ==
    /\ Gone(r)
    /\ cp' = [cp EXCEPT ![Peer(r.from)] = s]
    /\ Answer(r, y)
    /\ UNCHANGED <<blockchain, user>>

\* A handler's answer keeps every type.
LEMMA AnsweredTypes ==
    ASSUME IInv, NEW r \in Requests, NEW s \in Counterparties, NEW y \in Replies,
           Answered(r, s, y)
    PROVE  /\ TypeOK'
           /\ cp'[r.from] = cp[r.from] /\ cp'[Peer(r.from)] = s
           /\ call'[Peer(r.from)] = Idle /\ call[Peer(r.from)] = Idle
           /\ \E c \in Calls, d \in Calls :
                  /\ c = call[r.from] /\ d = call'[r.from]
                  /\ ~r.live => d = c
                  /\ r.live =>
                         /\ c.pc = r.kind /\ c.op = r.op /\ c.reply = NoReply
                         /\ c.pc \in Proposing => r.body = c.tx
                         /\ c.pc = "receive_payment" => r.body = UpdateOf(c.ch)
                         /\ d.pc = c.pc /\ d.op = c.op /\ d.reply = y
                         /\ c.pc # "receive_payment" => d.tx = c.tx
                         /\ c.pc = "receive_payment" => d.ch = c.ch /\ d.amount = c.amount
                         /\ c.pc # "receive_payment" /\ c.tx \in ReDrawTxs => d.ch = c.ch
<1> DEFINE n == r.from
           p == Peer(n)
<1>1. n \in Node /\ p \in Node /\ p # n /\ Peer(p) = n /\ Node = {n, p}
  BY TwoNodes, RequestKinds
<1>2. cp \in [Node -> Counterparties] /\ call \in [Node -> Calls]
  BY DEF IInv, TypeOK
<1>3. r \in InFlight /\ call[p] = Idle /\ srv'[p] = NotServing
      /\ srv' \in [Node -> Requests \cup {NotServing}] /\ net' \subseteq net
      /\ \A m \in Node : srv'[m] # NotServing => srv'[m] = srv[m]
  BY HandledOnce DEF Answered
<1>4. OfCall(r) /\ (r.live => call[n] # Idle)
  BY <1>3, Sender
<1>5. PICK c \in Calls : c = call[n]
  BY <1>1, <1>2
<1>6. PICK e : e = [c EXCEPT !.reply = y]
  OBVIOUS
<1>7. call' = IF r.live THEN [call EXCEPT ![n] = e] ELSE call
  BY <1>5, <1>6, Zenon DEF Answered, Answer
<1>8. call' \in [Node -> Calls] /\ call'[p] = Idle
      /\ call'[n] = IF r.live THEN e ELSE c
  BY <1>1, <1>2, <1>3, <1>4, <1>5, <1>6, <1>7, Replied
<1>9. cp' \in [Node -> Counterparties] /\ cp'[n] = cp[n] /\ cp'[p] = s
  BY <1>1, <1>2 DEF Answered
<1>10. TypeOK'
  <2>1. srv'[n] # NotServing => ~r.live
    BY <1>1, <1>3, <1>4 DEF IInv, TypeOK
  <2> QED
    BY <1>1, <1>3, <1>5, <1>8, <1>9, <2>1 DEF Answered, IInv, TypeOK, blockchain, user
<1>11. PICK d \in Calls : d = call'[n]
  BY <1>1, <1>8
<1>12. r.live =>
          /\ c # Idle /\ d = [c EXCEPT !.reply = y]
          /\ c.pc = r.kind /\ c.op = r.op /\ c.reply = NoReply
          /\ c.pc \in Proposing => r.body = c.tx
          /\ c.pc = "receive_payment" => r.body = UpdateOf(c.ch)
  BY <1>4, <1>5, <1>6, <1>8, <1>11 DEF OfCall
<1>13. ~r.live => d = c
  BY <1>8, <1>11
<1>14. r.live =>
          /\ d.pc = c.pc /\ d.op = c.op /\ d.reply = y
          /\ c.pc # "receive_payment" => d.tx = c.tx
          /\ c.pc = "receive_payment" => d.ch = c.ch /\ d.amount = c.amount
          /\ c.pc # "receive_payment" /\ c.tx \in ReDrawTxs => d.ch = c.ch
  <2> SUFFICES ASSUME r.live
               PROVE  /\ d.pc = c.pc /\ d.op = c.op /\ d.reply = y
                      /\ c.pc # "receive_payment" => d.tx = c.tx
                      /\ c.pc = "receive_payment" => d.ch = c.ch /\ d.amount = c.amount
                      /\ c.pc # "receive_payment" /\ c.tx \in ReDrawTxs => d.ch = c.ch
    OBVIOUS
  <2>1. c # Idle /\ d = [c EXCEPT !.reply = y]
    BY <1>12
  <2> QED
    BY <2>1, Replied
<1> QED
  BY <1>3, <1>5, <1>9, <1>8, <1>10, <1>11, <1>12, <1>13, <1>14, Zenon

\* What an answer does, and leaves alone.
LEMMA AnsweredEffect ==
    ASSUME IInv, NEW r \in Requests, NEW s \in Counterparties, NEW y \in Replies,
           Answered(r, s, y)
    PROVE  /\ cp'[r.from] = cp[r.from] /\ cp'[Peer(r.from)] = s
           /\ call[Peer(r.from)] = Idle
           /\ TypeOK' /\ HandlersOK'
           /\ UNCHANGED <<pool, chain>>
           /\ r \in InFlight /\ InFlight' \subseteq InFlight /\ net' \subseteq net
<1>1. Gone(r) /\ UNCHANGED <<pool, chain>>
  BY DEF Answered, blockchain
<1>2. HandlersOK' /\ r \in InFlight /\ InFlight' \subseteq InFlight /\ net' \subseteq net
  BY <1>1, HandledOnce
<1>3. /\ cp'[r.from] = cp[r.from] /\ cp'[Peer(r.from)] = s
      /\ call[Peer(r.from)] = Idle /\ TypeOK'
  BY AnsweredTypes
<1> QED
  BY <1>1, <1>2, <1>3

\* A handler that answers with an error changes no record.
LEMMA RefusedStep ==
    ASSUME IInv, NEW r \in Requests, NEW s, Answered(r, s, Refused),
           s = cp[Peer(r.from)] \/ (cp[Peer(r.from)] = Absent /\ s = New)
    PROVE  IInv'
<1> DEFINE n == r.from
           p == Peer(n)
<1>1. n \in Node /\ p \in Node /\ p # n /\ Peer(p) = n /\ Node = {n, p}
  BY TwoNodes, RequestKinds
<1>2. cp \in [Node -> Counterparties] /\ call \in [Node -> Calls] /\ s \in Counterparties
      /\ Refused \in Replies
  BY <1>1, CpTypes DEF IInv, TypeOK, Replies
<1>3. /\ r \in InFlight /\ net' \subseteq net /\ InFlight' \subseteq InFlight
      /\ r.live => \A q \in InFlight' : q.from = n => ~q.live
      /\ call[p] = Idle /\ HandlersOK'
  BY HandledOnce DEF Answered
<1>4. Stored(p)
  BY <1>1, <1>2, <1>3 DEF Stored, Answered
<1>5. NoneNew(n) /\ NoneNew(p)
  BY <1>3 DEF NoneNew, Same
<1>6. Over(n)
  <2>1. CASE r.live
    <3>1. call' = [call EXCEPT ![n] = [@ EXCEPT !.reply = Refused]]
      BY <2>1, Zenon DEF Answered, Answer
    <3>2. call[n].pc \in HttpCalls /\ call[n].reply = NoReply
      BY <1>3, <2>1, Sender DEF OfCall
    <3> QED
      BY <1>3, <3>1, <3>2, Zenon DEF Over
  <2>2. CASE ~r.live
    BY <1>5, <2>2 DEF Answered, Answer, Over, blockchain
  <2> QED
    BY <2>1, <2>2
<1>7. Left(n)
  BY <1>1, <1>3 DEF Left, Answered, Answer
<1>8. RequestsOK'
  BY <1>1, <1>4, <1>6, <1>7, RequestsOver DEF Answered, blockchain
<1>9. TypeOK'
  BY <1>2, AnsweredTypes
<1>10. PoolOK'
  <2>1. \A m \in Node : cp'[m] = cp[m] \/ ~Settling(m)
    BY <1>1, <1>2, <1>4 DEF Stored, Settling, Absent
  <2> QED
    BY <2>1 DEF IInv, TypeOK, PoolOK, Settling, Transactions, Answered, blockchain
<1> QED
  BY <1>1, <1>3, <1>4, <1>5, <1>6, <1>8, <1>9, <1>10, CallOver DEF Answered, blockchain

\* What an answer may be.
Fits(kind, y) ==
    /\ kind \in Proposing => y \in {Signed, Refused}
    /\ kind = "receive_payment" => y # Signed
    /\ kind \in DOMAIN Notified => y \in {Done, Refused}

\* The calls after a handler of p has answered and stored its record.
LEMMA AnsweredCalls ==
    ASSUME IInv, NEW r \in Requests, NEW s \in Counterparties, NEW y \in Replies,
           Answered(r, s, y), Fits(r.kind, y)
    PROVE  /\ OneAnswered'
           /\ CallMatches(r.from)' /\ CallMatches(Peer(r.from))'
           /\ AnswerMeans(Peer(r.from))'
           /\ PeerBlocked(r.from)'
           /\ \A q \in InFlight' :
                  /\ OfCall(q)'
                  /\ q.live \/ call[q.from] = Idle => q.live \/ call'[q.from] = Idle
<1> DEFINE n == r.from
           p == Peer(n)
<1>1. n \in Node /\ p \in Node /\ p # n /\ Peer(p) = n /\ Node = {n, p}
  BY TwoNodes, RequestKinds
<1>2. cp \in [Node -> Counterparties] /\ call \in [Node -> Calls]
  BY DEF IInv, TypeOK
<1>3. /\ r \in InFlight /\ InFlight' \subseteq InFlight
      /\ r.live => \A q \in InFlight' : q.from = n => ~q.live
  BY HandledOnce DEF Answered
<1>4. PICK c \in Calls, d \in Calls :
          /\ c = call[n] /\ d = call'[n]
          /\ ~r.live => d = c
          /\ r.live =>
                 /\ c.pc = r.kind /\ c.reply = NoReply
                 /\ d.pc = c.pc /\ d.op = c.op /\ d.reply = y
                 /\ c.pc # "receive_payment" => d.tx = c.tx
                 /\ c.pc = "receive_payment" => d.ch = c.ch /\ d.amount = c.amount
                 /\ c.pc # "receive_payment" /\ c.tx \in ReDrawTxs => d.ch = c.ch
  BY AnsweredTypes
<1>5. /\ cp'[n] = cp[n] /\ cp'[p] = s /\ call[p] = Idle /\ call'[p] = Idle
      /\ UNCHANGED <<pool, chain>>
  BY AnsweredTypes DEF Answered, blockchain
<1>6. OneAnswered'
  BY <1>1, <1>5 DEF OneAnswered, Waiting
<1>7. CallMatches(p)' /\ AnswerMeans(p)' /\ PeerBlocked(n)'
  BY <1>1, <1>5 DEF CallMatches, AnswerMeans, PeerBlocked, Idle, Notified
<1>8. CallMatches(n)'
  <2>1. CASE ~r.live
    BY <1>1, <1>4, <1>5, <2>1 DEF IInv, CallMatches, Settlement, Settled
  <2>2. CASE r.live /\ r.kind \in DOMAIN Notified
    <3>1. c.tx \in ReDrawTxs \/ cp[n] = Creating(c.tx)
      BY <1>1, <1>2, <1>4, <2>2, CpKinds DEF IInv, CallMatches, ReDrawing
    <3> QED
      BY <1>1, <1>4, <1>5, <2>2, <3>1
         DEF IInv, CallMatches, Settlement, Settled, Notified, ReDrawing, Creating, Fits
  <2>3. CASE r.live /\ r.kind \in Asking
    <3>1. c.pc = "propose_re_draw" => c.tx \in ReDrawTxs
      BY CallKinds
    <3> QED
      BY <1>1, <1>4, <1>5, <2>3, <3>1
         DEF IInv, CallMatches, Notified, Asking, Proposing, Fits
  <2> QED
    BY <2>1, <2>2, <2>3, RequestKinds DEF HttpCalls, Asking, Proposing, Notified
<1>9. ASSUME NEW q \in InFlight'
      PROVE  /\ OfCall(q)'
             /\ q.live \/ call[q.from] = Idle => q.live \/ call'[q.from] = Idle
  <2>1. OfCall(q) /\ q \in Requests /\ q.from \in {n, p}
    BY <1>1, <1>3, Sender, RequestKinds
  <2>2. OfCall(q)'
    BY <1>1, <1>3, <1>4, <1>5, <2>1 DEF OfCall
  <2>3. r.live => call[n] # Idle
    BY <1>3, Sender
  <2> QED
    BY <1>1, <1>3, <1>4, <1>5, <2>1, <2>2, <2>3
<1> QED
  BY <1>6, <1>7, <1>8, <1>9

\* propose_channel, accepted.
LEMMA AgreeStep ==
    ASSUME IInv, NEW r \in Requests, r.kind = "propose_channel",
           cp[Peer(r.from)].st \in {"Absent", "New"},
           Answered(r, OtherCreating(r.body), Signed)
    PROVE  IInv'
<1> DEFINE n == r.from
           p == Peer(n)
<1>1. n \in Node /\ p \in Node /\ p # n /\ Peer(p) = n /\ Node = {n, p}
  BY TwoNodes, RequestKinds
<1>2. PICK s \in Counterparties :
          s = OtherCreating(r.body) /\ s.st = "OtherCreating" /\ s.tx = r.body
  BY RequestKinds, CpTypes DEF OtherCreating
<1>3. Signed \in Replies /\ Answered(r, s, Signed) /\ Fits(r.kind, Signed)
  BY <1>2 DEF Replies, Fits, Proposing, Notified
<1>4. PICK c \in Calls, d \in Calls :
          /\ c = call[n] /\ d = call'[n]
          /\ ~r.live => d = c
          /\ r.live =>
                 /\ c.pc = r.kind /\ c.reply = NoReply
                 /\ d.pc = c.pc /\ d.op = c.op /\ d.reply = Signed
                 /\ r.body = c.tx /\ d.tx = c.tx
  BY <1>2, <1>3, AnsweredTypes DEF Proposing
<1>5. /\ cp'[n] = cp[n] /\ cp'[p] = s /\ call[p] = Idle
      /\ TypeOK' /\ HandlersOK'
      /\ UNCHANGED <<pool, chain>>
      /\ InFlight' \subseteq InFlight /\ net' \subseteq net
  BY <1>2, <1>3, AnsweredEffect
<1>6. RequestsOK'
  <2>1. ASSUME NEW q \in InFlight'
        PROVE  (OfCall(q) /\ InReach(q) /\ Covered(q) /\ Announced(q))'
    <3>1. OfCall(q)' /\ (q.live \/ call[q.from] = Idle => q.live \/ call'[q.from] = Idle)
      BY <1>2, <1>3, AnsweredCalls
    <3>2. InReach(q) /\ Covered(q) /\ Announced(q) /\ q.from \in {n, p}
      BY <1>1, <1>5, Sender, RequestKinds
    <3>3. InReach(q)' /\ Covered(q)'
      BY <1>1, <1>2, <1>5, <3>2 DEF InReach, Covered, Outdated, Numbered, HasChannel
    <3>4. Announced(q)'
      BY <1>1, <1>2, <1>5, <3>1, <3>2 DEF Announced, Settled, Settlement
    <3> QED
      BY <3>1, <3>3, <3>4
  <2> QED
    BY <2>1 DEF RequestsOK
<1>7. OneAnswered' /\ CallMatches(n)' /\ CallMatches(p)' /\ AnswerMeans(p)' /\ PeerBlocked(n)'
  BY <1>2, <1>3, AnsweredCalls
<1>8. AnswerMeans(n)'
  <2>1. CASE r.live
    BY <1>1, <1>2, <1>4, <1>5, <2>1 DEF AnswerMeans, Notified
  <2>2. CASE ~r.live
    BY <1>1, <1>2, <1>4, <1>5, <2>2 DEF IInv, AnswerMeans, OtherCreating, HasChannel
  <2> QED
    BY <2>1, <2>2
<1>9. SignedOK(n)' /\ SignedOK(p)' /\ PeerBlocked(p)'
  BY <1>1, <1>2, <1>5 DEF IInv, SignedOK, PeerBlocked, Settling
<1>10. CreatingOK(n)' /\ CreatingOK(p)' /\ ReDrawingOK(n)' /\ ReDrawingOK(p)'
  BY <1>1, <1>2, <1>5 DEF IInv, CreatingOK, ReDrawingOK, OtherCreating, Open
<1>11. PoolOK' /\ ChainOK'
  <2>1. PoolOK'
    BY <1>1, <1>2, <1>5, Senders DEF IInv, PoolOK, Settling
  <2>2. ChainOK'
    BY <1>1, <1>2, <1>5 DEF IInv, ChainOK, HasChannel
  <2> QED
    BY <2>1, <2>2
<1>12. SeqOK' /\ FundsBacked' /\ OwnShareLeast'
  BY <1>1, <1>2, <1>5 DEF IInv, SeqOK, FundsBacked, OwnShareLeast, HasChannel
<1> QED
  BY <1>1, <1>5, <1>6, <1>7, <1>8, <1>9, <1>10, <1>11, <1>12 DEF IInv

\* propose_re_draw, accepted.
LEMMA AgreeReDrawStep ==
    ASSUME IInv, NEW r \in Requests, r.kind = "propose_re_draw",
           cp[Peer(r.from)].st = "Open",
           AcceptableReDraw(cp[Peer(r.from)].ch, Peer(r.from), r.body),
           Answered(r, OtherReDrawing(cp[Peer(r.from)].ch, r.body), Signed)
    PROVE  IInv'
<1> DEFINE n == r.from
           p == Peer(n)
<1>1. n \in Node /\ p \in Node /\ p # n /\ Peer(p) = n /\ Node = {n, p}
  BY TwoNodes, RequestKinds
<1>2. PICK s \in Counterparties :
          /\ s = OtherReDrawing(cp[p].ch, r.body)
          /\ s.st = "OtherReDrawing" /\ s.ch = cp[p].ch /\ s.tx = r.body
          /\ s.ch \in Channels /\ s.tx \in ReDrawTxs
          /\ s.tx.seq > s.ch.seq /\ s.tx.old = s.ch.bal /\ s.tx.new[p] = s.ch.bal[p]
  BY <1>1, RequestKinds, CpKinds, CpTypes
     DEF IInv, TypeOK, OtherReDrawing, AcceptableReDraw
<1>3. Signed \in Replies /\ Answered(r, s, Signed) /\ Fits(r.kind, Signed)
  BY <1>2 DEF Replies, Fits, Proposing, Notified
<1>4. PICK c \in Calls, d \in Calls :
          /\ c = call[n] /\ d = call'[n]
          /\ ~r.live => d = c
          /\ r.live =>
                 /\ c.pc = r.kind /\ c.reply = NoReply
                 /\ d.pc = c.pc /\ d.op = c.op /\ d.reply = Signed
                 /\ r.body = c.tx /\ d.tx = c.tx
  BY <1>2, <1>3, AnsweredTypes DEF Proposing
<1>5. /\ cp'[n] = cp[n] /\ cp'[p] = s /\ call[p] = Idle
      /\ TypeOK' /\ HandlersOK'
      /\ UNCHANGED <<pool, chain>>
      /\ InFlight' \subseteq InFlight /\ net' \subseteq net /\ r \in InFlight
  BY <1>2, <1>3, AnsweredEffect
<1>6. RequestsOK'
  <2>1. ASSUME NEW q \in InFlight'
        PROVE  (OfCall(q) /\ InReach(q) /\ Covered(q) /\ Announced(q))'
    <3>1. OfCall(q)' /\ (q.live \/ call[q.from] = Idle => q.live \/ call'[q.from] = Idle)
      BY <1>2, <1>3, AnsweredCalls
    <3>2. InReach(q) /\ Covered(q) /\ Announced(q) /\ q.from \in {n, p}
      BY <1>1, <1>5, Sender, RequestKinds
    <3>3. InReach(q)' /\ Covered(q)'
      BY <1>1, <1>2, <1>5, <3>2 DEF InReach, Covered, Outdated, Numbered, HasChannel
    <3>4. Announced(q)'
      BY <1>1, <1>2, <1>5, <3>1, <3>2 DEF Announced, Settled, Settlement
    <3> QED
      BY <3>1, <3>3, <3>4
  <2> QED
    BY <2>1 DEF RequestsOK
<1>7. OneAnswered' /\ CallMatches(n)' /\ CallMatches(p)' /\ AnswerMeans(p)' /\ PeerBlocked(n)'
  BY <1>2, <1>3, AnsweredCalls
<1>8. \A x : NoneAbove(n, x) => r.body.seq <= x /\ NoneAbove(n, x)'
  <2>1. r \in net
    BY <1>1, RequestKinds DEF IInv, HandlersOK, Answered, Gone, Notified
  <2> QED
    BY <1>5, <2>1 DEF NoneAbove, Numbered
<1>9. cp[n].st \notin {"Creating", "ReDrawing"}
  <2>1. cp[n].st # "Creating"
    BY <1>1, <1>5, Sender DEF InReach, Numbered, HasChannel
  <2>2. cp[n].st # "ReDrawing"
    BY <1>1, <1>2, <1>8 DEF IInv, ReDrawingOK, Channels, ReDrawTxs
  <2> QED
    BY <2>1, <2>2
<1>10. AnswerMeans(n)'
  <2>1. CASE r.live
    <3>1. cp[n] = Open(c.ch) /\ c.tx.seq = c.ch.seq + 1 /\ c.ch \in Channels /\ c.tx \in ReDrawTxs
      BY <1>1, <1>4, <2>1, CallKinds DEF IInv, CallMatches
    <3>2. NoneAbove(n, c.tx.seq)'
      <4>1. ASSUME NEW q \in net', q.from = n, Numbered(q)
            PROVE  q.body.seq <= c.tx.seq
        <5>1. q \in InFlight
          BY <1>5 DEF InFlight
        <5>2. InReach(q) /\ q.body.seq \in Nat
          BY <4>1, <5>1, Sender, RequestKinds DEF Numbered, ReDrawTxs, UpdateTxs
        <5> QED
          BY <1>1, <1>2, <1>4, <2>1, <3>1, <4>1, <5>2
             DEF InReach, Open, Channels, ReDrawTxs
      <4> QED
        BY <4>1 DEF NoneAbove
    <3> QED
      BY <1>1, <1>2, <1>4, <1>5, <2>1, <3>2 DEF AnswerMeans, Notified
  <2>2. CASE ~r.live
    <3>1. r.body.seq > cp[p].ch.seq /\ r.body.seq \in Nat /\ cp[p].ch.seq \in Nat
      BY <1>2 DEF Channels, ReDrawTxs
    <3>2. c.pc \notin DOMAIN Notified
      BY <1>1, <1>4, <1>9 DEF IInv, CallMatches, Creating, ReDrawing
    <3>3. ~(c.pc = "receive_payment" /\ c.reply = Done)
      BY <1>1, <1>4, <1>8, <3>1 DEF IInv, AnswerMeans
    <3>4. AnswerMeans(n)
      BY <1>1 DEF IInv
    <3>5. ~(c.pc \in Proposing /\ c.reply = Signed)
      BY <1>1, <1>4, <3>4 DEF AnswerMeans, OtherCreating, Proposing
    <3>6. c.pc = "receive_payment" /\ c.reply.tag = "seq" => c.reply.seq <= cp[p].ch.seq
      BY <1>1, <1>4, <3>4 DEF AnswerMeans
    <3>7. d = c /\ cp'[p] = s /\ HasChannel(s) /\ s.ch = cp[p].ch
      BY <1>2, <1>4, <1>5, <2>2 DEF HasChannel
    <3> QED
      BY <1>1, <1>4, <3>2, <3>3, <3>5, <3>6, <3>7 DEF AnswerMeans, Proposing
  <2> QED
    BY <2>1, <2>2
<1>11. SignedOK(n)' /\ SignedOK(p)' /\ PeerBlocked(p)'
  BY <1>1, <1>2, <1>5 DEF IInv, SignedOK, PeerBlocked, Settling
<1>12. CreatingOK(n)' /\ CreatingOK(p)' /\ ReDrawingOK(n)' /\ ReDrawingOK(p)'
  BY <1>1, <1>2, <1>5, <1>9 DEF CreatingOK, ReDrawingOK
<1>13. PoolOK' /\ ChainOK'
  <2>1. PoolOK'
    BY <1>1, <1>2, <1>5, Senders DEF IInv, PoolOK, Settling
  <2>2. ChainOK'
    BY <1>1, <1>2, <1>5 DEF IInv, ChainOK, HasChannel
  <2> QED
    BY <2>1, <2>2
<1>14. SeqOK' /\ FundsBacked' /\ OwnShareLeast'
  BY <1>1, <1>2, <1>5 DEF IInv, SeqOK, FundsBacked, OwnShareLeast, HasChannel
<1> QED
  BY <1>1, <1>5, <1>6, <1>7, <1>10, <1>11, <1>12, <1>13, <1>14 DEF IInv

\* receive_payment, accepted.
LEMMA ReceiveStep ==
    ASSUME IInv, NEW r \in Requests, r.kind = "receive_payment",
           cp[Peer(r.from)].st = "Open", ~Stale(cp[Peer(r.from)].ch, r.body),
           Acceptable(cp[Peer(r.from)].ch, Peer(r.from), r.body),
           Answered(r, Open(Received(cp[Peer(r.from)].ch, Peer(r.from), r.body)), Done)
    PROVE  IInv'
<1> DEFINE n == r.from
           p == Peer(n)
           u == r.body
<1>1. n \in Node /\ p \in Node /\ p # n /\ Peer(p) = n /\ Node = {n, p}
  BY TwoNodes, RequestKinds
<1>2. PICK s \in Counterparties :
          /\ s = Open(Received(cp[p].ch, p, u))
          /\ s.st = "Open" /\ s.ch \in Channels /\ cp[p].ch \in Channels /\ u \in UpdateTxs
          /\ s.ch.seq = u.seq /\ s.ch.bal = u.bal /\ u.seq > cp[p].ch.seq
          /\ Total(u.bal) = Total(cp[p].ch.bal) /\ u.bal[p] >= cp[p].ch.bal[p]
  <2>1. cp[p] = Open(cp[p].ch) /\ cp[p].ch \in Channels /\ u \in UpdateTxs
    BY <1>1, RequestKinds, CpKinds DEF IInv, TypeOK
  <2>2. Received(cp[p].ch, p, u) \in Channels
    BY <1>1, <2>1 DEF Received, Channels, UpdateTxs, Balances, Acceptable, Total
  <2>3. u.seq > cp[p].ch.seq
    BY <2>1 DEF Stale, UpdateTxs, Channels
  <2> QED
    BY <1>1, <2>1, <2>2, <2>3, CpTypes DEF Received, Open, Acceptable
<1>3. Done \in Replies /\ Answered(r, s, Done) /\ Fits(r.kind, Done)
  BY <1>2 DEF Replies, Fits, Proposing, Notified, Done, Signed
<1>4. PICK c \in Calls, d \in Calls :
          /\ c = call[n] /\ d = call'[n]
          /\ ~r.live => d = c
          /\ r.live =>
                 /\ c.pc = r.kind /\ c.reply = NoReply
                 /\ d.pc = c.pc /\ d.op = c.op /\ d.reply = Done
                 /\ r.body = UpdateOf(c.ch) /\ d.ch = c.ch
  BY <1>2, <1>3, AnsweredTypes
<1>5. /\ cp'[n] = cp[n] /\ cp'[p] = s /\ call[p] = Idle
      /\ TypeOK' /\ HandlersOK'
      /\ UNCHANGED <<pool, chain>>
      /\ InFlight' \subseteq InFlight /\ net' \subseteq net /\ r \in InFlight
  BY <1>2, <1>3, AnsweredEffect
<1>6. RequestsOK'
  <2>1. ASSUME NEW q \in InFlight'
        PROVE  (OfCall(q) /\ InReach(q) /\ Covered(q) /\ Announced(q))'
    <3>1. OfCall(q)' /\ (q.live \/ call[q.from] = Idle => q.live \/ call'[q.from] = Idle)
      BY <1>2, <1>3, AnsweredCalls
    <3>2. /\ InReach(q) /\ Covered(q) /\ Announced(q) /\ q.from \in {n, p} /\ q \in Requests
      BY <1>1, <1>5, Sender, RequestKinds
    <3>3. Numbered(q) => q.body.seq \in Nat
      BY <3>2, RequestKinds DEF Numbered, ReDrawTxs, UpdateTxs
    <3>4. InReach(q)'
      BY <1>1, <1>2, <1>5, <3>2, <3>3 DEF InReach, Numbered, HasChannel, Channels, UpdateTxs
    <3>5. Covered(q)'
      <4>1. q.kind = "receive_payment" => q.body \in UpdateTxs
        BY <3>2, RequestKinds
      <4> QED
        BY <1>1, <1>2, <1>5, <3>2, <4>1
           DEF Covered, Outdated, HasChannel, Channels, UpdateTxs, Balances
    <3>6. Announced(q)'
      BY <1>1, <1>2, <1>5, <3>1, <3>2 DEF Announced, Settled, Settlement
    <3> QED
      BY <3>1, <3>4, <3>5, <3>6
  <2> QED
    BY <2>1 DEF RequestsOK
<1>7. OneAnswered' /\ CallMatches(n)' /\ CallMatches(p)' /\ AnswerMeans(p)' /\ PeerBlocked(n)'
  BY <1>2, <1>3, AnsweredCalls
<1>8. \A x : NoneAbove(n, x) => u.seq <= x /\ NoneAbove(n, x)'
  <2>1. r \in net
    BY <1>1, RequestKinds DEF IInv, HandlersOK, Answered, Gone, Notified
  <2> QED
    BY <1>5, <2>1 DEF NoneAbove, Numbered
<1>9. cp[n].st \notin {"Creating", "ReDrawing"}
  <2>1. cp[n].st # "Creating"
    BY <1>1, <1>5, Sender DEF InReach, Numbered, HasChannel
  <2>2. cp[n].st # "ReDrawing"
    BY <1>1, <1>2, <1>8 DEF IInv, ReDrawingOK, Channels, UpdateTxs
  <2> QED
    BY <2>1, <2>2
<1>10. AnswerMeans(n)'
  <2>1. CASE r.live
    <3>1. /\ cp[n].st = "Open" /\ cp[n].ch \in Channels /\ c.ch.seq = cp[n].ch.seq + 1
          /\ u.seq = c.ch.seq /\ u.bal = c.ch.bal
      <4>1. cp[n].ch \in Channels /\ c.ch = MakePayment(cp[n].ch, n, c.amount, cp[n].ch.seq)
        BY <1>1, <1>4, <2>1, CpKinds DEF IInv, TypeOK, CallMatches
      <4> QED
        BY <1>1, <1>4, <2>1, <4>1 DEF IInv, CallMatches, MakePayment, UpdateOf
    <3>2. NoneAbove(n, u.seq)'
      <4>1. ASSUME NEW q \in net', q.from = n, Numbered(q)
            PROVE  q.body.seq <= u.seq
        <5>1. q \in InFlight
          BY <1>5 DEF InFlight
        <5>2. InReach(q) /\ q.body.seq \in Nat
          BY <4>1, <5>1, Sender, RequestKinds DEF Numbered, ReDrawTxs, UpdateTxs
        <5> QED
          BY <1>1, <1>2, <3>1, <4>1, <5>2 DEF InReach, Channels, UpdateTxs
      <4> QED
        BY <4>1 DEF NoneAbove
    <3> QED
      <4>1. d.pc = "receive_payment" /\ d.reply = Done /\ d.ch = c.ch /\ Done.tag # "seq"
        BY <1>4, <2>1 DEF Done
      <4> QED
        BY <1>1, <1>2, <1>4, <1>5, <3>1, <3>2, <4>1 DEF AnswerMeans, Notified
  <2>2. CASE ~r.live
    <3>1. c.pc \notin DOMAIN Notified
      BY <1>1, <1>4, <1>9 DEF IInv, CallMatches, Creating, ReDrawing
    <3>2. ~(c.pc = "receive_payment" /\ c.reply = Done)
      <4>1. u.seq > cp[p].ch.seq /\ u.seq \in Nat /\ cp[p].ch.seq \in Nat
        BY <1>2 DEF Channels, UpdateTxs
      <4> QED
        BY <1>1, <1>4, <1>8, <4>1 DEF IInv, AnswerMeans
    <3>3. c.reply.tag = "seq" /\ c.pc = "receive_payment" => c.reply.seq \in Nat
      BY CallKinds DEF Replies, NoReply, Signed, Done, Refused
    <3>4. AnswerMeans(n)
      BY <1>1 DEF IInv
    <3>5. ~(c.pc \in Proposing /\ c.reply = Signed)
      BY <1>1, <1>4, <3>4 DEF AnswerMeans, OtherCreating, Proposing
    <3>6. c.pc = "receive_payment" /\ c.reply.tag = "seq" => c.reply.seq <= s.ch.seq
      <4>1. c.pc = "receive_payment" /\ c.reply.tag = "seq" => c.reply.seq <= cp[p].ch.seq
        BY <1>1, <1>4, <3>4 DEF AnswerMeans
      <4> QED
        BY <1>2, <3>3, <4>1 DEF Channels, UpdateTxs
    <3>7. d = c /\ cp'[p] = s /\ HasChannel(s)
      BY <1>2, <1>4, <1>5, <2>2 DEF HasChannel
    <3> QED
      BY <1>1, <1>4, <3>1, <3>2, <3>5, <3>6, <3>7 DEF AnswerMeans, Proposing
  <2> QED
    BY <2>1, <2>2
<1>11. SignedOK(n)' /\ SignedOK(p)' /\ PeerBlocked(p)'
  BY <1>1, <1>2, <1>5 DEF IInv, SignedOK, PeerBlocked, Settling
<1>12. CreatingOK(n)' /\ CreatingOK(p)' /\ ReDrawingOK(n)' /\ ReDrawingOK(p)'
  BY <1>1, <1>2, <1>5, <1>9 DEF CreatingOK, ReDrawingOK
<1>13. PoolOK' /\ ChainOK'
  <2>1. PoolOK'
    BY <1>1, <1>2, <1>5, Senders DEF IInv, PoolOK, Settling
  <2>2. ChainOK'
    BY <1>1, <1>2, <1>5 DEF IInv, ChainOK, HasChannel
  <2> QED
    BY <2>1, <2>2
<1>14. SeqOK'
  <2>1. cp[n] \in Counterparties /\ chain.seq \in Nat
    BY <1>1 DEF IInv, TypeOK
  <2>2. HasChannel(cp[n]) => cp[n].ch.seq \in Nat
    BY <2>1, CpKinds DEF HasChannel, Channels
  <2> QED
    BY <1>1, <1>2, <1>5, <2>1, <2>2 DEF IInv, SeqOK, HasChannel, Channels, UpdateTxs
<1>15. FundsBacked'
  BY <1>1, <1>2, <1>5 DEF IInv, FundsBacked
<1>16. OwnShareLeast'
  <2> SUFFICES ASSUME cp[n].st = "Open"
               PROVE  cp[n].ch.bal[n] >= u.bal[n] /\ u.bal[p] >= cp[n].ch.bal[p]
    BY <1>1, <1>2, <1>5 DEF OwnShareLeast
  <2>1. cp[n].ch \in Channels
    BY <1>1, CpKinds DEF IInv, TypeOK
  <2>2. Total(cp[n].ch.bal) = Total(u.bal)
    BY <1>1, <1>2 DEF IInv, FundsBacked
  <2>3. u.bal[n] <= cp[n].ch.bal[n]
    <3>1. Covered(r) /\ u.seq > cp[p].ch.seq /\ u.seq \in Nat /\ cp[p].ch.seq \in Nat
      BY <1>2, <1>5, Sender DEF Channels, UpdateTxs
    <3> QED
      BY <3>1 DEF Covered, Outdated
  <2> QED
    BY <1>1, <1>2, <2>1, <2>2, <2>3 DEF Total, Channels, UpdateTxs, Balances, Node
<1> QED
  BY <1>1, <1>5, <1>6, <1>7, <1>10, <1>11, <1>12, <1>13, <1>14, <1>15, <1>16 DEF IInv

\* receive_payment, answered with the receiver's number.
LEMMA StaleStep ==
    ASSUME IInv, NEW r \in Requests, r.kind = "receive_payment",
           cp[Peer(r.from)].st = "Open",
           Answered(r, cp[Peer(r.from)], CurrentSeq(cp[Peer(r.from)].ch.seq))
    PROVE  IInv'
<1> DEFINE n == r.from
           p == Peer(n)
<1>1. n \in Node /\ p \in Node /\ p # n /\ Peer(p) = n /\ Node = {n, p}
  BY TwoNodes, RequestKinds
<1>2. /\ cp[p] \in Counterparties /\ cp[p].ch.seq \in Nat
      /\ CurrentSeq(cp[p].ch.seq) \in Replies
      /\ Fits(r.kind, CurrentSeq(cp[p].ch.seq))
  <2>1. cp[p] \in Counterparties /\ cp[p].ch.seq \in Nat
    BY <1>1, CpKinds DEF IInv, TypeOK, Channels
  <2> QED
    BY <2>1 DEF CurrentSeq, Replies, Fits, Proposing, Notified, Signed
<1>3. PICK y \in Replies : /\ y = CurrentSeq(cp[p].ch.seq) /\ y.tag = "seq" /\ y.seq = cp[p].ch.seq
                           /\ y # NoReply /\ y # Signed /\ y # Done
  BY <1>2 DEF CurrentSeq, NoReply, Signed, Done
<1>4. PICK c \in Calls, d \in Calls :
          /\ c = call[n] /\ d = call'[n]
          /\ ~r.live => d = c
          /\ r.live =>
                 /\ c.pc = r.kind /\ c.reply = NoReply
                 /\ d.pc = c.pc /\ d.op = c.op /\ d.reply = y
  BY <1>2, <1>3, AnsweredTypes
<1>5. /\ cp'[n] = cp[n] /\ cp'[p] = cp[p] /\ call[p] = Idle
      /\ TypeOK' /\ HandlersOK'
      /\ UNCHANGED <<pool, chain>>
      /\ InFlight' \subseteq InFlight /\ net' \subseteq net /\ r \in InFlight
  BY <1>2, AnsweredEffect
<1>6. RequestsOK'
  <2>1. ASSUME NEW q \in InFlight'
        PROVE  (OfCall(q) /\ InReach(q) /\ Covered(q) /\ Announced(q))'
    <3>1. OfCall(q)' /\ (q.live \/ call[q.from] = Idle => q.live \/ call'[q.from] = Idle)
      BY <1>2, AnsweredCalls
    <3>2. InReach(q) /\ Covered(q) /\ Announced(q) /\ q.from \in {n, p}
      BY <1>1, <1>5, Sender, RequestKinds
    <3> QED
      BY <1>1, <1>5, <3>1, <3>2
         DEF InReach, Covered, Outdated, Announced, Settled, Settlement
  <2> QED
    BY <2>1 DEF RequestsOK
<1>7. OneAnswered' /\ CallMatches(n)' /\ CallMatches(p)' /\ AnswerMeans(p)' /\ PeerBlocked(n)'
  BY <1>2, AnsweredCalls
<1>8. \A m \in Node : \A x : NoneAbove(m, x) => NoneAbove(m, x)'
  BY <1>5 DEF NoneAbove
<1>9. AnswerMeans(n)'
  <2>1. CASE r.live
    BY <1>1, <1>2, <1>3, <1>4, <1>5, <2>1 DEF AnswerMeans, HasChannel, Notified
  <2>2. CASE ~r.live
    BY <1>1, <1>4, <1>5, <1>8, <2>2 DEF IInv, AnswerMeans
  <2> QED
    BY <2>1, <2>2
<1>10. SignedOK(n)' /\ SignedOK(p)' /\ PeerBlocked(p)'
  BY <1>1, <1>5 DEF IInv, SignedOK, PeerBlocked, Settling
<1>11. CreatingOK(n)' /\ CreatingOK(p)'
  BY <1>1, <1>5 DEF IInv, CreatingOK, Settled, Settlement
<1>12. ReDrawingOK(n)' /\ ReDrawingOK(p)'
  BY <1>1, <1>5, <1>8 DEF IInv, ReDrawingOK, Settled, Settlement
<1>13. PoolOK' /\ ChainOK'
  <2>1. PoolOK'
    BY <1>1, <1>5, Senders DEF IInv, PoolOK, Settling
  <2>2. ChainOK'
    BY <1>1, <1>5 DEF IInv, ChainOK, HasChannel
  <2> QED
    BY <2>1, <2>2
<1>14. SeqOK' /\ FundsBacked' /\ OwnShareLeast'
  BY <1>1, <1>5 DEF IInv, SeqOK, FundsBacked, OwnShareLeast, HasChannel
<1> QED
  BY <1>1, <1>5, <1>6, <1>7, <1>9, <1>10, <1>11, <1>12, <1>13, <1>14 DEF IInv

\* A notification whose handler keeps the guard.
LEMMA NotifyStep ==
    ASSUME IInv, NEW r \in net, HandleNotify(r), cp[Peer(r.from)].st = Notified[r.kind]
    PROVE  IInv'
<1> DEFINE n == r.from
           p == Peer(n)
<1>1. n \in Node /\ p \in Node /\ p # n /\ Peer(p) = n /\ Node = {n, p} /\ r \in Requests
  BY TwoNodes, RequestKinds DEF IInv, TypeOK
<1>2. /\ net' = net \ {r} /\ srv' = [srv EXCEPT ![p] = r]
      /\ UNCHANGED <<cp, call, pool, chain, user>>
      /\ r.kind \in DOMAIN Notified /\ call[p] = Idle
  BY DEF HandleNotify, Free, blockchain
<1>3. TypeOK'
  BY <1>1, <1>2 DEF IInv, TypeOK, user
<1>4. HandlersOK'
  BY <1>1, <1>2 DEF IInv, TypeOK, HandlersOK
<1>5. InFlight' \subseteq InFlight
  BY <1>1, <1>2 DEF IInv, TypeOK, InFlight, Handled
<1>6. RequestsOK'
  BY <1>2, <1>5 DEF IInv, RequestsOK, OfCall, InReach, Covered, Outdated, Announced, Settled, Settlement
<1>7. \A m \in Node : \A x : NoneAbove(m, x) => NoneAbove(m, x)'
  BY <1>2 DEF NoneAbove
<1>8. ASSUME NEW m \in Node
      PROVE  (CallMatches(m) /\ SignedOK(m) /\ CreatingOK(m) /\ PeerBlocked(m))'
  BY <1>2 DEF IInv, CallMatches, SignedOK, CreatingOK, PeerBlocked, Settled, Settlement, Settling
<1>9. ASSUME NEW m \in Node
      PROVE  AnswerMeans(m)' /\ ReDrawingOK(m)'
  BY <1>2, <1>7 DEF IInv, AnswerMeans, ReDrawingOK, Settled, Settlement
<1>10. (OneAnswered /\ PoolOK /\ ChainOK /\ SeqOK /\ FundsBacked /\ OwnShareLeast)'
  BY <1>2 DEF IInv, OneAnswered, Waiting, PoolOK, ChainOK, SeqOK, FundsBacked, OwnShareLeast,
              Settling, IsReDraw
<1> QED
  BY <1>3, <1>4, <1>6, <1>8, <1>9, <1>10 DEF IInv

\* notify_channel_opened, confirmed.
LEMMA OpenedStep ==
    ASSUME IInv, NEW m \in Node, OpenedFound(m)
    PROVE  IInv'
<1>1. PICK r \in Requests : r = srv[m] /\ r.kind = "notify_channel_opened"
  BY DEF OpenedFound, IInv, TypeOK, NotServing
<1> DEFINE n == r.from
           p == Peer(n)
<1>2. /\ n \in Node /\ p \in Node /\ p # n /\ Peer(p) = n /\ Node = {n, p} /\ m = p
      /\ r \in InFlight
  BY <1>1, TwoNodes, RequestKinds DEF IInv, HandlersOK, InFlight, Handled
<1>3. /\ cp[p] = OtherCreating(cp[n].tx) /\ cp[p].tx = cp[n].tx /\ cp[n].tx \in NewChannelTxs
      /\ cp[p].st = "OtherCreating" /\ cp[n].st = "Creating"
      /\ Settled(n) /\ chain.open /\ chain.seq = 0 /\ chain.total = Total(cp[n].tx.bal)
      /\ r.live \/ call[n] = Idle
  <2>1. cp[p].st = "OtherCreating"
    BY <1>1, <1>2, RequestKinds, NotifiedKinds DEF IInv, TypeOK
  <2>2. Settled(n) /\ cp[n].st = "Creating" /\ (r.live \/ call[n] = Idle)
    BY <1>1, <1>2, Sender DEF Announced, Notified
  <2> QED
    BY <1>2, <2>1, <2>2, CpKinds DEF IInv, TypeOK, CreatingOK, OtherCreating, Open
<1>4. PICK s \in Counterparties :
          /\ s = Open(NewChannel(cp[n].tx.bal)) /\ s.st = "Open"
          /\ s.ch \in Channels /\ s.ch.seq = 0 /\ s.ch.bal = cp[n].tx.bal
  <2>1. NewChannel(cp[n].tx.bal) \in Channels
    BY <1>3 DEF NewChannelTxs, NewChannel, Channels
  <2> QED
    BY <2>1, CpTypes DEF Open, NewChannel
<1>5. Done \in Replies /\ Answered(r, s, Done) /\ Fits(r.kind, Done)
  BY <1>1, <1>2, <1>3, <1>4 DEF OpenedFound, Answered, Gone, Replies, Fits, Proposing, Notified, blockchain
<1>6. PICK c \in Calls, d \in Calls :
          /\ c = call[n] /\ d = call'[n]
          /\ ~r.live => d = c
          /\ r.live => d.pc = "notify_channel_opened"
  BY <1>1, <1>5, AnsweredTypes
<1>7. /\ cp'[n] = cp[n] /\ cp'[p] = s /\ call[p] = Idle
      /\ TypeOK' /\ HandlersOK'
      /\ UNCHANGED <<pool, chain>>
      /\ InFlight' \subseteq InFlight
  BY <1>5, AnsweredEffect
<1>8. RequestsOK'
  <2>1. ASSUME NEW q \in InFlight'
        PROVE  (OfCall(q) /\ InReach(q) /\ Covered(q) /\ Announced(q))'
    <3>1. OfCall(q)' /\ (q.live \/ call[q.from] = Idle => q.live \/ call'[q.from] = Idle)
      BY <1>5, AnsweredCalls
    <3>2. InReach(q) /\ Covered(q) /\ Announced(q) /\ q.from \in {n, p}
      BY <1>2, <1>7, Sender, RequestKinds
    <3>3. ~Numbered(q)
      BY <1>3, <3>2 DEF InReach, HasChannel
    <3>4. Announced(q)'
      BY <1>2, <1>3, <1>7, <3>1, <3>2 DEF Announced, Settled, Settlement
    <3> QED
      BY <3>1, <3>3, <3>4 DEF InReach, Covered, Numbered
  <2> QED
    BY <2>1 DEF RequestsOK
<1>9. OneAnswered' /\ CallMatches(n)' /\ CallMatches(p)' /\ AnswerMeans(p)' /\ PeerBlocked(n)'
  BY <1>5, AnsweredCalls
<1>10. AnswerMeans(n)'
  BY <1>2, <1>3, <1>4, <1>6, <1>7 DEF AnswerMeans, Idle, Notified
<1>11. SignedOK(n)' /\ SignedOK(p)' /\ PeerBlocked(p)' /\ ReDrawingOK(n)' /\ ReDrawingOK(p)'
  BY <1>2, <1>3, <1>4, <1>7 DEF SignedOK, PeerBlocked, Settling, ReDrawingOK
<1>12. CreatingOK(n)' /\ CreatingOK(p)'
  BY <1>2, <1>3, <1>4, <1>7 DEF CreatingOK, Settled, Settlement
<1>13. PoolOK' /\ ChainOK'
  <2>1. PoolOK'
    BY <1>2, <1>3, <1>4, <1>7, Senders DEF IInv, PoolOK, Settling
  <2>2. ChainOK'
    BY <1>2, <1>3, <1>4, <1>7 DEF IInv, ChainOK, HasChannel
  <2> QED
    BY <2>1, <2>2
<1>14. SeqOK' /\ FundsBacked' /\ OwnShareLeast'
  BY <1>2, <1>3, <1>4, <1>7 DEF SeqOK, FundsBacked, OwnShareLeast, HasChannel
<1> QED
  BY <1>2, <1>7, <1>8, <1>9, <1>10, <1>11, <1>12, <1>13, <1>14 DEF IInv

\* notify_re_draw, confirmed.
LEMMA ReDrawnStep ==
    ASSUME IInv, NEW m \in Node, ReDrawnChecked(m)
    PROVE  IInv'
<1>1. PICK r \in Requests : r = srv[m] /\ r.kind = "notify_re_draw"
  BY DEF ReDrawnChecked, IInv, TypeOK, NotServing
<1> DEFINE n == r.from
           p == Peer(n)
<1>2. /\ n \in Node /\ p \in Node /\ p # n /\ Peer(p) = n /\ Node = {n, p} /\ m = p
      /\ r \in InFlight
  BY <1>1, TwoNodes, RequestKinds DEF IInv, HandlersOK, InFlight, Handled
<1>3. /\ cp[p].st = "OtherReDrawing" /\ cp[n].st = "ReDrawing"
      /\ Settled(n) /\ (r.live \/ call[n] = Idle)
  <2>1. cp[p].st = "OtherReDrawing"
    BY <1>1, <1>2, RequestKinds, NotifiedKinds DEF IInv, TypeOK
  <2>2. Settled(n) /\ cp[n].st = "ReDrawing" /\ (r.live \/ call[n] = Idle)
    BY <1>1, <1>2, Sender DEF Announced, Notified
  <2> QED
    BY <2>1, <2>2
<1>4. PICK t \in ReDrawTxs :
          /\ t = cp[n].tx /\ t = cp[p].tx /\ cp[n].ch \in Channels /\ cp[p].ch \in Channels
          /\ t.seq = cp[n].ch.seq + 1 /\ t.old = cp[n].ch.bal
          /\ t.seq > cp[p].ch.seq /\ t.new[p] = cp[p].ch.bal[p]
          /\ chain.open /\ chain.seq = t.seq /\ chain.total = Total(t.new)
          /\ NoneAbove(n, t.seq)
  BY <1>2, <1>3, CpKinds DEF IInv, TypeOK, ReDrawingOK, SignedOK
<1>5. PICK s \in Counterparties :
          /\ s = Open([seq |-> cp[p].tx.seq, bal |-> cp[p].tx.new, accrual |-> cp[p].ch.accrual])
          /\ s.st = "Open" /\ s.ch \in Channels /\ s.ch.seq = t.seq /\ s.ch.bal = t.new
  <2>1. [seq |-> cp[p].tx.seq, bal |-> cp[p].tx.new, accrual |-> cp[p].ch.accrual] \in Channels
    BY <1>4 DEF ReDrawTxs, Channels
  <2> QED
    BY <1>4, <2>1, CpTypes DEF Open
<1>6. Done \in Replies /\ Answered(r, s, Done) /\ Fits(r.kind, Done)
  BY <1>1, <1>2, <1>5 DEF ReDrawnChecked, Answered, Gone, Replies, Fits, Proposing, Notified, blockchain
<1>7. PICK c \in Calls, d \in Calls :
          /\ c = call[n] /\ d = call'[n]
          /\ ~r.live => d = c
          /\ r.live => d.pc = "notify_re_draw"
  BY <1>1, <1>6, AnsweredTypes
<1>8. /\ cp'[n] = cp[n] /\ cp'[p] = s /\ call[p] = Idle
      /\ TypeOK' /\ HandlersOK'
      /\ UNCHANGED <<pool, chain>>
      /\ InFlight' \subseteq InFlight /\ net' \subseteq net
  BY <1>6, AnsweredEffect
<1>9. RequestsOK'
  <2>1. ASSUME NEW q \in InFlight'
        PROVE  (OfCall(q) /\ InReach(q) /\ Covered(q) /\ Announced(q))'
    <3>1. OfCall(q)' /\ (q.live \/ call[q.from] = Idle => q.live \/ call'[q.from] = Idle)
      BY <1>6, AnsweredCalls
    <3>2. InReach(q) /\ Covered(q) /\ Announced(q) /\ q.from \in {n, p} /\ q \in Requests
      BY <1>2, <1>8, Sender, RequestKinds
    <3>3. Numbered(q) => q.body.seq \in Nat
      BY <3>2, RequestKinds DEF Numbered, ReDrawTxs, UpdateTxs
    <3>4. /\ HasChannel(cp[p]) /\ HasChannel(s) /\ HasChannel(cp[n])
          /\ cp[p].ch.seq \in Nat /\ s.ch.seq \in Nat /\ s.ch.seq > cp[p].ch.seq
          /\ s.ch.bal[p] = cp[p].ch.bal[p]
      BY <1>3, <1>4, <1>5 DEF HasChannel, Channels, ReDrawTxs
    <3>5. InReach(q)'
      BY <1>2, <1>8, <3>2, <3>3, <3>4 DEF InReach
    <3>6. Covered(q)'
      BY <1>2, <1>8, <3>2, <3>3, <3>4 DEF Covered, Outdated, Numbered
    <3>7. Announced(q)'
      BY <1>2, <1>3, <1>8, <3>1, <3>2 DEF Announced, Settled, Settlement
    <3> QED
      BY <3>1, <3>5, <3>6, <3>7
  <2> QED
    BY <2>1 DEF RequestsOK
<1>10. OneAnswered' /\ CallMatches(n)' /\ CallMatches(p)' /\ AnswerMeans(p)' /\ PeerBlocked(n)'
  BY <1>6, AnsweredCalls
<1>11. AnswerMeans(n)'
  <2>1. d.pc \in {"idle", "notify_re_draw"}
    BY <1>3, <1>7 DEF Idle
  <2>2. cp'[p].st = "Open"
    BY <1>5, <1>8
  <2> QED
    BY <1>2, <1>7, <2>1, <2>2 DEF AnswerMeans, Notified
<1>12. SignedOK(n)' /\ SignedOK(p)' /\ PeerBlocked(p)' /\ CreatingOK(n)' /\ CreatingOK(p)'
  BY <1>2, <1>3, <1>5, <1>8 DEF SignedOK, PeerBlocked, Settling, CreatingOK
<1>13. ReDrawingOK(n)' /\ ReDrawingOK(p)'
  BY <1>2, <1>3, <1>4, <1>5, <1>8 DEF ReDrawingOK, Settled, Settlement, NoneAbove
<1>14. PoolOK' /\ ChainOK'
  <2>1. PoolOK'
    BY <1>2, <1>3, <1>5, <1>8, Senders DEF IInv, PoolOK, Settling
  <2>2. ChainOK'
    BY <1>2, <1>3, <1>5, <1>8 DEF IInv, ChainOK, HasChannel
  <2> QED
    BY <2>1, <2>2
<1>15. SeqOK' /\ FundsBacked' /\ OwnShareLeast'
  BY <1>2, <1>3, <1>4, <1>5, <1>8 DEF SeqOK, FundsBacked, OwnShareLeast, HasChannel
<1> QED
  BY <1>2, <1>8, <1>9, <1>10, <1>11, <1>12, <1>13, <1>14, <1>15 DEF IInv

\* Every handler, by its outcome.
LEMMA ServeStep ==
    ASSUME IInv, NEW m \in Node, Serve(m) \/ NotifyUnconfirmed(m)
    PROVE  IInv'
<1>1. cp \in [Node -> Counterparties] /\ net \subseteq Requests
      /\ srv \in [Node -> Requests \cup {NotServing}]
  BY DEF IInv, TypeOK
<1>2. ASSUME NEW r \in net, NEW s, NEW y, Handle(r, Outcome(s, y))
      PROVE  Answered(r, s, y) /\ r \in Requests /\ Peer(r.from) \in Node
  BY <1>1, <1>2, TwoNodes, RequestKinds DEF Handle, Outcome, Answered, Gone
<1>3. ASSUME NEW r \in net, HandleProposeChannel(r)
      PROVE  IInv'
  <2> DEFINE p == Peer(r.from)
             s == cp[p]
  <2>1. r.kind = "propose_channel" /\ Handle(r, ProposeChannel(s, p, r.body))
    BY <1>3 DEF HandleProposeChannel
  <2>2. CASE s.st \in {"Absent", "New"} /\ r.body.bal[p] = 0
    <3>1. Answered(r, OtherCreating(r.body), Signed) /\ r \in Requests
      BY <1>2, <2>1, <2>2 DEF ProposeChannel
    <3> QED
      BY <2>1, <2>2, <3>1, AgreeStep
  <2>3. CASE s.st \in {"Absent", "New"} /\ r.body.bal[p] # 0
    <3>1. Answered(r, New, Refused) /\ r \in Requests /\ p \in Node
      BY <1>2, <2>1, <2>3 DEF ProposeChannel
    <3>2. New = s \/ s = Absent
      BY <1>1, <2>3, <3>1, CpKinds
    <3> QED
      BY <3>1, <3>2, RefusedStep
  <2>4. CASE s.st \notin {"Absent", "New"}
    <3>1. Answered(r, s, Refused) /\ r \in Requests
      BY <1>2, <2>1, <2>4 DEF ProposeChannel
    <3> QED
      BY <3>1, RefusedStep
  <2> QED
    BY <2>2, <2>3, <2>4
<1>4. ASSUME NEW r \in net, HandleProposeReDraw(r)
      PROVE  IInv'
  <2> DEFINE p == Peer(r.from)
             s == cp[p]
  <2>1. r.kind = "propose_re_draw" /\ Handle(r, ProposedReDraw(s, p, r.body))
    BY <1>4 DEF HandleProposeReDraw
  <2>2. CASE s.st = "Open" /\ AcceptableReDraw(s.ch, p, r.body)
    <3>1. Answered(r, OtherReDrawing(s.ch, r.body), Signed) /\ r \in Requests
      BY <1>2, <2>1, <2>2 DEF ProposedReDraw
    <3> QED
      BY <2>1, <2>2, <3>1, AgreeReDrawStep
  <2>3. CASE ~(s.st = "Open" /\ AcceptableReDraw(s.ch, p, r.body))
    <3>1. Answered(r, s, Refused) /\ r \in Requests
      BY <1>2, <2>1, <2>3 DEF ProposedReDraw
    <3> QED
      BY <3>1, RefusedStep
  <2> QED
    BY <2>2, <2>3
<1>5. ASSUME NEW r \in net, HandleReceivePayment(r)
      PROVE  IInv'
  <2> DEFINE p == Peer(r.from)
             s == cp[p]
  <2>1. r.kind = "receive_payment" /\ Handle(r, ReceivePayment(s, p, r.body))
    BY <1>5 DEF HandleReceivePayment
  <2>2. CASE s.st = "Open" /\ Stale(s.ch, r.body)
    <3>1. Answered(r, s, CurrentSeq(s.ch.seq)) /\ r \in Requests
      BY <1>2, <2>1, <2>2 DEF ReceivePayment
    <3> QED
      BY <2>1, <2>2, <3>1, StaleStep
  <2>3. CASE s.st = "Open" /\ ~Stale(s.ch, r.body) /\ Acceptable(s.ch, p, r.body)
    <3>1. Answered(r, Open(Received(s.ch, p, r.body)), Done) /\ r \in Requests
      BY <1>2, <2>1, <2>3 DEF ReceivePayment
    <3> QED
      BY <2>1, <2>3, <3>1, ReceiveStep
  <2>4. CASE \/ s.st # "Open"
             \/ s.st = "Open" /\ ~Stale(s.ch, r.body) /\ ~Acceptable(s.ch, p, r.body)
    <3>1. Answered(r, s, Refused) /\ r \in Requests
      BY <1>2, <2>1, <2>4 DEF ReceivePayment
    <3> QED
      BY <3>1, RefusedStep
  <2> QED
    BY <2>2, <2>3, <2>4
<1>6. ASSUME NEW r \in net, HandleNotify(r)
      PROVE  IInv'
  <2> DEFINE p == Peer(r.from)
  <2>1. CASE cp[p].st = Notified[r.kind]
    BY <1>6, <2>1, NotifyStep
  <2>2. CASE cp[p].st # Notified[r.kind]
    <3>1. cp' = [cp EXCEPT ![p] = cp[p]] /\ r \in Requests
      BY <1>1, <1>6 DEF HandleNotify
    <3>2. Answered(r, cp[p], Refused)
      BY <1>6, <2>2, <3>1 DEF HandleNotify, Answered, Gone
    <3> QED
      BY <3>1, <3>2, RefusedStep
  <2> QED
    BY <2>1, <2>2
<1>7. CASE NotifyUnconfirmed(m)
  <2>1. PICK r \in Requests : r = srv[m] /\ Peer(r.from) = m
    BY <1>1, <1>7, TwoNodes DEF NotifyUnconfirmed, IInv, HandlersOK
  <2>2. cp' = [cp EXCEPT ![m] = cp[m]]
    BY <1>1, <1>7 DEF NotifyUnconfirmed
  <2>3. Answered(r, cp[m], Refused)
    BY <1>7, <2>1, <2>2 DEF NotifyUnconfirmed, Answered, Gone
  <2> QED
    BY <2>1, <2>3, RefusedStep
<1> QED
  BY <1>3, <1>4, <1>5, <1>6, <1>7, OpenedStep, ReDrawnStep DEF Serve

----------------------------------------------------------------------------
(* The user calls.                                                         *)

\* n's call c is made, and asks the peer with a request of that body.
Asks(n, c, body) ==
    /\ Free(n)
    /\ cp[n].st \in {"Absent", "New", "Open"}
    /\ cp' = cp \/ (cp[n].st # "Open" /\ cp' = [cp EXCEPT ![n] = New])
    /\ Await(n, c, body)
    /\ UNCHANGED <<srv, pool, chain>>

\* A user's call up to its first await: a request goes out with a number that
\* neither copy has reached.
LEMMA AskStep ==
    ASSUME IInv, NEW n \in Node, NEW c \in Calls, NEW body, Asks(n, c, body),
           c.pc \in Asking, c.reply = NoReply,
           Request(n, c.op, c.pc, body, TRUE) \in Requests,
           c.pc \in Proposing => body = c.tx,
           c.pc = "receive_payment" => body = UpdateOf(c.ch),
           c.pc # "propose_channel" => cp' = cp /\ cp[n].st = "Open" /\ body.seq = cp[n].ch.seq + 1,
           c.pc = "receive_payment" => body.bal[n] <= cp[n].ch.bal[n],
           CallMatches(n)',
           ops' \in [Node -> Nat], asked' \in [Node -> Nat], collected' = collected
    PROVE  IInv'
<1> DEFINE p == Peer(n)
<1>1. p \in Node /\ p # n /\ Peer(p) = n /\ Node = {n, p}
  BY TwoNodes
<1>2. cp \in [Node -> Counterparties] /\ call \in [Node -> Calls]
  BY DEF IInv, TypeOK
<1>3. PICK w \in Requests :
          /\ w = Request(n, c.op, c.pc, body, TRUE)
          /\ w.from = n /\ w.op = c.op /\ w.kind = c.pc /\ w.body = body /\ w.live
  BY DEF Request
<1>4. /\ call'[n] = c /\ call'[p] = call[p] /\ call[n] = Idle /\ srv[n] = NotServing
      /\ call' \in [Node -> Calls] /\ net' = net \cup {w}
      /\ UNCHANGED <<srv, pool, chain>>
  BY <1>1, <1>2, <1>3 DEF Asks, Await, Free
<1>5. /\ cp'[p] = cp[p] /\ cp' \in [Node -> Counterparties]
      /\ \/ cp'[n] = cp[n]
         \/ cp[n].st \in {"Absent", "New"} /\ cp'[n].st = "New"
      /\ cp[n].st \in {"Absent", "New", "Open"}
  BY <1>1, <1>2, CpTypes DEF Asks, New
<1>6. TypeOK'
  BY <1>1, <1>4, <1>5 DEF IInv, TypeOK
<1>7. InFlight' = InFlight \cup {w}
  BY <1>4 DEF InFlight, Handled
<1>8. \A q \in InFlight : q.from = n => ~q.live
  BY <1>4, Sender
<1>9. HandlersOK'
  <2>1. \A m \in Node : srv[m] # NotServing => srv[m] \in InFlight
    BY DEF InFlight, Handled
  <2> QED
    BY <1>3, <1>4, <1>8, <2>1 DEF IInv, HandlersOK
<1>10. RequestsOK'
  <2>1. ASSUME NEW q \in InFlight
        PROVE  (OfCall(q) /\ InReach(q) /\ Covered(q) /\ Announced(q))'
    <3>1. OfCall(q) /\ InReach(q) /\ Covered(q) /\ Announced(q) /\ q.from \in {n, p}
      BY <1>1, Sender, RequestKinds
    <3>2. OfCall(q)'
      BY <1>4, <1>8, <3>1 DEF OfCall
    <3>3. InReach(q)' /\ Covered(q)'
      BY <1>1, <1>5, <3>1 DEF InReach, Covered, Outdated, Numbered, HasChannel
    <3>4. Announced(q)'
      BY <1>1, <1>4, <1>5, <3>1 DEF Announced, Settled, Settlement
    <3> QED
      BY <3>2, <3>3, <3>4
  <2>2. OfCall(w)'
    BY <1>3, <1>4 DEF OfCall
  <2>3. InReach(w)'
    <3>1. cp[n].st = "Open" => cp[n].ch.seq \in Nat
      BY <1>2, CpKinds DEF Channels
    <3> QED
      <4>1. Numbered(w) => cp'[n] = cp[n] /\ cp[n].st = "Open" /\ w.body.seq = cp[n].ch.seq + 1
        BY <1>3 DEF Numbered
      <4> QED
        <5>1. Numbered(w) => cp'[n].ch.seq \in Nat /\ w.body.seq = cp'[n].ch.seq + 1
          BY <3>1, <4>1
        <5>2. Numbered(w) => w.body.seq <= cp'[n].ch.seq + 1
          BY <5>1
        <5> QED
          BY <1>3, <4>1, <5>2 DEF InReach, HasChannel, Numbered
  <2>4. Covered(w)' /\ Announced(w)'
    BY <1>3, <1>5 DEF Covered, Announced, Asking, Proposing, Notified
  <2> QED
    BY <1>7, <2>1, <2>2, <2>3, <2>4 DEF RequestsOK
<1>11. OneAnswered'
  BY <1>4 DEF OneAnswered, Waiting
<1>12. CallMatches(p)'
  BY <1>1, <1>4, <1>5 DEF IInv, CallMatches, Settled, Settlement
<1>13. AnswerMeans(n)'
  BY <1>4 DEF AnswerMeans, NoReply, Signed, Done, Asking, Proposing, Notified
<1>14. \A x : NoneAbove(p, x) => NoneAbove(p, x)'
  BY <1>1, <1>3, <1>4 DEF NoneAbove
<1>15. AnswerMeans(p)'
  BY <1>1, <1>4, <1>5, <1>14 DEF IInv, AnswerMeans, HasChannel, OtherCreating
<1>16. SignedOK(n)' /\ SignedOK(p)' /\ PeerBlocked(n)' /\ PeerBlocked(p)'
  BY <1>1, <1>4, <1>5 DEF IInv, SignedOK, PeerBlocked, Settling
<1>17. CreatingOK(n)' /\ CreatingOK(p)'
  BY <1>1, <1>4, <1>5 DEF IInv, CreatingOK, Settled, Settlement, OtherCreating, Open
<1>18. ReDrawingOK(n)' /\ ReDrawingOK(p)'
  BY <1>1, <1>4, <1>5, <1>14 DEF IInv, ReDrawingOK, Settled, Settlement
<1>19. PoolOK' /\ ChainOK'
  <2>1. PoolOK'
    BY <1>1, <1>4, <1>5, Senders DEF IInv, PoolOK, Settling
  <2>2. ChainOK'
    BY <1>1, <1>4, <1>5 DEF IInv, ChainOK, HasChannel
  <2> QED
    BY <2>1, <2>2
<1>20. SeqOK' /\ FundsBacked' /\ OwnShareLeast'
  BY <1>1, <1>4, <1>5 DEF IInv, SeqOK, FundsBacked, OwnShareLeast, HasChannel
<1> QED
  BY <1>1, <1>6, <1>9, <1>10, <1>11, <1>12, <1>13, <1>15, <1>16, <1>17, <1>18, <1>19, <1>20 DEF IInv

\* The user's own calls.
LEMMA UserStep ==
    ASSUME IInv, NEW n \in Node, UserCall(n)
    PROVE  IInv'
<1> DEFINE p == Peer(n)
<1>1. p \in Node /\ p # n /\ Peer(p) = n /\ Node = {n, p}
  BY TwoNodes
<1>2. /\ cp \in [Node -> Counterparties] /\ call \in [Node -> Calls]
      /\ ops \in [Node -> Nat] /\ asked \in [Node -> Nat] /\ collected \in [Node -> Nat]
      /\ cp[n].st = "Open" => cp[n] = Open(cp[n].ch) /\ cp[n].ch \in Channels
      /\ NoReply \in Replies
  BY CpKinds DEF IInv, TypeOK, Replies
<1>3. ASSUME NEW amount \in Fills, FillNew(n, amount)
      PROVE  IInv'
  <2>1. PICK tx \in NewChannelTxs : tx = [bal |-> [i \in Node |-> IF i = n THEN amount ELSE 0]]
    BY AmountsAssumption DEF NewChannelTxs, Balances
  <2>2. PICK c : c = [pc |-> "propose_channel", op |-> ops[n] + 1, tx |-> tx, reply |-> NoReply]
    OBVIOUS
  <2>3. c \in Calls /\ Request(n, c.op, c.pc, tx, TRUE) \in Requests
    BY <1>2, <2>2 DEF Calls, Requests, Request
  <2>4. Asks(n, c, tx) /\ ops' \in [Node -> Nat] /\ UNCHANGED <<asked, collected>>
    BY <1>2, <1>3, <2>1, <2>2 DEF FillNew, Asks, MayCall, Await, blockchain
  <2>5. CallMatches(n)'
    BY <1>2, <1>3, <2>1, <2>2 DEF FillNew, Await, CallMatches, Notified
  <2> QED
    BY <1>2, <2>2, <2>3, <2>4, <2>5, AskStep DEF Asking, Proposing
<1>4. ASSUME NEW bal \in Balances, ProposeReDraw(n, bal), MayCall(n), cp[n].st = "Open"
      PROVE  IInv'
  <2>1. PICK ch \in Channels : ch = cp[n].ch /\ cp[n] = Open(ch)
    BY <1>2, <1>4
  <2>2. PICK tx \in ReDrawTxs : tx = [seq |-> ch.seq + 1, old |-> ch.bal, new |-> bal]
    <3>1. ch.seq + 1 \in Nat /\ ch.bal \in Balances
      BY DEF Channels
    <3> QED
      BY <3>1 DEF ReDrawTxs
  <2>3. PICK c : c = [pc |-> "propose_re_draw", op |-> ops[n] + 1, ch |-> ch, tx |-> tx,
                      reply |-> NoReply]
    OBVIOUS
  <2>4. c \in Calls /\ Request(n, c.op, c.pc, tx, TRUE) \in Requests
    BY <1>2, <2>3 DEF Calls, Requests, Request
  <2>5. Asks(n, c, tx) /\ ops' \in [Node -> Nat] /\ UNCHANGED <<cp, asked, collected>>
        /\ call' = [call EXCEPT ![n] = c]
    <3>1. /\ Await(n, c, tx) /\ ops' = [ops EXCEPT ![n] = @ + 1]
          /\ UNCHANGED <<cp, srv, pool, chain, asked, collected>>
      BY <1>4, <2>1, <2>2, <2>3, Zenon DEF ProposeReDraw, blockchain
    <3> QED
      BY <1>2, <1>4, <3>1 DEF Asks, MayCall, Await
  <2>6. CallMatches(n)'
    BY <1>2, <2>1, <2>2, <2>3, <2>5 DEF CallMatches, Notified
  <2> QED
    BY <1>2, <1>4, <2>1, <2>2, <2>3, <2>4, <2>5, <2>6, AskStep DEF Asking, Proposing
<1>5. ASSUME NEW amount \in Fills, FillOpen(n, amount)
      PROVE  IInv'
  <2>1. [cp[n].ch.bal EXCEPT ![n] = @ + amount] \in Balances
    BY <1>2, <1>5, AmountsAssumption DEF FillOpen, Channels, Balances
  <2> QED
    BY <1>4, <1>5, <2>1 DEF FillOpen
<1>6. ASSUME NEW amount \in Withdrawals, Withdraw(n, amount)
      PROVE  IInv'
  <2>1. [cp[n].ch.bal EXCEPT ![n] = @ - amount] \in Balances
    BY <1>2, <1>6, AmountsAssumption DEF Withdraw, Channels, Balances
  <2> QED
    BY <1>4, <1>6, <2>1 DEF Withdraw
<1>7. ASSUME NEW amount \in Payments, Pay(n, amount)
      PROVE  IInv'
  <2>1. PICK ch \in Channels : ch = cp[n].ch /\ cp[n] = Open(ch) /\ ch.bal[n] >= amount
    BY <1>2, <1>7, AmountsAssumption DEF Pay, NotEnough, Channels, Balances
  <2>2. amount \in Nat
    BY AmountsAssumption
  <2>3. PICK clone \in Channels :
            /\ clone = MakePayment(ch, n, amount, ch.seq)
            /\ clone.seq = ch.seq + 1 /\ clone.bal[n] = ch.bal[n] - amount
    <3>1. Moved(ch.bal, n, amount) \in Balances /\ Moved(ch.bal, n, amount)[n] = ch.bal[n] - amount
      BY <2>1, <2>2 DEF Moved, Channels, Balances
    <3>2. MakePayment(ch, n, amount, ch.seq) \in Channels
      BY <3>1 DEF MakePayment, Channels
    <3> QED
      BY <3>1, <3>2 DEF MakePayment
  <2>4. PICK c : c = [pc |-> "receive_payment", op |-> ops[n] + 1, ch |-> clone,
                      amount |-> amount, reply |-> NoReply]
    OBVIOUS
  <2>5. c \in Calls /\ Request(n, c.op, c.pc, UpdateOf(clone), TRUE) \in Requests
    BY <1>2, <2>2, <2>4 DEF Calls, Requests, Request, UpdateOf, UpdateTxs, Channels
  <2>6. Asks(n, c, UpdateOf(clone)) /\ ops' \in [Node -> Nat] /\ asked' \in [Node -> Nat]
        /\ UNCHANGED <<cp, collected>> /\ call' = [call EXCEPT ![n] = c]
    <3>1. /\ Await(n, c, UpdateOf(clone)) /\ ops' = [ops EXCEPT ![n] = @ + 1]
          /\ asked' = [asked EXCEPT ![n] = @ + amount] /\ MayCall(n) /\ cp[n].st = "Open"
          /\ UNCHANGED <<cp, srv, pool, chain, collected>>
      BY <1>7, <2>1, <2>3, <2>4, Zenon DEF Pay, blockchain
    <3> QED
      BY <1>2, <2>2, <3>1 DEF Asks, MayCall, Await
  <2>7. CallMatches(n)'
    BY <1>2, <1>7, <2>1, <2>3, <2>4, <2>6 DEF CallMatches, Notified, NoReply, Signed, Pay, Open
  <2>8. UpdateOf(clone).seq = cp[n].ch.seq + 1 /\ UpdateOf(clone).bal[n] <= cp[n].ch.bal[n]
    <3>1. ch.bal[n] \in Nat
      BY DEF Channels, Balances
    <3>2. UpdateOf(clone).seq = ch.seq + 1 /\ UpdateOf(clone).bal[n] = ch.bal[n] - amount
      BY <2>3 DEF UpdateOf
    <3>3. cp[n].ch.bal[n] \in Nat /\ UpdateOf(clone).bal[n] = cp[n].ch.bal[n] - amount
      BY <2>1, <3>1, <3>2
    <3>4. UpdateOf(clone).bal[n] <= cp[n].ch.bal[n]
      BY <2>2, <3>3
    <3>5. UpdateOf(clone).seq = cp[n].ch.seq + 1
      BY <2>1, <3>2
    <3> QED
      BY <3>4, <3>5
  <2> QED
    BY <1>2, <1>7, <2>4, <2>5, <2>6, <2>7, <2>8, AskStep DEF Asking, Proposing, Pay
<1>8. ASSUME CheckAccrual(n)
      PROVE  IInv'
  <2>1. HasChannel(cp[n]) /\ cp[n].ch \in Channels /\ cp[n].ch.accrual > 0 /\ call[n] = Idle
        /\ srv[n] = NotServing /\ UNCHANGED <<call, srv, net, pool, chain, ops, asked>>
    BY <1>2, <1>8, CpKinds DEF CheckAccrual, HasChannel, Free, blockchain
  <2>2. PICK s : s = [cp[n] EXCEPT !.ch = AccrualTaken(cp[n].ch)]
    OBVIOUS
  <2>3. cp' = [cp EXCEPT ![n] = s]
    BY <1>8, <2>2, Zenon DEF CheckAccrual
  <2>4. /\ s \in Counterparties /\ s.st = cp[n].st /\ s.ch \in Channels
        /\ s.ch.seq = cp[n].ch.seq /\ s.ch.bal = cp[n].ch.bal
        /\ s.st # "Open" => s.tx = cp[n].tx
    BY <1>2, <2>1, <2>2, CpKinds
       DEF Counterparties, HasChannel, AccrualTaken, Channels, Open, ReDrawing, OtherReDrawing
  <2>5. cp'[n] = s /\ cp'[p] = cp[p] /\ cp' \in [Node -> Counterparties]
    BY <1>1, <1>2, <2>3, <2>4
  <2>6. collected' \in [Node -> Nat]
    BY <1>2, <1>8, <2>1 DEF CheckAccrual, Channels
  <2>7. TypeOK' /\ HandlersOK' /\ OneAnswered'
    BY <1>1, <2>1, <2>4, <2>5, <2>6 DEF IInv, TypeOK, HandlersOK, OneAnswered, Waiting
  <2>8. RequestsOK'
    <3>1. ASSUME NEW q \in InFlight
          PROVE  (OfCall(q) /\ InReach(q) /\ Covered(q) /\ Announced(q))'
      <4>1. OfCall(q) /\ InReach(q) /\ Covered(q) /\ Announced(q) /\ q.from \in {n, p}
        BY <1>1, Sender, RequestKinds
      <4>2. OfCall(q)' /\ Announced(q)'
        BY <1>1, <2>1, <2>4, <2>5, <4>1 DEF OfCall, Announced, Settled, Settlement, HasChannel
      <4>3. InReach(q)' /\ Covered(q)'
        BY <1>1, <2>1, <2>4, <2>5, <4>1 DEF InReach, Covered, Outdated, HasChannel
      <4> QED
        BY <4>2, <4>3
    <3> QED
      BY <2>1, <3>1 DEF RequestsOK, InFlight, Handled
  <2>9. CallMatches(n)' /\ CallMatches(p)'
    BY <1>1, <2>1, <2>5 DEF IInv, CallMatches, Idle, Notified, Settled, Settlement
  <2>10. AnswerMeans(n)' /\ AnswerMeans(p)'
    BY <1>1, <2>1, <2>4, <2>5 DEF IInv, AnswerMeans, Idle, HasChannel, OtherCreating, NoneAbove, Notified
  <2>11. SignedOK(n)' /\ SignedOK(p)' /\ PeerBlocked(n)' /\ PeerBlocked(p)'
    BY <1>1, <2>1, <2>4, <2>5 DEF IInv, SignedOK, PeerBlocked, Settling
  <2>12. CreatingOK(n)' /\ CreatingOK(p)'
    <3>1. cp[p].st # "Creating"
      BY <1>1, <2>1 DEF IInv, CreatingOK, HasChannel, OtherCreating, Open, NewChannel
    <3> QED
      BY <1>1, <2>1, <2>4, <2>5, <3>1 DEF CreatingOK, HasChannel
  <2>13. ReDrawingOK(n)' /\ ReDrawingOK(p)'
    BY <1>1, <2>1, <2>4, <2>5 DEF IInv, ReDrawingOK, Settled, Settlement, NoneAbove
  <2>14. PoolOK' /\ ChainOK'
    BY <1>1, <2>1, <2>4, <2>5
       DEF IInv, PoolOK, ChainOK, Settling, HasChannel, IsReDraw, TypeOK, Transactions
  <2>15. SeqOK' /\ FundsBacked' /\ OwnShareLeast'
    BY <1>1, <2>1, <2>4, <2>5 DEF IInv, SeqOK, FundsBacked, OwnShareLeast, HasChannel
  <2> QED
    BY <1>1, <2>7, <2>8, <2>9, <2>10, <2>11, <2>12, <2>13, <2>14, <2>15 DEF IInv
<1> QED
  BY <1>3, <1>5, <1>6, <1>7, <1>8 DEF UserCall

----------------------------------------------------------------------------
(* A call ends with an error.                                              *)

\* A call that awaits no answer has no request whose sender still waits.
LEMMA NoneLive ==
    ASSUME IInv, NEW n \in Node,
           call[n].pc \notin HttpCalls \/ call[n].reply # NoReply
    PROVE  \A q \in InFlight : q.from = n => ~q.live
BY Sender, RequestKinds DEF OfCall

\* A call that ends with nothing on its way leaves the rest as it is.
LEMMA EndStep ==
    ASSUME IInv, NEW n \in Node,
           CallRefused(n) \/ EventFails(n) \/ SendFails(n)
    PROVE  IInv'
<1> DEFINE p == Peer(n)
<1>1. p \in Node /\ p # n /\ Peer(p) = n /\ Node = {n, p}
  BY TwoNodes
<1>2. call \in [Node -> Calls] /\ cp \in [Node -> Counterparties] /\ Idle \in Calls
  BY DEF IInv, TypeOK, Calls
<1>3. /\ call' = [call EXCEPT ![n] = Idle] /\ call[n] # Idle
      /\ UNCHANGED <<cp, srv, net, chain, user>>
      /\ \/ pool' = pool
         \/ call[n].pc = "send" /\ pool' = pool \cup {Transaction(n)}
      /\ call[n].pc \notin HttpCalls \/ call[n].reply # NoReply
  BY DEF CallRefused, EventFails, SendFails, Return, blockchain, Idle, HttpCalls, Refused, NoReply
<1>4. \A q \in InFlight : q.from = n => ~q.live
  BY <1>3, NoneLive
<1>5. InFlight' = InFlight
  BY <1>3 DEF InFlight, Handled
<1>6. call[n].pc = "send" =>
          /\ Transaction(n) = Settlement(n) /\ Settling(n) /\ ~Settled(n)
          /\ Settlement(n) \in Transactions
  <2> SUFFICES ASSUME call[n].pc = "send"
               PROVE  /\ Transaction(n) = Settlement(n) /\ Settling(n) /\ ~Settled(n)
                      /\ Settlement(n) \in Transactions
    OBVIOUS
  <2>1. /\ cp[n] = Creating(call[n].tx) \/ cp[n] = ReDrawing(call[n].ch, call[n].tx)
        /\ ~Settled(n)
    BY DEF IInv, CallMatches
  <2>2. cp[n].tx = call[n].tx /\ cp[n].st \in {"Creating", "ReDrawing"}
    BY <2>1 DEF Creating, ReDrawing
  <2>3. cp[n].tx \in NewChannelTxs \cup ReDrawTxs
    BY <1>2, <2>2, CpKinds
  <2> QED
    BY <2>1, <2>2, <2>3 DEF Transaction, Settlement, Settling, Transactions
<1>7. TypeOK'
  BY <1>1, <1>2, <1>3, <1>6 DEF IInv, TypeOK, user
<1>8. Over(n) /\ Stored(p) /\ HandlersOK' /\ NoneNew(n) /\ NoneNew(p) /\ Left(n)
      /\ pool' \subseteq pool \cup {Settlement(n)}
  BY <1>3, <1>4, <1>5, <1>6 DEF Over, Stored, IInv, HandlersOK, NoneNew, Same, Left
<1>9. PoolOK'
  BY <1>3, <1>6 DEF IInv, PoolOK, Settling, Settlement, Settled
<1>10. RequestsOK'
  BY <1>3, <1>8, RequestsOver
<1> QED
  BY <1>3, <1>7, <1>8, <1>9, <1>10, CallOver

\* An HTTP call ends without its answer; its request may be handled later.
LEMMA TimeoutStep ==
    ASSUME IInv, NEW n \in Node, Timeout(n)
    PROVE  IInv'
<1> DEFINE p == Peer(n)
           mine(r) == r.from = n /\ r.live
           left(r) == IF mine(r) THEN [r EXCEPT !.live = FALSE] ELSE r
<1>1. p \in Node /\ p # n /\ Peer(p) = n /\ Node = {n, p}
  BY TwoNodes
<1>2. /\ call \in [Node -> Calls] /\ cp \in [Node -> Counterparties] /\ Idle \in Calls
      /\ srv \in [Node -> Requests \cup {NotServing}] /\ net \subseteq Requests
  BY DEF IInv, TypeOK, Calls
<1>3. /\ call' = [call EXCEPT ![n] = Idle] /\ call[n] # Idle
      /\ UNCHANGED <<cp, pool, chain, user>>
  BY DEF Timeout, Return, blockchain, Idle, HttpCalls
<1>4. ASSUME NEW r \in Requests
      PROVE  /\ left(r) \in Requests /\ Same(left(r), r) /\ ~mine(left(r))
             /\ ~mine(r) => left(r) = r
             /\ left(r) # NotServing /\ r # NotServing
  <2>1. CASE mine(r)
    <3>1. left(r) = [r EXCEPT !.live = FALSE]
      BY <2>1
    <3>2. left(r) \in Requests /\ Same(left(r), r) /\ ~left(r).live
      BY <3>1 DEF Requests, Same
    <3> QED
      BY <2>1, <3>2, RequestKinds
  <2>2. CASE ~mine(r)
    BY <2>2, RequestKinds DEF Same
  <2> QED
    BY <2>1, <2>2
<1>5. /\ \A r \in net' : \E q \in net : r = left(q) /\ ~mine(r)
      /\ srv' \in [Node -> Requests \cup {NotServing}]
      /\ \A m \in Node : srv'[m] # NotServing =>
             srv[m] # NotServing /\ srv'[m] = left(srv[m]) /\ ~mine(srv'[m])
  <2>1. CASE /\ net' = {left(r) : r \in net}
             /\ srv' = [m \in Node |-> IF srv[m] # NotServing /\ mine(srv[m])
                                       THEN left(srv[m]) ELSE srv[m]]
    BY <1>2, <1>4, <2>1
  <2>2. CASE /\ net' = {r \in net : ~mine(r)}
             /\ srv' = [m \in Node |-> IF srv[m] # NotServing /\ mine(srv[m])
                                       THEN NotServing ELSE srv[m]]
    BY <1>2, <1>4, <2>2
  <2> QED
    BY <2>1, <2>2 DEF Timeout
<1> HIDE DEF left
<1>6. Over(n) /\ Stored(p) /\ NoneNew(n) /\ NoneNew(p)
  BY <1>2, <1>3, <1>4, <1>5 DEF Over, Stored, NoneNew
<1>7. Left(n)
  BY <1>1, <1>2, <1>3, <1>4, <1>5 DEF Left, InFlight, Handled, Same
<1>8. HandlersOK'
  <2>1. ASSUME NEW m \in Node, srv'[m] # NotServing
        PROVE  /\ srv'[m].kind \in DOMAIN Notified /\ srv'[m].from = Peer(m)
               /\ srv'[m].live => srv'[m] \notin net'
    <3>1. /\ srv[m] \in Requests /\ srv'[m] = left(srv[m]) /\ ~mine(srv'[m])
          /\ srv[m].kind \in DOMAIN Notified /\ srv[m].from = Peer(m)
          /\ srv[m].live => srv[m] \notin net
      BY <1>2, <1>5, <2>1 DEF IInv, HandlersOK
    <3>2. srv'[m].kind = srv[m].kind /\ srv'[m].from = srv[m].from
          /\ (srv'[m].live => srv[m].live)
      BY <1>4, <3>1 DEF Same
    <3>3. ASSUME srv'[m].live, srv'[m] \in net'
          PROVE  FALSE
      <4>1. srv'[m].from # n
        BY <3>1, <3>3
      <4>2. srv'[m] = srv[m]
        BY <1>4, <3>1, <3>2, <4>1
      <4>3. PICK q \in net : srv'[m] = left(q)
        BY <1>5, <3>3
      <4>4. q = srv'[m]
        BY <1>2, <1>4, <4>1, <4>3 DEF Same
      <4> QED
        BY <3>1, <3>2, <3>3, <4>2, <4>4
    <3> QED
      BY <3>1, <3>2, <3>3
  <2> QED
    BY <2>1 DEF HandlersOK
<1>9. TypeOK'
  <2>1. net' \subseteq Requests
    BY <1>2, <1>4, <1>5
  <2>2. ASSUME NEW m \in Node, srv'[m] # NotServing
        PROVE  cp'[m].st = Notified[srv'[m].kind] /\ call'[m] = Idle
    <3>1. srv[m] # NotServing /\ srv'[m].kind = srv[m].kind
      BY <1>2, <1>4, <1>5, <2>2 DEF Same
    <3> QED
      BY <1>2, <1>3, <3>1 DEF IInv, TypeOK
  <2> QED
    BY <1>2, <1>3, <1>5, <2>1, <2>2 DEF IInv, TypeOK, user
<1>10. PoolOK' /\ pool' \subseteq pool \cup {Settlement(n)}
  BY <1>3, Senders DEF IInv, PoolOK, Settling
<1>11. RequestsOK'
  BY <1>3, <1>6, <1>7, RequestsOver
<1> QED
  BY <1>3, <1>6, <1>8, <1>9, <1>10, <1>11, CallOver

\* The second request of a stale payment: nobody awaits its answer.
LEMMA PaymentStaleStep ==
    ASSUME IInv, NEW n \in Node, PaymentStale(n)
    PROVE  IInv'
<1> DEFINE p == Peer(n)
<1>1. p \in Node /\ p # n /\ Peer(p) = n /\ Node = {n, p}
  BY TwoNodes
<1>2. /\ call \in [Node -> Calls] /\ cp \in [Node -> Counterparties] /\ Idle \in Calls
      /\ net \subseteq Requests
  BY DEF IInv, TypeOK, Calls
<1>3. PICK c \in Calls :
          /\ c = call[n] /\ c.pc = "receive_payment" /\ c.reply.tag = "seq"
          /\ c.ch \in Channels /\ c.amount \in Nat /\ c.op \in Nat /\ c.reply.seq \in Nat
          /\ c # Idle /\ c.reply # NoReply
  BY <1>2, CallKinds DEF PaymentStale, Replies, NoReply, Signed, Done, Refused, Idle
<1>4. /\ cp[n].st = "Open" /\ cp[n].ch \in Channels
      /\ ~NotEnough(cp[n].ch, n, c.amount)
      /\ c.ch = MakePayment(cp[n].ch, n, c.amount, cp[n].ch.seq)
      /\ HasChannel(cp[p]) /\ c.reply.seq <= cp[p].ch.seq /\ cp[p].ch.seq \in Nat
  <2>1. HasChannel(cp[p]) /\ c.reply.seq <= cp[p].ch.seq
    BY <1>3 DEF IInv, AnswerMeans
  <2>2. cp[p].ch.seq \in Nat
    BY <1>1, <1>2, <2>1, CpKinds DEF HasChannel, Channels
  <2> QED
    BY <1>2, <1>3, <2>1, <2>2, CpKinds DEF IInv, CallMatches
<1>5. /\ call' = [call EXCEPT ![n] = Idle]
      /\ UNCHANGED <<cp, srv, pool, chain, user>>
  BY DEF PaymentStale, Return, blockchain
<1>6. \A q \in InFlight : q.from = n => ~q.live
  BY <1>3, NoneLive
<1>7. \A q \in net' : q \in net \/ (/\ q \in Requests /\ q.from = n /\ ~q.live
                                    /\ q.kind = "receive_payment"
                                    /\ q.body.seq = c.reply.seq + 1
                                    /\ q.body.bal[n] <= cp[n].ch.bal[n])
  <2>1. CASE NotEnough(c.ch, n, c.amount)
    BY <1>3, <2>1 DEF PaymentStale
  <2>2. CASE ~NotEnough(c.ch, n, c.amount)
    <3>1. PICK b \in UpdateTxs :
              /\ b = UpdateOf(MakePayment(c.ch, n, c.amount, c.reply.seq))
              /\ b.seq = c.reply.seq + 1 /\ b.bal[n] = c.ch.bal[n] - c.amount
      <4>1. c.ch.bal \in Balances /\ c.ch.bal[n] >= c.amount
        BY <1>3, <2>2 DEF NotEnough, Channels, Balances
      <4>2. Moved(c.ch.bal, n, c.amount) \in Balances
            /\ Moved(c.ch.bal, n, c.amount)[n] = c.ch.bal[n] - c.amount
        BY <1>3, <4>1 DEF Moved, Balances
      <4>3. UpdateOf(MakePayment(c.ch, n, c.amount, c.reply.seq))
                = [seq |-> c.reply.seq + 1, bal |-> Moved(c.ch.bal, n, c.amount)]
        BY DEF UpdateOf, MakePayment
      <4>4. c.reply.seq + 1 \in Nat
        BY <1>3
      <4> QED
        BY <4>2, <4>3, <4>4 DEF UpdateTxs
    <3>2. c.ch.bal[n] = cp[n].ch.bal[n] - c.amount /\ c.ch.bal[n] \in Nat /\ cp[n].ch.bal[n] \in Nat
      BY <1>3, <1>4 DEF MakePayment, Moved, Channels, Balances
    <3>3. b.bal[n] <= cp[n].ch.bal[n]
      BY <1>3, <3>1, <3>2
    <3>4. PICK w \in Requests :
              /\ w = Request(n, c.op, c.pc, b, FALSE)
              /\ w.from = n /\ ~w.live /\ w.kind = "receive_payment" /\ w.body = b
      <4>1. Request(n, c.op, c.pc, b, FALSE) \in Requests
        BY <1>3 DEF Request, Requests
      <4> QED
        BY <1>3, <4>1 DEF Request
    <3>5. net' = net \cup {w}
      BY <1>3, <2>2, <3>1, <3>4 DEF PaymentStale
    <3> QED
      BY <3>1, <3>3, <3>4, <3>5
  <2> QED
    BY <2>1, <2>2
<1>8. \A q \in InFlight' : q \in InFlight \/ q \in net'
  BY <1>5 DEF InFlight, Handled
<1>9. RequestsOK'
  <2>1. ASSUME NEW q \in InFlight, ~(q.from = n /\ q.live)
        PROVE  (OfCall(q) /\ InReach(q) /\ Covered(q) /\ Announced(q))'
    <3>1. OfCall(q) /\ InReach(q) /\ Covered(q) /\ Announced(q) /\ q.from \in {n, p}
      BY <1>1, Sender, RequestKinds
    <3>2. OfCall(q)' /\ Announced(q)'
      BY <1>1, <1>2, <1>5, <2>1, <3>1 DEF OfCall, Announced, Settled, Settlement
    <3> QED
      BY <1>5, <3>1, <3>2 DEF InReach, Covered, Outdated, HasChannel
  <2>2. ASSUME NEW q \in net', q \notin net
        PROVE  (OfCall(q) /\ InReach(q) /\ Covered(q) /\ Announced(q))'
    <3>1. /\ q.from = n /\ ~q.live /\ q.kind = "receive_payment"
          /\ q.body.seq = c.reply.seq + 1 /\ q.body.bal[n] <= cp[n].ch.bal[n]
      BY <1>7, <2>2
    <3>2. q.body.seq <= cp[p].ch.seq + 1
      BY <1>3, <1>4, <3>1
    <3>3. InReach(q)'
      BY <1>4, <1>5, <3>1, <3>2 DEF InReach, HasChannel
    <3> QED
      BY <1>5, <3>1, <3>3 DEF OfCall, Covered, Announced, Notified
  <2> QED
    BY <1>6, <1>8, <2>1, <2>2 DEF RequestsOK, InFlight
<1>10. TypeOK' /\ HandlersOK'
  <2>1. net' \subseteq Requests
    BY <1>2, <1>7
  <2>2. HandlersOK'
    BY <1>1, <1>5, <1>7 DEF IInv, HandlersOK
  <2> QED
    BY <1>1, <1>2, <1>5, <2>1, <2>2 DEF IInv, TypeOK, user
<1>11. NoneNew(p) /\ cp[n].st # "ReDrawing"
  BY <1>1, <1>4, <1>7 DEF NoneNew, Same
<1>12. Over(n) /\ Stored(p) /\ PoolOK' /\ pool' \subseteq pool \cup {Settlement(n)}
  BY <1>5 DEF Over, Stored, IInv, PoolOK, Settling
<1> QED
  BY <1>5, <1>9, <1>10, <1>11, <1>12, CallOver

----------------------------------------------------------------------------
(* A settlement goes to the contract, and its call goes on.                *)

\* What a call that settles has reached.
LEMMA SettlingCall ==
    ASSUME IInv, NEW n \in Node, call[n].pc \in {"send", "event"} \cup DOMAIN Notified
    PROVE  /\ \/ cp[n].st = "Creating" /\ call[n].pc # "notify_re_draw"
              \/ cp[n].st = "ReDrawing" /\ call[n].pc # "notify_channel_opened"
           /\ cp[n].tx = call[n].tx
           /\ cp[n].st = "ReDrawing" => cp[n].ch = call[n].ch
           /\ Transaction(n) = Settlement(n) /\ Settlement(n) \in Transactions
           /\ Waiting(Peer(n)) /\ call[n] # Idle
<1>1. cp[n] \in Counterparties
  BY DEF IInv, TypeOK
<1>2. \/ cp[n] = Creating(call[n].tx) /\ call[n].pc # "notify_re_draw"
      \/ cp[n] = ReDrawing(call[n].ch, call[n].tx) /\ call[n].pc # "notify_channel_opened"
  BY DEF IInv, CallMatches
<1>3. cp[n].tx = call[n].tx /\ cp[n].tx \in NewChannelTxs \cup ReDrawTxs
  BY <1>1, <1>2, CpKinds DEF Creating, ReDrawing
<1>4. ~Waiting(n)
  BY DEF Waiting, Asking, Proposing, Notified, Idle
<1> QED
  BY <1>2, <1>3, <1>4, TwoNodes
     DEF Creating, ReDrawing, Transaction, Settlement, Transactions, IInv, OneAnswered, Waiting

\* The transaction is sent, or the call fails while it may get through.
LEMMA SendStep ==
    ASSUME IInv, NEW n \in Node, SendTransaction(n)
    PROVE  IInv'
<1> DEFINE p == Peer(n)
<1>1. p \in Node /\ p # n /\ Peer(p) = n /\ Node = {n, p}
  BY TwoNodes
<1>2. call \in [Node -> Calls] /\ cp \in [Node -> Counterparties]
  BY DEF IInv, TypeOK
<1>3. PICK c \in Calls : c = call[n] /\ c.pc = "send" /\ c.reply = NoReply
  BY <1>2 DEF SendTransaction, IInv, CallMatches
<1>4. PICK d : d = [c EXCEPT !.pc = "event"]
  OBVIOUS
<1>5. /\ call' = [call EXCEPT ![n] = d] /\ pool' = pool \cup {Transaction(n)}
      /\ UNCHANGED <<cp, srv, net, chain, user>>
  BY <1>3, <1>4, Zenon DEF SendTransaction
<1>6. /\ d \in Calls /\ d.pc = "event" /\ d.op = c.op /\ d.reply = NoReply /\ d.tx = c.tx
      /\ c.tx \in ReDrawTxs => d.ch = c.ch
  <2>1. CASE c \in [pc : {"send"}, op : Nat, tx : NewChannelTxs, reply : Replies]
    BY <1>3, <1>4, <2>1 DEF Calls, NewChannelTxs, ReDrawTxs
  <2>2. CASE c \in [pc : {"send"}, op : Nat, ch : Channels, tx : ReDrawTxs, reply : Replies]
    BY <1>3, <1>4, <2>2 DEF Calls
  <2> QED
    BY <1>3, <2>1, <2>2 DEF Calls, Idle
<1>7. /\ cp[n].st \in {"Creating", "ReDrawing"} /\ Transaction(n) = Settlement(n)
      /\ Settlement(n) \in Transactions /\ Waiting(p) /\ ~Settled(n)
      /\ \/ cp[n] = Creating(c.tx)
         \/ cp[n] = ReDrawing(c.ch, c.tx) /\ c.tx \in ReDrawTxs
  <2>1. cp[n] = Creating(c.tx) \/ cp[n] = ReDrawing(c.ch, c.tx)
    BY <1>3 DEF IInv, CallMatches
  <2>2. cp[n] = Creating(c.tx) \/ (cp[n] = ReDrawing(c.ch, c.tx) /\ c.tx \in ReDrawTxs)
    BY <1>2, <2>1, CpKinds DEF ReDrawing
  <2> QED
    BY <1>3, <2>2, SettlingCall DEF IInv, CallMatches
<1>8. /\ call'[n] = d /\ call'[p] = call[p] /\ call' \in [Node -> Calls]
      /\ srv[n] = NotServing
  BY <1>1, <1>2, <1>3, <1>5, <1>6, <1>7, SettlingCall DEF IInv, TypeOK
<1>9. TypeOK' /\ HandlersOK'
  BY <1>1, <1>5, <1>7, <1>8 DEF IInv, TypeOK, HandlersOK, user
<1>10. InFlight' = InFlight /\ \A q \in InFlight : q.from = n => ~q.live
  BY <1>3, <1>5, NoneLive DEF InFlight, Handled, HttpCalls
<1>11. RequestsOK'
  <2>1. ASSUME NEW q \in InFlight
        PROVE  (OfCall(q) /\ InReach(q) /\ Covered(q) /\ Announced(q))'
    <3>1. OfCall(q) /\ InReach(q) /\ Covered(q) /\ Announced(q) /\ q.from \in {n, p}
      BY <1>1, Sender, RequestKinds
    <3>2. OfCall(q)' /\ Announced(q)'
      BY <1>3, <1>5, <1>7, <1>8, <1>10, <3>1, SettlingCall
         DEF OfCall, Announced, Settled, Settlement
    <3> QED
      BY <1>5, <3>1, <3>2 DEF InReach, Covered, Outdated, HasChannel
  <2> QED
    BY <1>10, <2>1 DEF RequestsOK
<1>12. OneAnswered'
  BY <1>1, <1>7, <1>8 DEF OneAnswered, Waiting
<1>13. CallMatches(n)'
  <2>1. cp[n] = Creating(d.tx) \/ cp[n] = ReDrawing(d.ch, d.tx)
    BY <1>6, <1>7
  <2> QED
    BY <1>5, <1>6, <1>8, <2>1 DEF CallMatches, Notified
<1>14. CallMatches(p)'
  <2>1. Settlement(p) # Settlement(n)
    BY <1>1 DEF Settlement
  <2> QED
    BY <1>1, <1>5, <1>7, <1>8, <2>1 DEF IInv, CallMatches, Settlement, Settled
<1>15. AnswerMeans(n)' /\ AnswerMeans(p)'
  BY <1>1, <1>5, <1>6, <1>8 DEF IInv, AnswerMeans, NoneAbove, Notified
<1>16. (SignedOK(n) /\ SignedOK(p) /\ CreatingOK(n) /\ CreatingOK(p) /\ ReDrawingOK(n)
        /\ ReDrawingOK(p))'
  BY <1>1, <1>5 DEF IInv, SignedOK, CreatingOK, ReDrawingOK, Settled, Settlement, NoneAbove
<1>17. PeerBlocked(n)' /\ PeerBlocked(p)'
  BY <1>1, <1>5, <1>6, <1>8 DEF IInv, PeerBlocked, Settling
<1>18. PoolOK'
  BY <1>5, <1>7 DEF IInv, PoolOK, Settling, Settlement, Settled
<1>19. (ChainOK /\ SeqOK /\ FundsBacked /\ OwnShareLeast)'
  BY <1>5 DEF IInv, ChainOK, SeqOK, FundsBacked, OwnShareLeast, IsReDraw
<1> QED
  BY <1>1, <1>9, <1>11, <1>12, <1>13, <1>14, <1>15, <1>16, <1>17, <1>18, <1>19 DEF IInv

\* The event is seen and the peer notified, or the wait fails.
LEMMA EventStep ==
    ASSUME IInv, NEW n \in Node, EventSeen(n)
    PROVE  IInv'
<1> DEFINE p == Peer(n)
           kind == IF cp[n].st = "Creating" THEN "notify_channel_opened" ELSE "notify_re_draw"
<1>1. p \in Node /\ p # n /\ Peer(p) = n /\ Node = {n, p}
  BY TwoNodes
<1>2. call \in [Node -> Calls] /\ cp \in [Node -> Counterparties] /\ net \subseteq Requests
  BY DEF IInv, TypeOK
<1>3. PICK c \in Calls : c = call[n] /\ c.pc = "event" /\ c.reply = NoReply
  BY <1>2 DEF EventSeen, IInv, CallMatches
<1>4. PICK d : d = [c EXCEPT !.pc = kind]
  OBVIOUS
<1>5. /\ Transaction(n) = Settlement(n) /\ Settled(n) /\ Waiting(p) /\ c # Idle
      /\ \/ cp[n] = Creating(c.tx) /\ kind = "notify_channel_opened" /\ c.tx \in NewChannelTxs
         \/ cp[n] = ReDrawing(c.ch, c.tx) /\ kind = "notify_re_draw" /\ c.tx \in ReDrawTxs
  <2>1. cp[n] = Creating(c.tx) \/ cp[n] = ReDrawing(c.ch, c.tx)
    BY <1>3 DEF IInv, CallMatches
  <2>2. \/ cp[n] = Creating(c.tx) /\ c.tx \in NewChannelTxs
        \/ cp[n] = ReDrawing(c.ch, c.tx) /\ c.tx \in ReDrawTxs
    BY <1>2, <2>1, CpKinds DEF ReDrawing, Creating
  <2>3. Transaction(n) = Settlement(n) /\ Waiting(p) /\ c # Idle
    BY <1>3, SettlingCall
  <2> QED
    BY <2>2, <2>3 DEF EventSeen, Settled, Creating, ReDrawing
<1>6. /\ d \in Calls /\ d.pc = kind /\ d.op = c.op /\ d.op \in Nat /\ d.reply = NoReply
      /\ d.tx = c.tx /\ d # Idle
      /\ c.tx \in ReDrawTxs => d.ch = c.ch
  <2>1. CASE c \in [pc : {"event"}, op : Nat, tx : NewChannelTxs, reply : Replies]
    <3>1. kind = "notify_channel_opened" /\ c.tx \notin ReDrawTxs
      BY <1>5, <2>1 DEF NewChannelTxs, ReDrawTxs
    <3> HIDE DEF kind
    <3> QED
      BY <1>3, <1>4, <2>1, <3>1 DEF Calls, Idle
  <2>2. CASE c \in [pc : {"event"}, op : Nat, ch : Channels, tx : ReDrawTxs, reply : Replies]
    <3>1. kind = "notify_re_draw"
      BY <1>5, <2>2 DEF NewChannelTxs, ReDrawTxs
    <3> HIDE DEF kind
    <3> QED
      BY <1>3, <1>4, <2>2, <3>1 DEF Calls, Idle
  <2> QED
    BY <1>3, <2>1, <2>2 DEF Calls, Idle
<1> HIDE DEF kind
<1>7. PICK w \in Requests :
          /\ w = Request(n, d.op, kind, <<>>, TRUE)
          /\ w.from = n /\ w.op = d.op /\ w.kind = kind /\ w.live
          /\ w.kind \in DOMAIN Notified
  <2>1. Request(n, d.op, kind, <<>>, TRUE) \in Requests /\ kind \in DOMAIN Notified
    BY <1>5, <1>6, NotifiedKinds DEF Requests, Request
  <2> QED
    BY <2>1 DEF Request
<1>8. /\ call' = [call EXCEPT ![n] = d] /\ net' = net \cup {w}
      /\ UNCHANGED <<cp, srv, pool, chain, user>>
  <2>1. /\ Await(n, [call[n] EXCEPT !.pc = kind], <<>>)
        /\ UNCHANGED <<cp, srv, pool, chain, user>>
    BY Zenon DEF EventSeen, blockchain, kind
  <2>2. Await(n, d, <<>>)
    BY <1>3, <1>4, <2>1, Zenon
  <2> QED
    BY <1>6, <1>7, <2>1, <2>2 DEF Await
<1>9. /\ call'[n] = d /\ call'[p] = call[p] /\ call' \in [Node -> Calls]
      /\ srv[n] = NotServing
  BY <1>1, <1>2, <1>3, <1>5, <1>6, <1>8 DEF IInv, TypeOK
<1>10. InFlight' = InFlight \cup {w} /\ \A q \in InFlight : q.from = n => ~q.live
  BY <1>3, <1>8, NoneLive DEF InFlight, Handled, HttpCalls
<1>11. TypeOK' /\ HandlersOK'
  <2>1. \A m \in Node : srv[m] # NotServing => srv[m] \in InFlight
    BY DEF InFlight, Handled
  <2>2. HandlersOK'
    BY <1>7, <1>8, <1>10, <2>1 DEF IInv, HandlersOK
  <2> QED
    BY <1>1, <1>8, <1>9, <2>2 DEF IInv, TypeOK, user
<1>12. RequestsOK'
  <2>1. ASSUME NEW q \in InFlight
        PROVE  (OfCall(q) /\ InReach(q) /\ Covered(q) /\ Announced(q))'
    <3>1. OfCall(q) /\ InReach(q) /\ Covered(q) /\ Announced(q) /\ q.from \in {n, p}
      BY <1>1, Sender, RequestKinds
    <3>2. OfCall(q)' /\ Announced(q)'
      BY <1>3, <1>5, <1>8, <1>9, <1>10, <3>1 DEF OfCall, Announced, Settled, Settlement
    <3> QED
      BY <1>8, <3>1, <3>2 DEF InReach, Covered, Outdated, HasChannel
  <2>2. OfCall(w)'
    BY <1>5, <1>6, <1>7, <1>9 DEF OfCall, Proposing, Notified
  <2>3. InReach(w)' /\ Covered(w)'
    BY <1>7 DEF InReach, Covered, Numbered, Notified
  <2>4. Announced(w)'
    <3>1. Settled(n)'
      BY <1>5, <1>8 DEF Settled, Settlement
    <3>2. \/ cp'[n].st = "Creating" /\ w.kind = "notify_channel_opened"
          \/ cp'[n].st = "ReDrawing" /\ w.kind = "notify_re_draw"
      <4>1. cp'[n] = cp[n]
        BY <1>8
      <4>2. \/ cp[n].st = "Creating" /\ kind = "notify_channel_opened"
            \/ cp[n].st = "ReDrawing" /\ kind = "notify_re_draw"
        BY <1>5 DEF Creating, ReDrawing
      <4> QED
        BY <1>7, <4>1, <4>2
    <3> QED
      BY <1>7, <3>1, <3>2 DEF Announced
  <2> QED
    BY <1>10, <2>1, <2>2, <2>3, <2>4 DEF RequestsOK
<1>13. OneAnswered'
  BY <1>1, <1>5, <1>9 DEF OneAnswered, Waiting
<1>14. CallMatches(n)'
  <2>1. \/ cp[n] = Creating(d.tx) /\ d.pc = "notify_channel_opened"
        \/ cp[n] = ReDrawing(d.ch, d.tx) /\ d.pc = "notify_re_draw"
    BY <1>5, <1>6
  <2> QED
    BY <1>5, <1>6, <1>8, <1>9, <2>1 DEF CallMatches, Notified, Settled, Settlement
<1>15. CallMatches(p)'
  BY <1>1, <1>8, <1>9 DEF IInv, CallMatches, Settlement, Settled
<1>16. \A m \in Node : \A x : NoneAbove(m, x) => NoneAbove(m, x)'
  BY <1>7, <1>8 DEF NoneAbove, Numbered, Notified
<1>17. AnswerMeans(n)'
  BY <1>5, <1>6, <1>9 DEF AnswerMeans, NoReply, Done
<1>18. AnswerMeans(p)'
  BY <1>1, <1>8, <1>9, <1>16 DEF IInv, AnswerMeans
<1>19. (SignedOK(n) /\ SignedOK(p) /\ CreatingOK(n) /\ CreatingOK(p))'
  BY <1>1, <1>8 DEF IInv, SignedOK, CreatingOK, Settled, Settlement
<1>20. ReDrawingOK(n)' /\ ReDrawingOK(p)'
  BY <1>1, <1>8, <1>16 DEF IInv, ReDrawingOK, Settled, Settlement
<1>21. PeerBlocked(n)' /\ PeerBlocked(p)'
  BY <1>1, <1>6, <1>8, <1>9 DEF IInv, PeerBlocked, Settling
<1>22. (PoolOK /\ ChainOK /\ SeqOK /\ FundsBacked /\ OwnShareLeast)'
  BY <1>8 DEF IInv, PoolOK, ChainOK, SeqOK, FundsBacked, OwnShareLeast, Settling, IsReDraw
<1> QED
  BY <1>1, <1>11, <1>12, <1>13, <1>14, <1>15, <1>17, <1>18, <1>19, <1>20, <1>21, <1>22 DEF IInv

\* The peer has confirmed: the node that settles opens its copy.
LEMMA ConfirmedStep ==
    ASSUME IInv, NEW n \in Node, Confirmed(n)
    PROVE  IInv'
<1> DEFINE p == Peer(n)
<1>1. p \in Node /\ p # n /\ Peer(p) = n /\ Node = {n, p}
  BY TwoNodes
<1>2. /\ call \in [Node -> Calls] /\ cp \in [Node -> Counterparties] /\ Idle \in Calls
      /\ net \subseteq Requests
  BY DEF IInv, TypeOK, Calls
<1>3. PICK c \in Calls : c = call[n] /\ c.pc \in DOMAIN Notified /\ c.reply = Done /\ c # Idle
  BY <1>2 DEF Confirmed, Notified, Idle
<1>4. PICK s : s = IF c.pc = "notify_channel_opened"
                   THEN Open(NewChannel(c.tx.bal))
                   ELSE Open([c.ch EXCEPT !.bal = c.tx.new])
  OBVIOUS
<1>5. /\ cp' = [cp EXCEPT ![n] = s] /\ call' = [call EXCEPT ![n] = Idle]
      /\ UNCHANGED <<srv, net, pool, chain, user>>
  BY <1>3, <1>4, Zenon DEF Confirmed, Return, blockchain
\* Where the redraw or the opening leaves both nodes and the contract.
<1>6. /\ Settled(n) /\ cp[p].st = "Open" /\ cp[p].ch \in Channels
      /\ s \in Counterparties /\ s.st = "Open" /\ s.ch \in Channels
      /\ s.ch.bal = cp[p].ch.bal /\ s.ch.seq <= cp[p].ch.seq
      /\ chain.open /\ chain.total = Total(s.ch.bal) /\ chain.seq <= cp[p].ch.seq
      /\ \/ cp[n].st = "Creating"
         \/ /\ cp[n].st = "ReDrawing" /\ s.ch.seq = cp[n].ch.seq
            /\ NoneAbove(n, cp[p].ch.seq)
  <2>1. Settled(n) /\ cp[p].st = "Open" /\ cp[p].ch \in Channels
    BY <1>1, <1>2, <1>3, CpKinds DEF IInv, CallMatches, AnswerMeans
  <2>2. CASE c.pc = "notify_channel_opened"
    <3>1. cp[n].st = "Creating" /\ cp[n].tx = c.tx /\ c.tx \in NewChannelTxs
      BY <1>2, <1>3, <2>2, SettlingCall, CpKinds
    <3>2. cp[p] = Open(NewChannel(c.tx.bal))
          /\ chain.open /\ chain.seq = 0 /\ chain.total = Total(c.tx.bal)
      <4>1. CreatingOK(n)
        BY DEF IInv
      <4>2. cp[p] = Open(NewChannel(c.tx.bal))
        BY <2>1, <3>1, <4>1 DEF CreatingOK, OtherCreating
      <4> QED
        BY <2>1, <3>1, <4>1, <4>2 DEF CreatingOK
    <3>3. s = cp[p]
      BY <1>4, <2>2, <3>2
    <3> QED
      BY <1>1, <1>2, <2>1, <3>1, <3>2, <3>3 DEF Open, NewChannel, Channels
  <2>3. CASE c.pc = "notify_re_draw"
    <3>1. cp[n].st = "ReDrawing" /\ cp[n].tx = c.tx /\ c.tx \in ReDrawTxs
          /\ cp[n].ch = c.ch /\ c.ch \in Channels
      BY <1>2, <1>3, <2>3, SettlingCall, CpKinds
    <3>2. /\ cp[p].ch.seq = c.tx.seq /\ cp[p].ch.bal = c.tx.new /\ c.tx.seq = c.ch.seq + 1
          /\ chain.open /\ chain.seq = c.tx.seq /\ chain.total = Total(c.tx.new)
          /\ NoneAbove(n, c.tx.seq)
      BY <2>1, <3>1 DEF IInv, ReDrawingOK
    <3>3. PICK ch : ch = [c.ch EXCEPT !.bal = c.tx.new]
      OBVIOUS
    <3>4. ch \in Channels /\ ch.seq = c.ch.seq /\ ch.bal = c.tx.new
      BY <3>1, <3>3 DEF Channels, ReDrawTxs
    <3>5. s = Open(ch)
      BY <1>4, <2>3, <3>3, Zenon
    <3>6. s \in Counterparties /\ s.st = "Open" /\ s.ch = ch
      BY <3>4, <3>5, CpTypes DEF Open
    <3> QED
      BY <2>1, <3>1, <3>2, <3>4, <3>6 DEF Channels, ReDrawTxs
  <2> QED
    BY <1>3, <2>2, <2>3 DEF Notified
<1>7. /\ cp'[n] = s /\ cp'[p] = cp[p] /\ cp' \in [Node -> Counterparties]
      /\ call'[n] = Idle /\ call'[p] = call[p] /\ call' \in [Node -> Calls]
      /\ srv[n] = NotServing
  BY <1>1, <1>2, <1>3, <1>5, <1>6 DEF IInv, TypeOK
<1>8. /\ InFlight' = InFlight /\ \A q \in InFlight : q.from = n => ~q.live
      /\ \A m \in Node : call[m] # Idle => call[m].reply \in {NoReply, Refused} \/ m = n
  BY <1>1, <1>3, <1>5, <1>6, NoneLive DEF InFlight, Handled, Done, NoReply, IInv, PeerBlocked, Settling
<1>9. TypeOK' /\ HandlersOK'
  BY <1>1, <1>5, <1>7 DEF IInv, TypeOK, HandlersOK, user
<1>10. RequestsOK'
  <2>1. ASSUME NEW q \in InFlight
        PROVE  (OfCall(q) /\ InReach(q) /\ Covered(q) /\ Announced(q))'
    <3>1. /\ OfCall(q) /\ InReach(q) /\ Covered(q) /\ Announced(q) /\ q.from \in {n, p}
          /\ q \in Requests
      BY <1>1, Sender, RequestKinds
    <3>2. Numbered(q) => q.body.seq \in Nat
      BY <3>1, RequestKinds DEF Numbered, ReDrawTxs, UpdateTxs
    <3>3. OfCall(q)'
      BY <1>7, <1>8, <3>1 DEF OfCall
    <3>4. Announced(q)'
      BY <1>1, <1>3, <1>6, <1>7, <1>8, <3>1 DEF Announced
    <3>5. InReach(q)'
      BY <1>1, <1>6, <1>7, <3>1, <3>2 DEF InReach, Numbered, HasChannel, Channels
    <3>6. Covered(q)'
      <4>1. CASE q.from = n
        <5>1. Numbered(q) => q \in net
          BY <1>1, <4>1 DEF InFlight, Handled, IInv, HandlersOK, Numbered, Notified
        <5>2. Numbered(q) => cp[n].st = "ReDrawing"
          BY <1>6, <3>1, <4>1 DEF InReach, HasChannel
        <5> QED
          BY <1>1, <1>6, <1>7, <4>1, <5>1, <5>2
             DEF Covered, Outdated, HasChannel, NoneAbove, Numbered
      <4>2. CASE q.from = p
        BY <1>1, <1>6, <1>7, <3>1, <4>2 DEF Covered, Outdated, HasChannel
      <4> QED
        BY <3>1, <4>1, <4>2
    <3> QED
      BY <3>3, <3>4, <3>5, <3>6
  <2> QED
    BY <1>8, <2>1 DEF RequestsOK
<1>11. OneAnswered'
  BY <1>7 DEF OneAnswered, Waiting
<1>12. CallMatches(n)' /\ CallMatches(p)' /\ AnswerMeans(n)'
  BY <1>1, <1>5, <1>7 DEF IInv, CallMatches, AnswerMeans, Idle, Notified, Settled, Settlement
<1>13. AnswerMeans(p)'
  BY <1>1, <1>7, <1>8
     DEF AnswerMeans, Idle, Notified, NoReply, Refused, Signed, Done
<1>14. (SignedOK(n) /\ SignedOK(p) /\ CreatingOK(n) /\ CreatingOK(p) /\ ReDrawingOK(n)
        /\ ReDrawingOK(p) /\ PeerBlocked(n) /\ PeerBlocked(p))'
  BY <1>1, <1>6, <1>7 DEF SignedOK, CreatingOK, ReDrawingOK, PeerBlocked, Settling
<1>15. PoolOK'
  <2>1. pool = {}
    <3>1. ASSUME NEW t \in pool
          PROVE  FALSE
      <4>1. t \in Transactions /\ Settling(t.by) /\ t.tx = cp[t.by].tx /\ t \notin chain.mined
        BY DEF IInv, PoolOK, TypeOK
      <4>2. t.by = n
        BY <1>1, <1>6, <4>1 DEF Transactions, Settling
      <4> QED
        BY <1>6, <4>1, <4>2 DEF Transactions, Settled, Settlement
    <3> QED
      BY <3>1
  <2> QED
    BY <1>5, <2>1 DEF PoolOK
<1>16. ChainOK'
  BY <1>1, <1>5, <1>6, <1>7 DEF IInv, ChainOK, HasChannel, IsReDraw
<1>17. SeqOK' /\ OwnShareLeast'
  BY <1>1, <1>5, <1>6, <1>7 DEF SeqOK, OwnShareLeast, Channels, Balances
<1>18. FundsBacked'
  BY <1>1, <1>5, <1>6, <1>7 DEF FundsBacked
<1> QED
  BY <1>1, <1>9, <1>10, <1>11, <1>12, <1>13, <1>14, <1>15, <1>16, <1>17, <1>18 DEF IInv

\* The peer has taken the payment: the debited clone is stored.
LEMMA PaymentStep ==
    ASSUME IInv, NEW n \in Node, PaymentAccepted(n)
    PROVE  IInv'
<1> DEFINE p == Peer(n)
<1>1. p \in Node /\ p # n /\ Peer(p) = n /\ Node = {n, p}
  BY TwoNodes
<1>2. /\ call \in [Node -> Calls] /\ cp \in [Node -> Counterparties] /\ Idle \in Calls
      /\ net \subseteq Requests
  BY DEF IInv, TypeOK, Calls
<1>3. PICK c \in Calls : /\ c = call[n] /\ c.pc = "receive_payment" /\ c.reply = Done /\ c # Idle
                         /\ c.ch \in Channels /\ c.amount \in Nat
  BY <1>2, CallKinds DEF PaymentAccepted, Idle
<1>4. /\ cp' = [cp EXCEPT ![n] = Open(c.ch)] /\ call' = [call EXCEPT ![n] = Idle]
      /\ UNCHANGED <<srv, net, pool, chain, user>>
  BY <1>3, Zenon DEF PaymentAccepted, Return, blockchain
<1>5. /\ cp[n].st = "Open" /\ cp[n].ch \in Channels /\ cp[p].st = "Open" /\ cp[p].ch \in Channels
      /\ c.ch.seq = cp[n].ch.seq + 1 /\ c.ch.bal = Moved(cp[n].ch.bal, n, c.amount)
      /\ cp[n].ch.bal[n] >= c.amount
      /\ cp[p].ch.seq = c.ch.seq /\ cp[p].ch.bal = c.ch.bal /\ NoneAbove(n, c.ch.seq)
  <2>1. /\ cp[n].st = "Open" /\ ~NotEnough(cp[n].ch, n, c.amount)
        /\ c.ch = MakePayment(cp[n].ch, n, c.amount, cp[n].ch.seq)
        /\ cp[p].st = "Open"
        /\ cp[p].ch.seq = c.ch.seq /\ cp[p].ch.bal = c.ch.bal /\ NoneAbove(n, c.ch.seq)
    BY <1>3 DEF IInv, CallMatches, AnswerMeans
  <2>2. cp[n].ch \in Channels /\ cp[p].ch \in Channels
    BY <1>1, <1>2, <2>1, CpKinds
  <2>3. c.ch.seq = cp[n].ch.seq + 1 /\ c.ch.bal = Moved(cp[n].ch.bal, n, c.amount)
    BY <2>1 DEF MakePayment
  <2>4. cp[n].ch.bal[n] >= c.amount
    BY <1>3, <2>1, <2>2 DEF NotEnough, Channels, Balances
  <2> QED
    BY <2>1, <2>2, <2>3, <2>4
<1>6. /\ cp'[n] = Open(c.ch) /\ cp'[n].st = "Open" /\ cp'[n].ch = c.ch
      /\ cp'[p] = cp[p] /\ cp' \in [Node -> Counterparties]
      /\ call'[n] = Idle /\ call'[p] = call[p] /\ call' \in [Node -> Calls]
      /\ srv[n] = NotServing
  BY <1>1, <1>2, <1>3, <1>4, CpTypes DEF IInv, TypeOK, Open
<1>7. /\ InFlight' = InFlight /\ \A q \in InFlight : q.from = n => ~q.live
      /\ Waiting(p)
  <2>1. ~Waiting(n)
    BY <1>3 DEF Waiting, Done, NoReply
  <2> QED
    BY <1>1, <1>3, <1>4, <2>1, NoneLive DEF InFlight, Handled, Done, NoReply, IInv, OneAnswered
<1>8. TypeOK' /\ HandlersOK'
  BY <1>1, <1>4, <1>6 DEF IInv, TypeOK, HandlersOK, user
<1>9. RequestsOK'
  <2>1. ASSUME NEW q \in InFlight
        PROVE  (OfCall(q) /\ InReach(q) /\ Covered(q) /\ Announced(q))'
    <3>1. /\ OfCall(q) /\ InReach(q) /\ Covered(q) /\ Announced(q) /\ q.from \in {n, p}
          /\ q \in Requests
      BY <1>1, Sender, RequestKinds
    <3>2. Numbered(q) => q.body.seq \in Nat
      BY <3>1, RequestKinds DEF Numbered, ReDrawTxs, UpdateTxs
    <3>3. OfCall(q)'
      BY <1>6, <1>7, <3>1 DEF OfCall
    <3>4. Announced(q)'
      BY <1>1, <1>5, <1>6, <1>7, <3>1 DEF Announced
    <3>5. InReach(q)'
      BY <1>1, <1>5, <1>6, <3>1, <3>2 DEF InReach, Numbered, HasChannel, Channels
    <3>6. Covered(q)'
      <4>1. CASE q.from = n
        <5>1. Numbered(q) => q \in net
          BY <1>1, <4>1 DEF InFlight, Handled, IInv, HandlersOK, Numbered, Notified
        <5> QED
          BY <1>1, <1>5, <1>6, <4>1, <5>1 DEF Covered, Outdated, HasChannel, NoneAbove, Numbered
      <4>2. CASE q.from = p
        BY <1>1, <1>5, <1>6, <3>1, <3>2, <4>2
           DEF Covered, Outdated, HasChannel, Numbered, Channels
      <4> QED
        BY <3>1, <4>1, <4>2
    <3> QED
      BY <3>3, <3>4, <3>5, <3>6
  <2> QED
    BY <1>7, <2>1 DEF RequestsOK
<1>10. OneAnswered'
  BY <1>6 DEF OneAnswered, Waiting
<1>11. CallMatches(n)' /\ CallMatches(p)' /\ AnswerMeans(n)'
  BY <1>1, <1>4, <1>6 DEF IInv, CallMatches, AnswerMeans, Idle, Notified, Settled, Settlement
<1>12. AnswerMeans(p)'
  BY <1>1, <1>6, <1>7
     DEF AnswerMeans, Waiting, Asking, Proposing, Idle, Notified, NoReply, Signed, Done
<1>13. (SignedOK(n) /\ SignedOK(p) /\ CreatingOK(n) /\ CreatingOK(p) /\ ReDrawingOK(n)
        /\ ReDrawingOK(p) /\ PeerBlocked(n) /\ PeerBlocked(p))'
  BY <1>1, <1>5, <1>6 DEF SignedOK, CreatingOK, ReDrawingOK, PeerBlocked, Settling
<1>14. PoolOK' /\ ChainOK'
  BY <1>1, <1>4, <1>5, <1>6
     DEF IInv, PoolOK, ChainOK, Settling, HasChannel, IsReDraw, TypeOK, Transactions
<1>15. SeqOK'
  <2>1. chain.seq <= cp[n].ch.seq \/ chain.seq <= cp[p].ch.seq
    BY <1>1, <1>5 DEF IInv, SeqOK, HasChannel
  <2>2. chain.seq \in Nat
    BY DEF IInv, TypeOK
  <2> QED
    BY <1>1, <1>4, <1>5, <1>6, <2>1, <2>2 DEF SeqOK, Channels
<1>16. FundsBacked' /\ OwnShareLeast'
  BY <1>1, <1>4, <1>5, <1>6 DEF IInv, FundsBacked, OwnShareLeast, Channels, Balances
<1> QED
  BY <1>1, <1>8, <1>9, <1>10, <1>11, <1>12, <1>13, <1>14, <1>15, <1>16 DEF IInv

\* The contract takes a settlement from the pool.
LEMMA MineStep ==
    ASSUME IInv, NEW t \in pool, Mine(t)
    PROVE  IInv'
<1> DEFINE n == t.by
           p == Peer(n)
<1>1. n \in Node /\ p \in Node /\ p # n /\ Peer(p) = n /\ Node = {n, p}
      /\ t \in Transactions /\ chain.mined \subseteq Transactions
      /\ chain.seq \in Nat /\ chain.total \in Nat
  BY TwoNodes DEF IInv, TypeOK, Transactions
<1>2. cp \in [Node -> Counterparties] /\ call \in [Node -> Calls]
  BY DEF IInv, TypeOK
<1>3. /\ Settling(n) /\ t.tx = cp[n].tx /\ t \notin chain.mined
      /\ t = Settlement(n) /\ ~Settled(n)
  BY <1>1 DEF IInv, PoolOK, Settlement, Settled, Transactions
<1>4. /\ UNCHANGED <<cp, call, srv, net, user>> /\ pool' = pool \ {t}
      /\ chain'.open /\ chain'.mined = chain.mined \cup {t}
      /\ chain'.seq = (IF IsReDraw(t) THEN t.tx.seq ELSE 0)
      /\ chain'.total = (IF IsReDraw(t) THEN Total(t.tx.new) ELSE Total(t.tx.bal))
      /\ chain' = [open |-> TRUE, seq |-> chain'.seq, total |-> chain'.total,
                   mined |-> chain'.mined]
  BY DEF Mine, nodes
\* What t settles.
<1>5. \/ /\ cp[n].st = "Creating" /\ ~IsReDraw(t) /\ t.tx \in NewChannelTxs
         /\ cp[p] = OtherCreating(t.tx) /\ ~chain.open
      \/ /\ cp[n].st = "ReDrawing" /\ IsReDraw(t) /\ t.tx \in ReDrawTxs
         /\ cp[p].st = "OtherReDrawing" /\ t.tx.seq > chain.seq
  <2>1. CASE cp[n].st = "Creating"
    <3>1. t.tx \in NewChannelTxs /\ ~IsReDraw(t)
      BY <1>1, <1>2, <1>3, <2>1, CpKinds DEF IsReDraw, NewChannelTxs
    <3>2. cp[p] = OtherCreating(t.tx) /\ ~chain.open
      BY <1>1, <1>3, <2>1 DEF IInv, CreatingOK
    <3> QED
      BY <2>1, <3>1, <3>2
  <2>2. CASE cp[n].st = "ReDrawing"
    <3>1. t.tx \in ReDrawTxs /\ IsReDraw(t)
      BY <1>1, <1>2, <1>3, <2>2, CpKinds DEF IsReDraw, ReDrawTxs
    <3>2. cp[p].st = "OtherReDrawing"
      BY <1>1, <1>3, <2>2 DEF IInv, ReDrawingOK
    <3> QED
      BY <2>2, <3>1, <3>2 DEF Mine, Valid
  <2> QED
    BY <1>3, <2>1, <2>2 DEF Settling
<1>6. chain'.seq \in Nat /\ chain'.total \in Nat
  BY <1>1, <1>4, <1>5 DEF NewChannelTxs, ReDrawTxs, Balances, Total, Node
<1>7. TypeOK'
  <2>1. chain' \in [open : BOOLEAN, seq : Nat, total : Nat, mined : SUBSET Transactions]
    BY <1>1, <1>4, <1>6
  <2> QED
    BY <1>4, <2>1 DEF IInv, TypeOK, user
<1>8. /\ Settled(n)'
      /\ \A m \in Node : Settled(m) => Settled(m)'
      /\ Settlement(p) # t
  BY <1>1, <1>3, <1>4 DEF Settled, Settlement
<1>9. OneAnswered' /\ HandlersOK'
  BY <1>4 DEF IInv, OneAnswered, Waiting, HandlersOK
<1>10. RequestsOK'
  <2>1. ASSUME NEW q \in InFlight
        PROVE  (OfCall(q) /\ InReach(q) /\ Covered(q) /\ Announced(q))'
    <3>1. OfCall(q) /\ InReach(q) /\ Covered(q) /\ Announced(q) /\ q.from \in Node
      BY <1>1, Sender, RequestKinds
    <3>2. Announced(q)'
      BY <1>4, <1>8, <3>1 DEF Announced
    <3> QED
      BY <1>4, <3>1, <3>2 DEF OfCall, InReach, Covered, Outdated
  <2> QED
    BY <1>4, <2>1 DEF RequestsOK, InFlight, Handled
<1>11. ASSUME NEW m \in Node
       PROVE  CallMatches(m)'
  <2>1. call[m].pc = "send" => Settlement(m)' \notin pool' /\ ~Settled(m)'
    BY <1>4 DEF IInv, CallMatches, Settlement, Settled
  <2>2. call[m].pc \in DOMAIN Notified => Settled(m)'
    BY <1>8 DEF IInv, CallMatches, Notified
  <2> QED
    BY <1>4, <2>1, <2>2 DEF IInv, CallMatches
<1>12. ASSUME NEW m \in Node
       PROVE  AnswerMeans(m)' /\ SignedOK(m)' /\ PeerBlocked(m)'
  BY <1>4 DEF IInv, AnswerMeans, NoneAbove, SignedOK, PeerBlocked, Settling
<1>13. CreatingOK(n)' /\ CreatingOK(p)'
  BY <1>1, <1>3, <1>4, <1>5, <1>8 DEF IInv, CreatingOK, OtherCreating
<1>14. ReDrawingOK(n)' /\ ReDrawingOK(p)'
  BY <1>1, <1>3, <1>4, <1>5, <1>8 DEF IInv, ReDrawingOK, OtherCreating, NoneAbove
<1>15. PoolOK'
  BY <1>4, Senders DEF IInv, PoolOK, Settling
<1>16. ChainOK'
  <2>1. \A x \in chain'.mined : IsReDraw(x) => x.tx.seq <= chain'.seq
    <3>1. ASSUME NEW x \in chain.mined, IsReDraw(x)
          PROVE  x.tx.seq <= chain'.seq
      <4>1. x.tx \in ReDrawTxs /\ x.tx.seq <= chain.seq /\ chain.open
        BY <1>1, <3>1 DEF IInv, ChainOK, Transactions, NewChannelTxs, ReDrawTxs, IsReDraw
      <4> QED
        BY <1>1, <1>4, <1>5, <4>1 DEF ReDrawTxs
    <3>2. IsReDraw(t) => t.tx.seq <= chain'.seq
      BY <1>4, <1>6
    <3> QED
      BY <1>4, <3>1, <3>2
  <2> QED
    BY <1>1, <1>4, <1>5, <2>1 DEF ChainOK, IsReDraw
<1>17. (SeqOK /\ FundsBacked /\ OwnShareLeast)'
  BY <1>1, <1>4, <1>5 DEF IInv, SeqOK, FundsBacked, OwnShareLeast, HasChannel, OtherCreating
<1> QED
  BY <1>1, <1>7, <1>9, <1>10, <1>11, <1>12, <1>13, <1>14, <1>15, <1>16, <1>17 DEF IInv

----------------------------------------------------------------------------
(* The invariant.                                                          *)

LEMMA InitOK ==
    ASSUME Init \/ InitFilled \/ InitPaid
    PROVE  IInv
<1>1. PICK bals, channel :
          /\ InitWith(bals, channel) /\ bals \in [Node -> Counterparties]
          /\ \/ /\ \A n \in Node : bals[n].st = "Absent"
                /\ channel = [open |-> FALSE, seq |-> 0, total |-> 0, mined |-> {}]
             \/ /\ \A n \in Node : bals[n].st = "Open" /\ bals[n].ch.bal = FilledBal
                /\ bals[0].ch.seq >= 1
                /\ channel = [open |-> TRUE, seq |-> 1, total |-> Total(FilledBal),
                              mined |-> {}]
  <2>1. CASE Init
    BY <2>1, CpTypes DEF Init, Absent
  <2>2. CASE InitFilled
    <3>1. \A n \in Node : [seq |-> IF n = 0 THEN 1 ELSE 0, bal |-> FilledBal, accrual |-> 0]
                              \in Channels
      BY FilledBalAssumption DEF Channels
    <3> QED
      BY <2>2, <3>1, CpTypes DEF InitFilled, Open, Node
  <2>3. CASE InitPaid
    <3>1. [seq |-> 2, bal |-> FilledBal, accrual |-> 0] \in Channels
      BY FilledBalAssumption DEF Channels
    <3> QED
      BY <2>3, <3>1, CpTypes DEF InitPaid, Open, Node
  <2> QED
    BY <2>1, <2>2, <2>3
<1>2. Total(FilledBal) \in Nat
  BY FilledBalAssumption DEF Balances, Total, Node
<1>3. TypeOK
  <2>1. chain \in [open : BOOLEAN, seq : Nat, total : Nat, mined : SUBSET Transactions]
    <3>1. CASE chain = [open |-> FALSE, seq |-> 0, total |-> 0, mined |-> {}]
      BY <3>1
    <3>2. CASE chain = [open |-> TRUE, seq |-> 1, total |-> Total(FilledBal), mined |-> {}]
      BY <1>2, <3>2
    <3> QED
      BY <1>1, <3>1, <3>2 DEF InitWith
  <2>2. cp \in [Node -> Counterparties] /\ call \in [Node -> Calls]
    BY <1>1 DEF InitWith, Calls
  <2>3. /\ srv \in [Node -> Requests \cup {NotServing}] /\ net = {} /\ pool = {}
        /\ \A n \in Node : srv[n] = NotServing
    BY <1>1 DEF InitWith
  <2>4. ops \in [Node -> Nat] /\ asked \in [Node -> Nat] /\ collected \in [Node -> Nat]
    BY <1>1 DEF InitWith
  <2> QED
    BY <2>1, <2>2, <2>3, <2>4 DEF TypeOK
<1>4. InFlight = {} /\ net = {} /\ \A n \in Node : call[n] = Idle /\ srv[n] = NotServing
  BY <1>1 DEF InitWith, InFlight, Handled
<1>5. RequestsOK /\ HandlersOK
  BY <1>4 DEF RequestsOK, HandlersOK
<1>6. OneAnswered
  BY <1>4 DEF OneAnswered, Waiting, Node
<1>7. ASSUME NEW n \in Node
      PROVE  /\ CallMatches(n) /\ AnswerMeans(n) /\ SignedOK(n) /\ CreatingOK(n)
             /\ ReDrawingOK(n) /\ PeerBlocked(n)
  BY <1>1, <1>4 DEF InitWith, CallMatches, AnswerMeans, SignedOK, CreatingOK, ReDrawingOK,
                    PeerBlocked, Settling, Idle, Notified
<1>8. PoolOK /\ ChainOK /\ SeqOK /\ FundsBacked
  BY <1>1 DEF InitWith, PoolOK, ChainOK, SeqOK, FundsBacked, HasChannel, Node
<1>9. OwnShareLeast
  <2> SUFFICES ASSUME NEW n \in Node, \A m \in Node : cp[m].st = "Open"
               PROVE  cp[n].ch.bal[n] >= cp[Peer(n)].ch.bal[n]
    BY DEF OwnShareLeast
  <2>1. Peer(n) \in Node
    BY TwoNodes
  <2>2. cp[n].ch.bal = FilledBal /\ cp[Peer(n)].ch.bal = FilledBal
    BY <1>1, <2>1 DEF InitWith
  <2>3. FilledBal[n] \in Nat
    BY FilledBalAssumption DEF Balances
  <2> QED
    BY <2>2, <2>3
<1> QED
  BY <1>3, <1>5, <1>6, <1>7, <1>8, <1>9 DEF IInv

\* One lemma above for each action.
LEMMA NextOK ==
    ASSUME IInv, [Next]_vars
    PROVE  IInv'
<1>1. CASE UNCHANGED vars
  <2>1. 0 \in Node /\ UNCHANGED <<cp, call, srv, net, pool, chain, user>>
    BY <1>1 DEF vars, nodes, blockchain, Node
  <2>2. InFlight' = InFlight
    BY <2>1 DEF InFlight, Handled
  <2>3. TypeOK' /\ HandlersOK' /\ PoolOK'
    BY <2>1 DEF IInv, TypeOK, HandlersOK, PoolOK, Settling, user
  <2>4. Over(0) /\ Stored(Peer(0)) /\ Left(0) /\ NoneNew(0) /\ NoneNew(Peer(0))
    BY <2>1, <2>2 DEF Over, Stored, Left, NoneNew, Same
  <2>5. RequestsOK'
    BY <2>1, <2>4, RequestsOver
  <2> QED
    BY <2>1, <2>3, <2>4, <2>5, CallOver
<1>2. ASSUME NEW n \in Node,
             UserCall(n) \/ Serve(n) \/ Continue(n) \/ Fail(n) \/ Timeout(n)
      PROVE  IInv'
  BY <1>2, UserStep, ServeStep, SignatureStep, SendStep, EventStep, ConfirmedStep, PaymentStep,
     PaymentStaleStep, EndStep, TimeoutStep DEF Continue, Fail
<1>3. ASSUME NEW t \in pool, Mine(t)
      PROVE  IInv'
  BY <1>3, MineStep
<1> QED
  BY <1>1, <1>2, <1>3 DEF Next

(* Whatever users call, whatever is lost, late or fails and in whatever    *)
(* order handlers run, both nodes' records, their calls, the requests on   *)
(* their way and the contract match as IInv says.                          *)
THEOREM IInvCorrect == SpecEither => []IInv
<1>1. Init \/ InitFilled \/ InitPaid => IInv
  BY InitOK
<1>2. IInv /\ [Next]_vars => IInv'
  BY NextOK
<1> QED
  BY <1>1, <1>2, PTL DEF SpecEither

----------------------------------------------------------------------------
(* What follows from it.                                                   *)

(* Type correctness, with the guard: a handler has it only in the state it *)
(* serves and never while a call of the same node has it.                  *)
THEOREM TypeCorrect == SpecEither => []TypeOK
<1>1. IInv => TypeOK
  BY DEF IInv
<1> QED
  BY <1>1, IInvCorrect, PTL

(* fill_channel of an unknown peer: nobody ends up creating a channel the  *)
(* peer has not agreed to, whatever proposals crossed or were lost.        *)
THEOREM CreatingAgreedHolds == SpecEither => []CreatingAgreed
<1>1. IInv => CreatingAgreed
  BY DEF IInv, CreatingOK, CreatingAgreed
<1> QED
  BY <1>1, IInvCorrect, PTL

(* fill_channel and withdraw of an open channel: the two sides of a redraw *)
(* agree on it, and no payment comes between them.                         *)
THEOREM ReDrawAgreedHolds == SpecEither => []ReDrawAgreed
<1>1. ASSUME IInv
      PROVE  ReDrawAgreed
  <2>1. ASSUME NEW n \in Node, cp[n].st = "ReDrawing"
        PROVE  LET tx == cp[n].tx
                   other == cp[Peer(n)]
               IN  /\ tx.old = cp[n].ch.bal
                   /\ \/ other.st = "OtherReDrawing" /\ other.tx = tx /\ other.ch.bal = tx.old
                      \/ other.st = "Open" /\ other.ch.bal = tx.new /\ other.ch.seq = tx.seq
    BY <1>1, <2>1, TwoNodes DEF IInv, ReDrawingOK, SignedOK
  <2> QED
    BY <2>1 DEF ReDrawAgreed
<1> QED
  BY <1>1, IInvCorrect, PTL

(* Of the two nodes one settles at a time.                                 *)
LEMMA OneSettles ==
    ASSUME IInv, NEW m \in Node, NEW n \in Node, Settling(m), Settling(n)
    PROVE  m = n
<1>1. m = n \/ m = Peer(n)
  BY TwoNodes
<1>2. CreatingOK(n) /\ ReDrawingOK(n)
  BY DEF IInv
<1>3. CASE cp[n].st = "Creating"
  <2>1. cp[Peer(n)].st \in {"OtherCreating", "Open"}
    BY <1>2, <1>3 DEF CreatingOK, OtherCreating, Open
  <2> QED
    BY <1>1, <2>1 DEF Settling
<1>4. CASE cp[n].st = "ReDrawing"
  <2>1. cp[Peer(n)].st \in {"OtherReDrawing", "Open"}
    BY <1>2, <1>4 DEF ReDrawingOK
  <2> QED
    BY <1>1, <2>1 DEF Settling
<1> QED
  BY <1>3, <1>4 DEF Settling

(* new_channel_tx and re_draw_tx: a transaction sent fits the contract     *)
(* when it gets there, and never meets another one.                        *)
THEOREM SettlementsValidHolds == SpecEither => []SettlementsValid
<1>1. ASSUME IInv
      PROVE  SettlementsValid
  <2>1. ASSUME NEW t \in pool
        PROVE  Valid(t) /\ pool = {t}
    <3> DEFINE n == t.by
    <3>1. /\ n \in Node /\ Settling(n) /\ t.tx = cp[n].tx /\ t \notin chain.mined
          /\ t = Settlement(n) /\ ~Settled(n) /\ cp[n] \in Counterparties
      BY <1>1 DEF IInv, TypeOK, PoolOK, Transactions, Settlement, Settled
    <3>2. Valid(t)
      <4>1. CASE cp[n].st = "Creating"
        <5>1. ~IsReDraw(t)
          BY <3>1, <4>1, CpKinds DEF IsReDraw, NewChannelTxs
        <5> QED
          BY <1>1, <3>1, <4>1, <5>1 DEF Valid, IInv, CreatingOK
      <4>2. CASE cp[n].st = "ReDrawing"
        <5>1. IsReDraw(t) /\ t.tx.seq \in Nat /\ chain.seq \in Nat
          BY <1>1, <3>1, <4>2, CpKinds DEF IsReDraw, ReDrawTxs, IInv, TypeOK
        <5> QED
          BY <1>1, <3>1, <4>2, <5>1 DEF Valid, IInv, ReDrawingOK
      <4> QED
        BY <3>1, <4>1, <4>2 DEF Settling
    <3>3. ASSUME NEW u \in pool
          PROVE  u = t
      <4>1. u.by \in Node /\ Settling(u.by) /\ u.tx = cp[u.by].tx /\ u = [by |-> u.by, tx |-> u.tx]
        BY <1>1 DEF IInv, TypeOK, PoolOK, Transactions
      <4>2. u.by = n
        BY <1>1, <3>1, <4>1, OneSettles
      <4> QED
        BY <3>1, <4>1, <4>2 DEF Settlement
    <3> QED
      BY <3>2, <3>3
  <2> QED
    BY <2>1 DEF SettlementsValid
<1> QED
  BY <1>1, IInvCorrect, PTL

(* Every open copy divides exactly the money the contract holds.           *)
THEOREM FundsBackedHolds == SpecEither => []FundsBacked
<1>1. IInv => FundsBacked
  BY DEF IInv
<1> QED
  BY <1>1, IInvCorrect, PTL

(* make_payment stores a payment only when receive_payment has taken it:   *)
(* no node's copy gives its peer more than the peer's own copy does.       *)
THEOREM OwnShareLeastHolds == SpecEither => []OwnShareLeast
<1>1. IInv => OwnShareLeast
  BY DEF IInv
<1> QED
  BY <1>1, IInvCorrect, PTL

\* What one step may do to a node's own balance.
LEMMA OwnBalanceStep ==
    ASSUME IInv, Next, NEW n \in Node,
           HasChannel(cp[n]), HasChannel(cp'[n]), cp'[n].ch.bal[n] < cp[n].ch.bal[n]
    PROVE  call[n].pc \in {"receive_payment", "notify_re_draw"} /\ call[n].reply = Done
<1>1. /\ cp \in [Node -> Counterparties] /\ net \subseteq Requests
      /\ cp[n].ch \in Channels /\ cp[n].ch.bal[n] \in Nat
  <2>1. cp \in [Node -> Counterparties] /\ net \subseteq Requests
    BY DEF IInv, TypeOK
  <2>2. cp[n].ch \in Channels
    BY <2>1, CpKinds DEF HasChannel
  <2> QED
    BY <2>1, <2>2 DEF Channels, Balances
<1>2. cp'[n] # cp[n]
  BY <1>1
<1>3. ASSUME NEW m \in Node, UserCall(m)
      PROVE  FALSE
  <2>1. CASE CheckAccrual(m)
    <3>1. PICK s : s = [cp[m] EXCEPT !.ch = AccrualTaken(cp[m].ch)]
      OBVIOUS
    <3>2. cp' = [cp EXCEPT ![m] = s]
      BY <2>1, <3>1, Zenon DEF CheckAccrual
    <3>3. m = n
      BY <1>1, <1>2, <3>2
    <3>4. s.ch.bal = cp[n].ch.bal
      BY <1>1, <3>1, <3>3, CpKinds
         DEF HasChannel, AccrualTaken, Open, ReDrawing, OtherReDrawing
    <3> QED
      BY <1>1, <3>2, <3>3, <3>4
  <2>2. CASE \E amount \in Fills : FillNew(m, amount)
    BY <1>1, <1>2, <2>2 DEF FillNew, HasChannel, New
  <2>3. CASE cp' = cp
    BY <1>2, <2>3
  <2> QED
    BY <1>3, <2>1, <2>2, <2>3 DEF UserCall, FillOpen, Withdraw, ProposeReDraw, Pay
<1>4. ASSUME NEW r \in net, NEW s, NEW y, Handle(r, Outcome(s, y)),
             HasChannel(s) => HasChannel(cp[Peer(r.from)])
                              /\ s.ch.bal[Peer(r.from)] >= cp[Peer(r.from)].ch.bal[Peer(r.from)]
      PROVE  FALSE
  <2>1. Peer(r.from) \in Node /\ cp' = [cp EXCEPT ![Peer(r.from)] = s]
    BY <1>1, <1>4, TwoNodes, RequestKinds DEF Handle, Outcome
  <2>2. n = Peer(r.from) /\ cp'[n] = s
    BY <1>1, <1>2, <2>1
  <2>3. s.ch.bal[n] >= cp[n].ch.bal[n] /\ s.ch.bal[n] < cp[n].ch.bal[n]
    BY <1>4, <2>2
  <2>4. cp'[n] \in Counterparties
    BY NextOK DEF IInv, TypeOK
  <2>5. s.ch.bal[n] \in Nat
    BY <2>2, <2>4, CpKinds DEF HasChannel, Channels, Balances
  <2> QED
    BY <1>1, <2>3, <2>5
<1>5. ASSUME NEW m \in Node, Serve(m)
      PROVE  FALSE
  <2>1. ASSUME NEW r \in net, HandleProposeChannel(r)
        PROVE  FALSE
    <3> DEFINE p == Peer(r.from)
    <3>1. p \in Node /\ cp[p] \in Counterparties
      BY <1>1, TwoNodes, RequestKinds
    <3>2. PICK s, y : ProposeChannel(cp[p], p, r.body) = Outcome(s, y)
                      /\ (s = cp[p] \/ s.st \in {"New", "OtherCreating"})
      BY DEF ProposeChannel, OtherCreating, New
    <3>3. HasChannel(s) => HasChannel(cp[p]) /\ s.ch.bal[p] >= cp[p].ch.bal[p]
      BY <3>1, <3>2, CpKinds DEF HasChannel, Channels, Balances
    <3> QED
      BY <1>4, <2>1, <3>2, <3>3 DEF HandleProposeChannel
  <2>2. ASSUME NEW r \in net, HandleProposeReDraw(r)
        PROVE  FALSE
    <3> DEFINE p == Peer(r.from)
    <3>1. p \in Node /\ cp[p] \in Counterparties
      BY <1>1, TwoNodes, RequestKinds
    <3>2. PICK s, y : ProposedReDraw(cp[p], p, r.body) = Outcome(s, y)
                      /\ (s = cp[p] \/ (cp[p].st = "Open" /\ s = OtherReDrawing(cp[p].ch, r.body)))
      BY DEF ProposedReDraw
    <3>3. HasChannel(s) => HasChannel(cp[p]) /\ s.ch.bal[p] >= cp[p].ch.bal[p]
      BY <3>1, <3>2, CpKinds DEF HasChannel, Channels, Balances, OtherReDrawing
    <3> QED
      BY <1>4, <2>2, <3>2, <3>3 DEF HandleProposeReDraw
  <2>3. ASSUME NEW r \in net, HandleReceivePayment(r)
        PROVE  FALSE
    <3> DEFINE p == Peer(r.from)
    <3>1. p \in Node /\ cp[p] \in Counterparties
      BY <1>1, TwoNodes, RequestKinds
    <3>2. PICK s, y : ReceivePayment(cp[p], p, r.body) = Outcome(s, y)
                      /\ \/ s = cp[p]
                         \/ /\ cp[p].st = "Open" /\ Acceptable(cp[p].ch, p, r.body)
                            /\ s = Open(Received(cp[p].ch, p, r.body))
      BY DEF ReceivePayment
    <3>3. HasChannel(s) => HasChannel(cp[p]) /\ s.ch.bal[p] >= cp[p].ch.bal[p]
      BY <3>1, <3>2, CpKinds DEF HasChannel, Channels, Balances, Open, Received, Acceptable
    <3> QED
      BY <1>4, <2>3, <3>2, <3>3 DEF HandleReceivePayment
  <2>4. CASE OpenedFound(m)
    <3>1. cp[m].st = "OtherCreating"
      BY <2>4, NotifiedKinds DEF OpenedFound, IInv, TypeOK, NotServing
    <3> QED
      BY <1>1, <1>2, <2>4, <3>1 DEF OpenedFound, HasChannel
  <2>5. CASE ReDrawnChecked(m)
    <3>1. cp[m].st = "OtherReDrawing"
      BY <2>5, NotifiedKinds DEF ReDrawnChecked, IInv, TypeOK, NotServing
    <3>2. cp[m].tx.new[m] = cp[m].ch.bal[m]
      BY <3>1 DEF IInv, SignedOK
    <3> QED
      BY <1>1, <1>2, <2>5, <3>2 DEF ReDrawnChecked, Open
  <2>6. CASE cp' = cp
    BY <1>2, <2>6
  <2> QED
    BY <1>5, <2>1, <2>2, <2>3, <2>4, <2>5, <2>6 DEF Serve, HandleNotify
<1>6. ASSUME NEW m \in Node, Signature(m)
      PROVE  FALSE
  <2>1. /\ cp' = [cp EXCEPT ![m] = IF call[m].pc = "propose_channel"
                                   THEN Creating(call[m].tx)
                                   ELSE ReDrawing(call[m].ch, call[m].tx)]
        /\ call[m].pc \in {"propose_channel", "propose_re_draw"}
    BY <1>6 DEF Signature
  <2>2. m = n
    BY <1>1, <1>2, <2>1
  <2>3. CASE call[m].pc = "propose_channel"
    BY <1>1, <2>1, <2>2, <2>3 DEF Creating, HasChannel
  <2>4. CASE call[m].pc = "propose_re_draw"
    BY <1>1, <2>1, <2>2, <2>4 DEF IInv, CallMatches, Open, ReDrawing
  <2> QED
    BY <2>1, <2>3, <2>4
<1>7. ASSUME NEW m \in Node, Confirmed(m)
      PROVE  call[n].pc = "notify_re_draw" /\ call[n].reply = Done
  <2>1. m = n
    <3>1. PICK s : cp' = [cp EXCEPT ![m] = s]
      BY <1>7, Zenon DEF Confirmed
    <3> QED
      BY <1>1, <1>2, <3>1
  <2>2. call[n].pc # "notify_channel_opened"
    BY <2>1, SettlingCall DEF HasChannel, Notified
  <2> QED
    BY <1>7, <2>1, <2>2 DEF Confirmed, Notified
<1>8. ASSUME NEW m \in Node, PaymentAccepted(m)
      PROVE  call[n].pc = "receive_payment" /\ call[n].reply = Done
  BY <1>1, <1>2, <1>8 DEF PaymentAccepted
<1>9. CASE cp' = cp
  BY <1>2, <1>9
<1> QED
  BY <1>3, <1>5, <1>6, <1>7, <1>8, <1>9
     DEF Next, Continue, Fail, SendTransaction, EventSeen, PaymentStale, CallRefused, NotifyUnconfirmed,
         SendFails, EventFails, Timeout, Mine, nodes

(* No request of the peer takes money from a node: its own balance falls   *)
(* only as its own call ends, confirmed by the peer.                       *)
THEOREM OwnBalanceKeptHolds == SpecEither => OwnBalanceKept
<1> DEFINE Kept == \A n \in Node :
                       HasChannel(cp[n]) /\ HasChannel(cp'[n])
                           /\ cp'[n].ch.bal[n] < cp[n].ch.bal[n]
                       => /\ call[n].pc \in {"receive_payment", "notify_re_draw"}
                          /\ call[n].reply = Done
<1>1. IInv /\ [Next]_vars => [Kept]_vars
  BY OwnBalanceStep
<1>2. SpecEither => []IInv
  BY IInvCorrect
<1> QED
  BY <1>1, <1>2, PTL DEF SpecEither, OwnBalanceKept
=============================================================================
