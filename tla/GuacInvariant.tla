--------------------------- MODULE GuacInvariant ---------------------------
(***************************************************************************)
(* Why Guac's two nodes never disagree about the channel's money: the      *)
(* inductive invariant behind the properties of Guac.                      *)
(*                                                                         *)
(* n is the node that calls and p its peer.  A request may outlive its     *)
(* call and be handled at any time; it does no harm as its sequence number *)
(* is out of date, or what it takes is still the sender's.                 *)
(***************************************************************************)
EXTENDS Guac

Proposing == {"propose_channel", "propose_re_draw"}
Asking == Proposing \cup {"receive_payment"}
Settling(n) == cp[n].st \in {"Creating", "ReDrawing"}

\* The settlement of n, and whether the contract has taken it.
Settlement(n) == [by |-> n, tx |-> cp[n].tx]
Settled(n) == Settlement(n) \in chain.mined

\* A request on its way, or its handler at work.
Handled == {srv[p] : p \in {q \in Node : srv[q] # NotServing}}
InFlight == net \cup Handled

\* A request that carries a sequence number.
Numbered(r) == r.kind \in {"propose_re_draw", "receive_payment"}

----------------------------------------------------------------------------
(* The mutex.                                                              *)

\* n waits for its peer's first answer, or for nothing.
Waiting(n) == call[n] = Idle \/ (call[n].pc \in Asking /\ call[n].reply = NoReply)

\* Two calls that cross are not both under way.
OneAnswered == \E n \in Node : Waiting(n)

\* What the call under way makes of the counterparty it has the guard of.
CallMatches(n) ==
    /\ call[n].pc = "propose_channel" =>
           cp[n] = New /\ call[n].reply \in {NoReply, Signed, Refused}
    /\ call[n].pc = "propose_re_draw" =>
           /\ cp[n] = Open(call[n].ch)
           /\ call[n].tx.seq = call[n].ch.seq + 1
           /\ call[n].tx.old = call[n].ch.bal
           /\ call[n].reply \in {NoReply, Signed, Refused}
    /\ call[n].pc = "receive_payment" =>
           /\ cp[n].st = "Open"
           /\ ~NotEnough(cp[n].ch, n, call[n].amount)
           /\ call[n].ch = MakePayment(cp[n].ch, n, call[n].amount, cp[n].ch.seq)
           /\ call[n].reply # Signed
    /\ call[n].pc \in {"send", "event"} \cup DOMAIN Notified =>
           /\ \/ cp[n] = Creating(call[n].tx) /\ call[n].pc # "notify_re_draw"
              \/ /\ cp[n] = ReDrawing(call[n].ch, call[n].tx)
                 /\ call[n].pc # "notify_channel_opened"
           /\ call[n].reply \in {NoReply, Done, Refused}
           /\ call[n].pc \in {"send", "event"} => call[n].reply = NoReply
           /\ call[n].pc = "send" => Settlement(n) \notin pool /\ ~Settled(n)
           /\ call[n].pc \in DOMAIN Notified => Settled(n)

----------------------------------------------------------------------------
(* Requests.                                                               *)

\* The request of a call that still waits for its answer.
OfCall(r) ==
    LET c == call[r.from]
    IN  r.live => /\ c.pc = r.kind /\ c.op = r.op /\ c.reply = NoReply
                  /\ c.pc \in Proposing => r.body = c.tx
                  /\ c.pc = "receive_payment" => r.body = UpdateOf(c.ch)

\* A sequence number is at most the next one of either copy.
InReach(r) ==
    Numbered(r) =>
        /\ HasChannel(cp[r.from])
        /\ \/ r.body.seq <= cp[r.from].ch.seq + 1
           \/ /\ HasChannel(cp[Peer(r.from)])
              /\ r.body.seq <= cp[Peer(r.from)].ch.seq + 1

Outdated(r) ==
    HasChannel(cp[Peer(r.from)]) /\ r.body.seq <= cp[Peer(r.from)].ch.seq

\* A payment that may be taken yet pays from what its sender has.
Covered(r) ==
    r.kind = "receive_payment" =>
        Outdated(r) \/ r.body.bal[r.from] <= cp[r.from].ch.bal[r.from]

\* A notification is of a settlement taken, that its sender still waits for.
Announced(r) ==
    r.kind \in DOMAIN Notified =>
        /\ Settled(r.from)
        /\ cp[r.from].st = IF r.kind = "notify_channel_opened"
                           THEN "Creating" ELSE "ReDrawing"
        /\ r.live \/ call[r.from] = Idle

RequestsOK ==
    \A r \in InFlight : OfCall(r) /\ InReach(r) /\ Covered(r) /\ Announced(r)

\* A handler serves its peer, and its request is not still on its way.
HandlersOK ==
    \A p \in Node : srv[p] # NotServing =>
        /\ srv[p].kind \in DOMAIN Notified
        /\ srv[p].from = Peer(p)
        /\ srv[p].live => srv[p] \notin net

\* n has sent no number above s.
NoneAbove(n, s) == \A r \in net : r.from = n /\ Numbered(r) => r.body.seq <= s

\* What the peer's answer tells about the peer.
AnswerMeans(n) ==
    LET c == call[n]
        other == cp[Peer(n)]
    IN  /\ c.pc = "propose_channel" /\ c.reply = Signed => other = OtherCreating(c.tx)
        /\ c.pc = "propose_re_draw" /\ c.reply = Signed =>
               /\ other.st = "OtherReDrawing"
               /\ other.tx = c.tx
               /\ NoneAbove(n, c.tx.seq)
        /\ c.pc = "receive_payment" /\ c.reply = Done =>
               /\ other.st = "Open"
               /\ other.ch.seq = c.ch.seq
               /\ other.ch.bal = c.ch.bal
               /\ NoneAbove(n, c.ch.seq)
        /\ c.pc = "receive_payment" /\ c.reply.tag = "seq" =>
               HasChannel(other) /\ c.reply.seq <= other.ch.seq
        /\ c.pc \in DOMAIN Notified /\ c.reply = Done => other.st = "Open"

----------------------------------------------------------------------------
(* Settlements.                                                            *)

\* What a node has signed for its peer.
SignedOK(p) ==
    cp[p].st = "OtherReDrawing" =>
        /\ cp[p].tx.seq > cp[p].ch.seq
        /\ cp[p].tx.old = cp[p].ch.bal
        /\ cp[p].tx.new[p] = cp[p].ch.bal[p]

CreatingOK(n) ==
    cp[n].st = "Creating" =>
        /\ \/ cp[Peer(n)] = OtherCreating(cp[n].tx)
           \/ cp[Peer(n)] = Open(NewChannel(cp[n].tx.bal)) /\ Settled(n)
        /\ IF Settled(n)
           THEN chain.open /\ chain.seq = 0 /\ chain.total = Total(cp[n].tx.bal)
           ELSE ~chain.open

ReDrawingOK(n) ==
    cp[n].st = "ReDrawing" =>
        LET tx == cp[n].tx
            other == cp[Peer(n)]
        IN  /\ tx.seq = cp[n].ch.seq + 1
            /\ tx.old = cp[n].ch.bal
            /\ \/ other.st = "OtherReDrawing" /\ other.tx = tx
               \/ /\ other.st = "Open" /\ Settled(n)
                  /\ other.ch.seq = tx.seq /\ other.ch.bal = tx.new
            /\ NoneAbove(n, tx.seq)
            /\ chain.open
            /\ IF Settled(n)
               THEN chain.seq = tx.seq /\ chain.total = Total(tx.new)
               ELSE chain.seq < tx.seq /\ chain.total = Total(tx.old)

\* Of a node that settles its peer gets nothing else.
PeerBlocked(n) ==
    Settling(n) => call[Peer(n)] = Idle \/ call[Peer(n)].reply \in {NoReply, Refused}

PoolOK ==
    \A t \in pool : Settling(t.by) /\ t.tx = cp[t.by].tx /\ t \notin chain.mined

----------------------------------------------------------------------------
(* The contract.                                                           *)

ChainOK ==
    /\ chain.mined # {} => chain.open
    /\ \A t \in chain.mined : IsReDraw(t) => t.tx.seq <= chain.seq
    /\ (\A n \in Node : cp[n].st \in {"Absent", "New", "OtherCreating"}) => ~chain.open
    /\ \A n \in Node : HasChannel(cp[n]) => chain.open

\* One of the two copies is as new as the contract.
SeqOK ==
    (\A n \in Node : HasChannel(cp[n]) /\ cp[n].st # "ReDrawing") =>
        \E n \in Node : chain.seq <= cp[n].ch.seq

(* Whatever has crossed, come late or failed (channel_manager.rs,          *)
(* counterparty_api.rs), each part above holds, and with it the next step  *)
(* finds both nodes, their requests and the contract in agreement.         *)
IInv ==
    /\ TypeOK
    /\ OneAnswered
    /\ RequestsOK
    /\ HandlersOK
    /\ \A n \in Node :
           /\ CallMatches(n)
           /\ AnswerMeans(n)
           /\ SignedOK(n)
           /\ CreatingOK(n)
           /\ ReDrawingOK(n)
           /\ PeerBlocked(n)
    /\ PoolOK
    /\ ChainOK
    /\ SeqOK
    /\ FundsBacked
    /\ OwnShareLeast

----------------------------------------------------------------------------
(* The setting of PaidExactly and CopiesAgree: two equal copies, only      *)
(* payments, and no HTTP call ends without its answer.                     *)

OnlyPayments == Fills = {} /\ Withdrawals = {} /\ "timeout" \notin Faults

\* n's payment is on its way, or has been accepted and not been stored yet.
Sending(n) == call[n].pc = "receive_payment" /\ call[n].reply = NoReply
Accepted(n) == call[n].pc = "receive_payment" /\ call[n].reply = Done

\* Nothing but payments, and none is ever refused or stale.
AllAccepted ==
    /\ \A n \in Node : /\ cp[n].st = "Open"
                       /\ call[n] = Idle \/ Sending(n) \/ Accepted(n)
    /\ \A r \in net : r.live /\ r.kind = "receive_payment"

\* The copies differ only by a payment accepted and not stored.
SameCopies ==
    (\A n \in Node : ~Accepted(n)) =>
        /\ cp[0].ch.bal = cp[1].ch.bal
        /\ cp[0].ch.seq = cp[1].ch.seq

\* What has been asked to pay the peer was credited, or is on its way.
Credited(n) ==
    cp[Peer(n)].ch.accrual + collected[Peer(n)]
        + (IF Sending(n) THEN call[n].amount ELSE 0) = asked[n]

(* With nothing failing no payment is ever refused or stale, and every one *)
(* is credited once, on its way or stored (channel_manager.rs:600-645,     *)
(* counterparty_api.rs, receive_payment).                                  *)
PaymentsInv ==
    /\ IInv
    /\ AllAccepted
    /\ SameCopies
    /\ \A n \in Node : Credited(n)

----------------------------------------------------------------------------
(* Why no user is credited with more than twice what was asked for: what   *)
(* an orphan, a payment whose sender has given up on its answer, may still *)
(* bring its receiver.                                                     *)

Orphan(r) == r.kind = "receive_payment" /\ ~r.live

\* What n's user has asked to pay and the call under way has not settled.
Unanswered(n) ==
    IF call[n].pc = "receive_payment" /\ call[n].reply # Done
    THEN call[n].amount ELSE 0

\* What n has its peer down for.
PeersShare(n) == IF HasChannel(cp[n]) THEN cp[n].ch.bal[Peer(n)] ELSE 0

\* A payment not answered may yet be credited twice: as it is, and made again.
CreditOK(n) == Credit(n) + 2 * Unanswered(Peer(n)) <= 2 * asked[Peer(n)]

\* A node has its open peer down for no more than the peer has itself.
PeerLeast(n) ==
    HasChannel(cp[n]) /\ cp[Peer(n)].st = "Open" =>
        cp[n].ch.bal[Peer(n)] <= cp[Peer(n)].ch.bal[Peer(n)]

\* A settlement leaves the balance of the node that is asked as it was.
KeepsPeer(n) ==
    /\ cp[n].st = "OtherCreating" => cp[n].tx.bal[n] = 0
    /\ cp[n].st = "Creating" => cp[n].tx.bal[Peer(n)] = 0
    /\ cp[n].st = "ReDrawing" => cp[n].tx.new[Peer(n)] = cp[n].tx.old[Peer(n)]

\* Taking r from a copy with this share of its sender's stays in the bound.
Affordable(r, share) ==
    Credit(Peer(r.from)) + share + 2 * Unanswered(r.from)
        <= r.body.bal[r.from] + 2 * asked[r.from]

\* An orphan is out of date, or affordable; the same of the copy that its
\* receiver stores when a payment of its own has been accepted.
OrphanOK(r) ==
    LET n == Peer(r.from)
    IN  Orphan(r) =>
            /\ Outdated(r) \/ Affordable(r, PeersShare(n))
            /\ Accepted(n) => \/ r.body.seq <= call[n].ch.seq
                              \/ Affordable(r, call[n].ch.bal[r.from])

(* Whatever is lost, late, refused or made again, an orphan can bring its  *)
(* receiver no more than its sender's user has asked to pay once more      *)
(* (channel_manager.rs:600-645, counterparty_api.rs, receive_payment).     *)
CreditInv ==
    /\ IInv
    /\ \A n \in Node : CreditOK(n) /\ PeerLeast(n) /\ KeepsPeer(n)
    /\ \A r \in net : OrphanOK(r)

----------------------------------------------------------------------------
(* Why no settlement is agreed to again once the contract has taken it.    *)

\* A node has a channel only with a peer that has it too, or creates it.
PeerKnows(n) ==
    HasChannel(cp[n]) => HasChannel(cp[Peer(n)]) \/ cp[Peer(n)].st = "Creating"

\* A redraw that was taken has changed nothing for the node asked, and that
\* node has its number at the latest when the one that asked is done with it.
TakenOK(t) ==
    IsReDraw(t) =>
        LET p == Peer(t.by)
        IN  /\ t.tx.new[p] = t.tx.old[p]
            /\ HasChannel(cp[p])
            /\ \/ t.tx.seq <= cp[p].ch.seq
               \/ cp[t.by].st = "ReDrawing" /\ cp[t.by].tx = t.tx

(* Whatever old proposal a handler gets to (counterparty_api.rs), a deal   *)
(* that was taken has a number it no longer agrees to.                     *)
TakenInv ==
    /\ IInv
    /\ \A n \in Node : PeerKnows(n)
    /\ \A t \in chain.mined : TakenOK(t)
=============================================================================
