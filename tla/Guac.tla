-------------------------------- MODULE Guac --------------------------------
(***************************************************************************)
(* Two Guac nodes and the contract between them: the user's calls on Guac  *)
(* (guac_core/src/channel_manager.rs), the CounterpartyApi each serves to  *)
(* the other (counterparty_api.rs), the HTTP calls that carry it           *)
(* (guac_http) and the blockchain, which is external.                      *)
(*                                                                         *)
(* Each node keeps one Counterparty, its peer, behind a futures-aware      *)
(* mutex (Qutex).  A user's call keeps the guard from its first look at    *)
(* the counterparty to its end, across every HTTP call and blockchain wait *)
(* on the way.  A handler keeps it too; only the two notify handlers await *)
(* anything (a blockchain query) while they do, so the others are one step.*)
(* Whatever waits for the mutex is a user's call not made yet or a request *)
(* still in net.                                                           *)
(***************************************************************************)
EXTENDS Channel

CONSTANTS
    Fills, Payments, Withdrawals,   \* the amounts users ask for
    MaxOps,     \* MaxOps[n]: how many of these calls n's user makes
    Faults,     \* what may go wrong: see FaultKinds
    FilledBal   \* the balances of an opened channel, see InitFilled

FaultKinds ==
    { "timeout",    \* an HTTP call ends before its answer comes
      "rpc",        \* a blockchain call or query ends in an error
      "late" }      \* a mined event is not in the block a query looks at

ASSUME AmountsAssumption ==
    Fills \subseteq Nat /\ Payments \subseteq Nat /\ Withdrawals \subseteq Nat
ASSUME MaxOpsAssumption == MaxOps \in [Node -> Nat]
ASSUME FaultsAssumption == Faults \subseteq FaultKinds
ASSUME FilledBalAssumption == FilledBal \in Balances

VARIABLES
    cp,         \* cp[n]: n's Counterparty record for its peer
    call,       \* call[n]: what the user's call on n that has the guard awaits
    srv,        \* srv[n]: the notification whose handler on n has the guard
    net,        \* the requests sent and not handled yet
    pool,       \* the transactions sent to the blockchain and not mined
    chain,      \* the contract's channel, and the transactions mined
    ops,        \* ops[n]: how many calls n's user has made
    asked,      \* history: what n's user has asked to pay in total
    collected   \* history: what check_accrual has returned to n in total

nodes == <<cp, call, srv>>
blockchain == <<pool, chain>>
user == <<ops, asked, collected>>
vars == <<nodes, net, blockchain, user>>

----------------------------------------------------------------------------
(* The Counterparty enum.  "Absent" is a counterparty not in the storage.  *)

NewChannelTxs == [bal : Balances]
ReDrawTxs == [seq : Nat, old : Balances, new : Balances]

Absent == [st |-> "Absent"]
New == [st |-> "New"]
Creating(tx) == [st |-> "Creating", tx |-> tx]
OtherCreating(tx) == [st |-> "OtherCreating", tx |-> tx]
ReDrawing(ch, tx) == [st |-> "ReDrawing", ch |-> ch, tx |-> tx]
OtherReDrawing(ch, tx) == [st |-> "OtherReDrawing", ch |-> ch, tx |-> tx]
Open(ch) == [st |-> "Open", ch |-> ch]

Counterparties ==
    [st : {"Absent", "New"}]
        \cup [st : {"Creating", "OtherCreating"}, tx : NewChannelTxs]
        \cup [st : {"ReDrawing", "OtherReDrawing"},
              ch : Channels, tx : ReDrawTxs]
        \cup [st : {"Open"}, ch : Channels]

HasChannel(s) == s.st \in {"Open", "ReDrawing", "OtherReDrawing"}

(* An HTTP request.  op tells the requests of one user's calls apart;      *)
(* live is whether the sender still awaits the answer.                     *)
Request(n, op, kind, body, live) ==
    [from |-> n, op |-> op, kind |-> kind, body |-> body, live |-> live]

Idle == [pc |-> "idle"]
NotServing == [kind |-> "none"]

NoReply == [tag |-> "none"]
Signed == [tag |-> "signed"]
Done == [tag |-> "ok"]
CurrentSeq(s) == [tag |-> "seq", seq |-> s]
Refused == [tag |-> "error"]

\* Mutant: a user's call gives the guard back while it awaits.
FreeOfHandlers(n) == srv[n] = NotServing

\* The mutex of n's counterparty is free.
Free(n) == call[n] = Idle /\ srv[n] = NotServing

HttpCalls == { "propose_channel", "propose_re_draw", "receive_payment",
               "notify_channel_opened", "notify_re_draw" }

\* Call n's continuation becomes c, which awaits the answer to a request.
Await(n, c, body) ==
    /\ call' = [call EXCEPT ![n] = c]
    /\ net' = net \cup {Request(n, c.op, c.pc, body, TRUE)}

\* The answer to request r reaches its sender, if that still waits for it.
Answer(r, reply) ==
    call' = IF r.live THEN [call EXCEPT ![r.from].reply = reply] ELSE call

----------------------------------------------------------------------------
(* The user's calls.  A call made in the wrong state changes nothing       *)
(* (TryAgainLater, WrongState, NotEnough) and is not a step; neither is    *)
(* one whose eth_blockNumber query fails, before anything is proposed.     *)

MayCall(n) == Free(n) /\ ops[n] < MaxOps[n]

FillNew(n, amount) ==
    LET tx == [bal |-> [i \in Node |-> IF i = n THEN amount ELSE 0]]
    IN  /\ MayCall(n)
        /\ cp[n].st \in {"Absent", "New"}
        /\ cp' = [cp EXCEPT ![n] = New]
        /\ Await(n, [pc |-> "propose_channel", op |-> ops[n] + 1,
                     tx |-> tx, reply |-> NoReply], tx)
        /\ ops' = [ops EXCEPT ![n] = @ + 1]
        /\ UNCHANGED <<srv, blockchain, asked, collected>>

\* Fill and Withdraw of an open channel ask the peer to agree to new balances.
ProposeReDraw(n, newBal) ==
    LET ch == cp[n].ch
        tx == [seq |-> ch.seq + 1, old |-> ch.bal, new |-> newBal]
    IN  /\ Await(n, [pc |-> "propose_re_draw", op |-> ops[n] + 1,
                     ch |-> ch, tx |-> tx, reply |-> NoReply], tx)
        /\ ops' = [ops EXCEPT ![n] = @ + 1]
        /\ UNCHANGED <<cp, srv, blockchain, asked, collected>>

FillOpen(n, amount) ==
    /\ MayCall(n)
    /\ cp[n].st = "Open"
    /\ ProposeReDraw(n, [cp[n].ch.bal EXCEPT ![n] = @ + amount])

\* Withdrawing more than there is panics in Uint256's subtraction, before
\* anything has changed.
Withdraw(n, amount) ==
    /\ MayCall(n)
    /\ cp[n].st = "Open"
    /\ amount <= cp[n].ch.bal[n]
    /\ ProposeReDraw(n, [cp[n].ch.bal EXCEPT ![n] = @ - amount])

\* Mutant: the payment is stored as it is sent.
PaySaved(n, amount) ==
    /\ MayCall(n)
    /\ cp[n].st = "Open"
    /\ ~NotEnough(cp[n].ch, n, amount)
    /\ LET clone == MakePayment(cp[n].ch, n, amount, cp[n].ch.seq)
       IN  /\ Await(n, [pc |-> "receive_payment", op |-> ops[n] + 1,
                        ch |-> clone, amount |-> amount, reply |-> NoReply],
                    UpdateOf(clone))
           /\ cp' = [cp EXCEPT ![n] = Open(clone)]
    /\ ops' = [ops EXCEPT ![n] = @ + 1]
    /\ asked' = [asked EXCEPT ![n] = @ + amount]
    /\ UNCHANGED <<srv, blockchain, collected>>

\* The payment is made on a clone of the channel, which the call keeps.
Pay(n, amount) ==
    /\ MayCall(n)
    /\ cp[n].st = "Open"
    /\ ~NotEnough(cp[n].ch, n, amount)
    /\ LET clone == MakePayment(cp[n].ch, n, amount, cp[n].ch.seq)
       IN  Await(n, [pc |-> "receive_payment", op |-> ops[n] + 1,
                     ch |-> clone, amount |-> amount, reply |-> NoReply],
                 UpdateOf(clone))
    /\ ops' = [ops EXCEPT ![n] = @ + 1]
    /\ asked' = [asked EXCEPT ![n] = @ + amount]
    /\ UNCHANGED <<cp, srv, blockchain, collected>>

\* Reading a zero accrual changes nothing.
CheckAccrual(n) ==
    /\ Free(n)
    /\ HasChannel(cp[n])
    /\ cp[n].ch.accrual > 0
    /\ cp' = [cp EXCEPT ![n].ch = AccrualTaken(cp[n].ch)]
    /\ collected' = [collected EXCEPT ![n] = @ + cp[n].ch.accrual]
    /\ UNCHANGED <<call, srv, net, blockchain, ops, asked>>

----------------------------------------------------------------------------
(* The CounterpartyApi: what each handler makes of the Counterparty s it   *)
(* finds on node p, and its answer.                                        *)

Outcome(s, reply) == [cp |-> s, reply |-> reply]

\* Mutant: a proposal is accepted in any state.
ProposeChannelAnyState(s, p, tx) ==
    IF tx.bal[p] = 0 THEN Outcome(OtherCreating(tx), Signed)
                     ELSE Outcome(s, Refused)

ProposeChannel(s, p, tx) ==
    IF s.st \in {"Absent", "New"}
    THEN IF tx.bal[p] = 0 THEN Outcome(OtherCreating(tx), Signed)
                          ELSE Outcome(New, Refused)
    ELSE Outcome(s, Refused)

\* Mutant: the sequence number is not compared.
AcceptableReDrawAnySeq(ch, p, tx) == tx.old = ch.bal /\ tx.new[p] = ch.bal[p]

AcceptableReDraw(ch, p, tx) ==
    /\ tx.seq > ch.seq
    /\ tx.old = ch.bal
    /\ tx.new[p] = ch.bal[p]

ProposedReDraw(s, p, tx) ==
    IF s.st = "Open" /\ AcceptableReDraw(s.ch, p, tx)
    THEN Outcome(OtherReDrawing(s.ch, tx), Signed)
    ELSE Outcome(s, Refused)

\* Mutant: a payment is also taken while a redraw is under way.
ReceivePaymentAnyChannel(s, p, u) ==
    CASE ~HasChannel(s) -> Outcome(s, Refused)
      [] HasChannel(s) /\ Stale(s.ch, u) ->
             Outcome(s, CurrentSeq(s.ch.seq))
      [] HasChannel(s) /\ ~Stale(s.ch, u) ->
             IF Acceptable(s.ch, p, u)
             THEN Outcome([s EXCEPT !.ch = Received(s.ch, p, u)], Done)
             ELSE Outcome(s, Refused)

ReceivePayment(s, p, u) ==
    CASE s.st # "Open" -> Outcome(s, Refused)
      [] s.st = "Open" /\ Stale(s.ch, u) ->
             Outcome(s, CurrentSeq(s.ch.seq))
      [] s.st = "Open" /\ ~Stale(s.ch, u) ->
             IF Acceptable(s.ch, p, u)
             THEN Outcome(Open(Received(s.ch, p, u)), Done)
             ELSE Outcome(s, Refused)

Handle(r, outcome) ==
    LET p == Peer(r.from)
    IN  /\ Free(p)
        /\ cp' = [cp EXCEPT ![p] = outcome.cp]
        /\ net' = net \ {r}
        /\ Answer(r, outcome.reply)
        /\ UNCHANGED <<srv, blockchain, user>>

HandleProposeChannel(r) ==
    /\ r.kind = "propose_channel"
    /\ Handle(r, ProposeChannel(cp[Peer(r.from)], Peer(r.from), r.body))

HandleProposeReDraw(r) ==
    /\ r.kind = "propose_re_draw"
    /\ Handle(r, ProposedReDraw(cp[Peer(r.from)], Peer(r.from), r.body))

HandleReceivePayment(r) ==
    /\ r.kind = "receive_payment"
    /\ Handle(r, ReceivePayment(cp[Peer(r.from)], Peer(r.from), r.body))

Notified == [notify_channel_opened |-> "OtherCreating",
             notify_re_draw |-> "OtherReDrawing"]

\* A notification in the wrong state is refused; in the right one the handler
\* keeps the guard and asks the blockchain.
HandleNotify(r) ==
    LET p == Peer(r.from)
    IN  /\ r.kind \in DOMAIN Notified
        /\ Free(p)
        /\ net' = net \ {r}
        /\ IF cp[p].st = Notified[r.kind]
           THEN srv' = [srv EXCEPT ![p] = r] /\ UNCHANGED call
           ELSE Answer(r, Refused) /\ UNCHANGED srv
        /\ UNCHANGED <<cp, blockchain, user>>

\* Mutant: the notification is confirmed and the channel not stored.
OpenedNotStored(p) ==
    /\ srv[p].kind = "notify_channel_opened"
    /\ chain.open
    /\ srv' = [srv EXCEPT ![p] = NotServing]
    /\ Answer(srv[p], Done)
    /\ UNCHANGED <<cp, net, blockchain, user>>

\* notify_channel_opened: check_for_open has found the event.
OpenedFound(p) ==
    /\ srv[p].kind = "notify_channel_opened"
    /\ chain.open
    /\ cp' = [cp EXCEPT ![p] = Open(NewChannel(cp[p].tx.bal))]
    /\ srv' = [srv EXCEPT ![p] = NotServing]
    /\ Answer(srv[p], Done)
    /\ UNCHANGED <<net, blockchain, user>>

\* notify_re_draw: whether check_for_re_draw found an event is not looked at.
ReDrawnChecked(p) ==
    /\ srv[p].kind = "notify_re_draw"
    /\ cp' = [cp EXCEPT ![p] = Open([seq |-> cp[p].tx.seq, bal |-> cp[p].tx.new,
                                     accrual |-> cp[p].ch.accrual])]
    /\ srv' = [srv EXCEPT ![p] = NotServing]
    /\ Answer(srv[p], Done)
    /\ UNCHANGED <<net, blockchain, user>>

\* The query fails, or check_for_open sees no event in the latest block.
NotifyUnconfirmed(p) ==
    /\ srv[p] # NotServing
    /\ \/ "rpc" \in Faults
       \/ /\ srv[p].kind = "notify_channel_opened"
          /\ "late" \in Faults \/ ~chain.open
    /\ srv' = [srv EXCEPT ![p] = NotServing]
    /\ Answer(srv[p], Refused)
    /\ UNCHANGED <<cp, net, blockchain, user>>

----------------------------------------------------------------------------
(* The rest of a user's call, as each thing it awaits comes in.            *)

Return(n) == call' = [call EXCEPT ![n] = Idle]

\* Mutant: the peer's answer is not looked at.
SignatureOrNot(n) ==
    /\ call[n].pc \in {"propose_channel", "propose_re_draw"}
    /\ call[n].reply # NoReply
    /\ cp' = [cp EXCEPT ![n] =
                  IF call[n].pc = "propose_channel"
                  THEN Creating(call[n].tx)
                  ELSE ReDrawing(call[n].ch, call[n].tx)]
    /\ call' = [call EXCEPT ![n] = [@ EXCEPT !.pc = "send", !.reply = NoReply]]
    /\ UNCHANGED <<srv, net, blockchain, user>>

\* The peer's signature is in: from here the state says so, and the
\* transaction is on its way to the blockchain.  This continuation stands
\* twice in fill_channel and once in withdraw, as Confirmed does.
Signature(n) ==
    /\ call[n].pc \in {"propose_channel", "propose_re_draw"}
    /\ call[n].reply = Signed
    /\ cp' = [cp EXCEPT ![n] =
                  IF call[n].pc = "propose_channel"
                  THEN Creating(call[n].tx)
                  ELSE ReDrawing(call[n].ch, call[n].tx)]
    /\ call' = [call EXCEPT ![n] = [@ EXCEPT !.pc = "send", !.reply = NoReply]]
    /\ UNCHANGED <<srv, net, blockchain, user>>

Transaction(n) == [by |-> n, tx |-> call[n].tx]

SendTransaction(n) ==
    /\ call[n].pc = "send"
    /\ pool' = pool \cup {Transaction(n)}
    /\ call' = [call EXCEPT ![n].pc = "event"]
    /\ UNCHANGED <<cp, srv, net, chain, user>>

\* The call ends with an error; the transaction may have got through.
SendFails(n) ==
    /\ "rpc" \in Faults
    /\ call[n].pc = "send"
    /\ Return(n)
    /\ pool' \in {pool, pool \cup {Transaction(n)}}
    /\ UNCHANGED <<cp, srv, net, chain, user>>

\* Mutant: the peer is notified before the transaction is mined.
EventNotAwaited(n) ==
    /\ call[n].pc = "event"
    /\ LET kind == IF cp[n].st = "Creating" THEN "notify_channel_opened"
                                            ELSE "notify_re_draw"
       IN  Await(n, [call[n] EXCEPT !.pc = kind], <<>>)
    /\ UNCHANGED <<cp, srv, blockchain, user>>

EventSeen(n) ==
    /\ call[n].pc = "event"
    /\ Transaction(n) \in chain.mined
    /\ LET kind == IF cp[n].st = "Creating" THEN "notify_channel_opened"
                                            ELSE "notify_re_draw"
       IN  Await(n, [call[n] EXCEPT !.pc = kind], <<>>)
    /\ UNCHANGED <<cp, srv, blockchain, user>>

EventFails(n) ==
    /\ "rpc" \in Faults
    /\ call[n].pc = "event"
    /\ Return(n)
    /\ UNCHANGED <<cp, srv, net, blockchain, user>>

\* The peer has confirmed: the channel opens, or is open again.  A redraw
\* keeps the rest of the channel, its sequence number too (..channel).
Confirmed(n) ==
    /\ call[n].pc \in DOMAIN Notified
    /\ call[n].reply = Done
    /\ cp' = [cp EXCEPT ![n] =
                  IF call[n].pc = "notify_channel_opened"
                  THEN Open(NewChannel(call[n].tx.bal))
                  ELSE Open([call[n].ch EXCEPT !.bal = call[n].tx.new])]
    /\ Return(n)
    /\ UNCHANGED <<srv, net, blockchain, user>>

\* Mutant: an accepted payment is not stored.
PaymentForgotten(n) ==
    /\ call[n].pc = "receive_payment"
    /\ call[n].reply = Done
    /\ Return(n)
    /\ UNCHANGED <<cp, srv, net, blockchain, user>>

\* The payment was accepted: only now is the clone stored.
PaymentAccepted(n) ==
    /\ call[n].pc = "receive_payment"
    /\ call[n].reply = Done
    /\ cp' = [cp EXCEPT ![n] = Open(call[n].ch)]
    /\ Return(n)
    /\ UNCHANGED <<srv, net, blockchain, user>>

(* The payment was stale: it is made once more on the clone, which has     *)
(* been debited already, with the peer's number.  The guard is dropped as  *)
(* the second request goes out and nothing is stored whatever its answer,  *)
(* so nothing of the node awaits it.                                       *)
PaymentStale(n) ==
    /\ call[n].pc = "receive_payment"
    /\ call[n].reply.tag = "seq"
    /\ LET c == call[n]
           again == MakePayment(c.ch, n, c.amount, c.reply.seq)
       IN  net' = IF NotEnough(c.ch, n, c.amount)
                  THEN net
                  ELSE net \cup {Request(n, c.op, c.pc, UpdateOf(again), FALSE)}
    /\ Return(n)
    /\ UNCHANGED <<cp, srv, blockchain, user>>

\* An error answer ends the call where it is: Creating and ReDrawing stay.
CallRefused(n) ==
    /\ call[n].pc \in HttpCalls
    /\ call[n].reply = Refused
    /\ Return(n)
    /\ UNCHANGED <<cp, srv, net, blockchain, user>>

\* Mutant: only proposals time out.
TimeoutOfProposals(n) ==
    /\ "timeout" \in Faults
    /\ call[n].pc \in {"propose_channel", "propose_re_draw"}
    /\ Return(n)
    /\ UNCHANGED <<cp, srv, net, blockchain, user>>

(* An HTTP call ends without its answer.  The request may go on alone, or  *)
(* end with the connection, in transit or in the handler.                  *)
Timeout(n) ==
    /\ "timeout" \in Faults
    /\ call[n].pc \in HttpCalls
    /\ Return(n)
    /\ LET mine(r) == r.from = n /\ r.live
           left(r) == IF mine(r) THEN [r EXCEPT !.live = FALSE] ELSE r
           serving(p) == srv[p] # NotServing /\ mine(srv[p])
       IN  \/ /\ net' = {left(r) : r \in net}
              /\ srv' = [p \in Node |->
                            IF serving(p) THEN left(srv[p]) ELSE srv[p]]
           \/ /\ net' = {r \in net : ~mine(r)}
              /\ srv' = [p \in Node |->
                            IF serving(p) THEN NotServing ELSE srv[p]]
    /\ UNCHANGED <<cp, blockchain, user>>

----------------------------------------------------------------------------
(* The blockchain.  The contract takes a transaction both have signed if   *)
(* it fits its channel, and takes it once.                                 *)

IsReDraw(t) == "seq" \in DOMAIN t.tx

Valid(t) ==
    IF IsReDraw(t)
    THEN /\ chain.open
         /\ t.tx.seq > chain.seq
         /\ Total(t.tx.old) = chain.total
    ELSE ~chain.open

Mine(t) ==
    /\ pool' = pool \ {t}
    /\ Valid(t)
    /\ chain' = [open |-> TRUE,
                 seq |-> IF IsReDraw(t) THEN t.tx.seq ELSE 0,
                 total |-> IF IsReDraw(t) THEN Total(t.tx.new)
                                          ELSE Total(t.tx.bal),
                 mined |-> chain.mined \cup {t}]
    /\ UNCHANGED <<nodes, net, user>>

----------------------------------------------------------------------------

InitWith(counterparties, channel) ==
    /\ cp = counterparties
    /\ call = [n \in Node |-> Idle]
    /\ srv = [n \in Node |-> NotServing]
    /\ net = {}
    /\ pool = {}
    /\ chain = channel
    /\ ops = [n \in Node |-> 0]
    /\ asked = [n \in Node |-> 0]
    /\ collected = [n \in Node |-> 0]

\* Two nodes that do not know each other.
Init == InitWith([n \in Node |-> Absent],
                 [open |-> FALSE, seq |-> 0, total |-> 0, mined |-> {}])

\* Node 0 has opened the channel and node 1 filled it (make_and_fill_channel
\* of the tests).
InitFilled ==
    InitWith([n \in Node |-> Open([seq |-> IF n = 0 THEN 1 ELSE 0,
                                   bal |-> FilledBal, accrual |-> 0])],
             [open |-> TRUE, seq |-> 1, total |-> Total(FilledBal), mined |-> {}])

\* And node 0 has paid (test_make_payment_simple), its peer has read the accrual.
InitPaid ==
    InitWith([n \in Node |-> Open([seq |-> 2, bal |-> FilledBal, accrual |-> 0])],
             [open |-> TRUE, seq |-> 1, total |-> Total(FilledBal), mined |-> {}])

UserCall(n) ==
    \/ \E amount \in Fills : FillNew(n, amount) \/ FillOpen(n, amount)
    \/ \E amount \in Withdrawals : Withdraw(n, amount)
    \/ \E amount \in Payments : Pay(n, amount)
    \/ CheckAccrual(n)

Serve(n) ==
    \/ \E r \in net : /\ Peer(r.from) = n
                      /\ \/ HandleProposeChannel(r)
                         \/ HandleProposeReDraw(r)
                         \/ HandleReceivePayment(r)
                         \/ HandleNotify(r)
    \/ OpenedFound(n)
    \/ ReDrawnChecked(n)

Continue(n) ==
    \/ Signature(n)
    \/ SendTransaction(n)
    \/ EventSeen(n)
    \/ Confirmed(n)
    \/ PaymentAccepted(n)
    \/ PaymentStale(n)
    \/ CallRefused(n)

Fail(n) == NotifyUnconfirmed(n) \/ SendFails(n) \/ EventFails(n)

Next ==
    \/ \E n \in Node : UserCall(n) \/ Serve(n) \/ Continue(n) \/ Fail(n)
                       \/ Timeout(n)
    \/ \E t \in pool : Mine(t)

Spec == Init /\ [][Next]_vars
SpecFilled == InitFilled /\ [][Next]_vars
SpecPaid == InitPaid /\ [][Next]_vars
SpecEither == (Init \/ InitFilled) /\ [][Next]_vars

AwaitsEvent(n) == call[n].pc = "event"

(* Fairness: a request whose handler can run is handled in the end, a call *)
(* goes on when the answer it awaits is there, and the HTTP client gives   *)
(* up in the end.  The blockchain owes nothing: a settlement may never be  *)
(* mined (nonce lost, reverted, expired), and one that is may never be     *)
(* seen by the call that waits for it, whose filter may have come too late *)
(* (blockchain_client.rs:102-119).  Nor do users and failures.             *)
Fairness ==
    \A n \in Node : /\ WF_vars(Serve(n))
                    /\ WF_vars(Continue(n) /\ ~AwaitsEvent(n))
                    /\ WF_vars(Timeout(n))

FairSpec == Spec /\ Fairness
FairSpecEither == SpecEither /\ Fairness

\* And every settlement is mined and its event seen.
FairSpecReported ==
    /\ FairSpec
    /\ WF_vars(\E t \in pool : Mine(t))
    /\ \A n \in Node : WF_vars(EventSeen(n))

----------------------------------------------------------------------------

Replies == {NoReply, Signed, Done, Refused} \cup [tag : {"seq"}, seq : Nat]

Calls ==
    {Idle}
    \cup [pc : {"propose_channel", "send", "event", "notify_channel_opened"},
          op : Nat, tx : NewChannelTxs, reply : Replies]
    \cup [pc : {"propose_re_draw", "send", "event", "notify_re_draw"},
          op : Nat, ch : Channels, tx : ReDrawTxs, reply : Replies]
    \cup [pc : {"receive_payment"},
          op : Nat, ch : Channels, amount : Nat, reply : Replies]

Requests ==
    LET Of(kinds, bodies) == [from : Node, op : Nat, kind : kinds,
                              body : bodies, live : BOOLEAN]
    IN  Of({"propose_channel"}, NewChannelTxs)
        \cup Of({"propose_re_draw"}, ReDrawTxs)
        \cup Of({"receive_payment"}, UpdateTxs)
        \cup Of(DOMAIN Notified, {<<>>})

Transactions == [by : Node, tx : NewChannelTxs \cup ReDrawTxs]

(* Type invariant.  A handler has the guard only in the state it serves,   *)
(* and never while a call of the same node has it.                         *)
TypeOK ==
    /\ cp \in [Node -> Counterparties]
    /\ call \in [Node -> Calls]
    /\ srv \in [Node -> Requests \cup {NotServing}]
    /\ \A n \in Node : srv[n] # NotServing =>
           /\ cp[n].st = Notified[srv[n].kind]
           /\ call[n] = Idle
    /\ net \subseteq Requests
    /\ pool \subseteq Transactions
    /\ chain \in [open : BOOLEAN, seq : Nat, total : Nat, mined : SUBSET Transactions]
    /\ ops \in [Node -> Nat] /\ asked \in [Node -> Nat]
    /\ collected \in [Node -> Nat]

(* A node in Creating has a peer that agreed to the same transaction and   *)
(* still waits for it, or has opened the channel it creates: no lost, late *)
(* or crossing proposal leaves it creating a channel of its own.           *)
CreatingAgreed ==
    \A n \in Node : cp[n].st = "Creating" =>
        cp[Peer(n)] \in {OtherCreating(cp[n].tx),
                         Open(NewChannel(cp[n].tx.bal))}

(* The same of ReDrawing: until the redraw is over for the peer no payment *)
(* gets into the channel on either side, and after it none gets in until   *)
(* the node itself has the new balances.                                   *)
ReDrawAgreed ==
    \A n \in Node : cp[n].st = "ReDrawing" =>
        LET tx == cp[n].tx
            other == cp[Peer(n)]
        IN  /\ tx.old = cp[n].ch.bal
            /\ \/ /\ other.st = "OtherReDrawing"
                  /\ other.tx = tx
                  /\ other.ch.bal = tx.old
               \/ /\ other.st = "Open"
                  /\ other.ch.bal = tx.new
                  /\ other.ch.seq = tx.seq

(* Whatever both have signed and sent to the blockchain still fits the     *)
(* contract when it is mined; two settlements are never on their way.      *)
SettlementsValid == \A t \in pool : Valid(t) /\ pool = {t}

(* A node in Open has a channel in the contract that holds exactly the     *)
(* money it divides, whatever calls have failed half way.                  *)
FundsBacked ==
    \A n \in Node : cp[n].st = "Open" =>
        chain.open /\ Total(cp[n].ch.bal) = chain.total

(* Of two open copies each gives its own node at least what the other one  *)
(* gives it: a sender stores a payment only when it knows it was accepted. *)
OwnShareLeast ==
    (\A n \in Node : cp[n].st = "Open") =>
        \A n \in Node : cp[n].ch.bal[n] >= cp[Peer(n)].ch.bal[n]

(* A node's own balance falls only in a step of its own call, one whose    *)
(* payment or redraw the peer has confirmed: no request of the peer takes  *)
(* money from it, whatever redraw it has agreed to before.                 *)
OwnBalanceKept ==
    [][\A n \in Node :
          HasChannel(cp[n]) /\ HasChannel(cp'[n])
              /\ cp'[n].ch.bal[n] < cp[n].ch.bal[n]
          => /\ call[n].pc \in {"receive_payment", "notify_re_draw"}
             /\ call[n].reply = Done]_vars

\* What n's user has been credited: told by check_accrual, or still to be told.
Credit(n) == collected[n] + (IF HasChannel(cp[n]) THEN cp[n].ch.accrual ELSE 0)

(* readme.md, Check Accrual, when payments are lost, late, made again or   *)
(* cross: a user may be credited with a payment that its peer thinks has   *)
(* failed, but never with more than twice what the peer's user asked for.  *)
CreditBounded == \A n \in Node : Credit(n) <= 2 * asked[Peer(n)]

\* No request of n's is on its way, not even one whose answer n ignores.
NothingSent(n) == \A r \in net : r.from # n

(* readme.md, Check Accrual: with nothing lost and no call timed out, a    *)
(* node whose calls are over has had its peer credited with exactly what   *)
(* its user asked to pay, the payments the other way not taken into        *)
(* account.  Calls that cross and wait for each other are not over.        *)
PaidExactly ==
    \A n \in Node : call[n] = Idle /\ NothingSent(n) /\ HasChannel(cp[Peer(n)]) =>
        cp[Peer(n)].ch.accrual + collected[Peer(n)] = asked[n]

(* With nothing lost and no call timed out, two open copies at rest are    *)
(* the same channel.                                                       *)
CopiesAgree ==
    (\A n \in Node : cp[n].st = "Open" /\ call[n] = Idle) =>
        /\ cp[0].ch.bal = cp[1].ch.bal
        /\ cp[0].ch.seq = cp[1].ch.seq

(* channel.rs:14-16, of two nodes at rest: a node never has its peer down  *)
(* for less than the peer has itself.                                      *)
BalanceLiveness ==
    (\A n \in Node : cp[n].st = "Open" /\ call[n] = Idle /\ NothingSent(n)) =>
        \A n \in Node : cp[n].ch.bal[Peer(n)] >= cp[Peer(n)].ch.bal[Peer(n)]

(* readme.md, Refill: a channel that is getting low can be refilled.  With *)
(* one user calling and nothing lost, the peer does not refuse.            *)
ReDrawNotRefused ==
    \A n \in Node : call[n].pc = "propose_re_draw" => call[n].reply # Refused

(* flow.md:14-17: of two proposals made at the same time one is successful *)
(* at least, for one of the two nodes accepts although its own is pending; *)
(* so the two do not both end up waiting for the other's channel.          *)
OneProposalSucceeds == \E n \in Node : cp[n].st # "OtherCreating"

(* new-flow.md:20: OtherCreating ends, if not in Open then in New when the *)
(* transaction has expired.                                                *)
OtherCreatingEnds ==
    \A n \in Node : cp[n].st = "OtherCreating" ~> cp[n].st # "OtherCreating"

(* No call or handler keeps a counterparty's mutex forever but one that    *)
(* polls for ever for the event of its settlement: two nodes that call     *)
(* each other at once wait on each other's mutex until a timeout, and no   *)
(* failure anywhere else leaves the mutex taken.                           *)
GuardReleased == \A n \in Node : ~Free(n) ~> Free(n) \/ []AwaitsEvent(n)

\* n's peer was notified and did not find the event: what the contract has
\* opened stays closed for both nodes.
NotifiedLate(n) ==
    /\ cp[n].st = "Creating" /\ call[n] = Idle
    /\ cp[Peer(n)].st = "OtherCreating"
    /\ chain.open

(* With one user calling and no request failing, a fill of an unknown peer *)
(* ends with the channel open on both sides; or the call waits for ever    *)
(* for an event that the full node does not report, or the peer looked for *)
(* it too late.  It ends in no other way, whatever the user does next.     *)
FillOpens ==
    \A n \in Node : call[n].pc = "propose_channel" ~>
        \/ \A i \in Node : cp[i].st = "Open"
        \/ []AwaitsEvent(n)
        \/ []NotifiedLate(n)
=============================================================================
