# guac_rs in TLA+

Guac is a payment channel manager. Two nodes lock money up in a contract, pay
each other by exchanging signed balances over HTTP, and settle on the blockchain
only to open a channel, put money in or take money out. This directory models
its core in TLA+, checks it with TLC and proves with TLAPS, for all values of the
constants, every safety property and every refinement that the passing runs check.

## The system

| Component | Where | State | Operations |
|---|---|---|---|
| Channel | `guac_core/src/channel.rs` | sequence number, two balances, accrual | `make_payment`, `receive_payment`, `check_accrual` |
| Guac, the user's API | `guac_core/src/channel_manager.rs` | none of its own; a call's local copies between awaits | `fill_channel`, `withdraw`, `make_payment`, `check_accrual`, two getters |
| CounterpartyApi | `guac_core/src/counterparty_api.rs` | none of its own | `propose_channel`, `propose_re_draw`, `notify_channel_opened`, `notify_re_draw`, `receive_payment` |
| Counterparty | `guac_core/src/types.rs` | `New`, `Creating`, `OtherCreating`, `Open`, `ReDrawing`, `OtherReDrawing` | stored and replaced by the two above |
| Storage | `guac_core/src/storage.rs` | map from address to a mutex (Qutex) of a Counterparty, behind a read-write lock | `get_counterparty`, `new_counterparty` |
| HTTP transport | `guac_http/src/counterparty_{client,server}.rs` | requests in flight | the five CounterpartyApi calls |
| BlockchainClient | `guac_http/src/blockchain_client.rs` | event filters on the full node | send a settlement and wait for its event, check for an event |
| web3 | `web3/src` | a request counter | JSON-RPC calls, 1 s timeout |
| Contract | a git submodule, empty in this tree | the channel, its number, its money | external |

How they interact. A user's call locks the counterparty and keeps the guard to
its end: through the proposal to the peer, the transaction, the wait for its
event, and the notification of the peer. The peer's handlers lock *their* copy;
the two notify handlers keep it while they query the blockchain. Nothing is
persisted, so a restart loses the counterparties (and the money in them needs
the contract's dispute procedure, which this code does not call): crashes and
restarts are not modelled.

What is hard here:

* a payment or its answer is lost, late, or overtaken, and the two copies drift
  apart; the accrual becomes inaccurate;
* calls of both users cross: each holds its own mutex and waits for the other's;
* an HTTP call that timed out may still be handled later, when nobody expects it;
* an error at any await after `Creating` or `ReDrawing` is stored leaves the
  state there while the transaction may or may not have been mined;
* a handler or call stores a result computed from a copy made before an await;
* the copy with the retry of a payment has been debited already;
* several threads look up, make and lock counterparties at once, while calls are
  dropped in the middle and guards are held for minutes;
* settlements of several channels share one account and its nonce, and each
  installs its event filter while its transaction is already under way.

PROJECT.json lists these as hazards, each at its line, with the properties that
would catch it.

What makes each component correct: the channel never creates money, never halts,
never goes back and credits no more than was paid; the two nodes' Counterparty
records always match as a pair; every settlement both have signed is one the
contract will take; an open channel is backed by exactly its money in the
contract; a node's own balance falls only by its own doing; no user is credited with
more than its peer's user asked to pay, twice over; guards are
released, unless their call waits for an event that never comes;
each address has one record that one call at a time changes; a settlement that
ends well has been mined.

## The modules

**Channel** has the operations of `channel.rs` as pure operators. Node `n` is
party `n` of the channel; `balance_0` and `balance_1` are the function `bal`.

**ChannelPair** is two copies of one channel over a link that loses and reorders
updates, in the setting of the comment "Proof of balance liveness" at the top of
`channel.rs` and of its unit tests: the sender stores a payment as it sends it.
`Pay` sends, `Accept` receives, `Lose` drops an update or its answer, `Resync` is
the answer with a sequence number and the retry with it, `CheckAccrual` reads the
accrual. `sent` and `collected` are history variables.

**Guac** is the composition: two nodes, the requests between them, and the
contract.

| Variable | Stands for |
|---|---|
| `cp[n]` | the Counterparty record node `n` has of its peer (`Absent` if it has none) |
| `call[n]` | the continuation of the user's call that has the guard: what it awaits (`pc`) and the local copies it will use (`ch`, `tx`, `amount`) |
| `srv[n]` | the notification whose handler has the guard while it queries the chain |
| `net` | requests sent and not handled; `live` says whether the sender still waits |
| `pool`, `chain` | settlements sent and not mined; the contract's channel |
| `ops`, `asked`, `collected` | a bound, and histories |

A user's call is one action up to its first await (`FillNew`, `FillOpen`,
`Withdraw`, `Pay`) and then one action for every await that ends: `Signature`,
`SendTransaction`, `EventSeen`, `Confirmed`, `PaymentAccepted`, `PaymentStale`,
`CallRefused`, and the failures `SendFails`, `EventFails` and `Timeout`. A handler that awaits
nothing under the guard is one action (`HandleProposeChannel`,
`HandleProposeReDraw`, `HandleReceivePayment`); a notify handler is two
(`HandleNotify`, then `OpenedFound`, `ReDrawnChecked` or `NotifyUnconfirmed`).
Whatever waits for a mutex is a request in `net` or a call not made yet, so the
queue's order is free: more behaviours than the Qutex's first-in first-out.

Abstractions. Signatures are those of two honest nodes, so a signature is the
fact that the peer answered `Signed`. Addresses, `channel_id`, expirations and the settling period are left out:
two honest nodes agree on them. Balances are natural numbers; `Uint256` cannot
overflow with real amounts of money, and the two subtractions are guarded
(`NotEnough`, `Withdraw`). A call in the wrong state changes nothing and is not a
step. The contract is external: it takes a settlement both have signed if it fits
its channel (`Valid`).

`Faults` says what may fail in a run: `"timeout"` an HTTP call ends without its
answer, and its request goes on alone or dies with the connection; `"rpc"` a
blockchain call fails, and the transaction may have got through; `"late"`
`check_for_open` does not see a mined event, since it looks at the latest block only;
this one is a matter of timing rather than a failure.

**Settlement** is the abstract specification of a pair of nodes and the contract:
a node signs a deal that starts from the balances it has and leaves its own share
alone (`Agree`), its peer takes the deal up (`Start`), the contract settles it
(`Settle`), the node that was asked adopts it (`Learn`) and then the one that asked
(`Finish`); payments move money inside an open channel (`Move`). A deal that was settled
is not signed again, unless it changes nothing: a fill or withdrawal of 0 can be proposed
by both nodes in the same words, and Guac does sign that again. From this follow two
promises, `SameMoney` and `AskedKeepsShare`. **GuacSettlement**
maps Guac onto it: `Creating` and `ReDrawing` are "waiting", the two `Other...`
states are "agreed", opening a channel is the deal that starts from nothing.
Requests, answers, timeouts, transactions sent and errors are stuttering steps.
`ImplementsSettlement` says that every behaviour of Guac is one of Settlement.

**Storage** is the counterparty map of one node with its callers: the user's calls
and the handlers, which the actix server runs on several threads over one
`Arc<Storage>`.

| Variable | Stands for |
|---|---|
| `inner[a]` | the map: which mutex address `a` has |
| `mutexes` | the Qutexes made, each with its queue and how often its Counterparty was changed |
| `rw` | the QrwLock's queue, granted and waiting |
| `call[c]` | what caller `c` is doing: looking up, making, looking up again, waiting, or holding a guard and a clone |

`Found` and `NotFound` are `get_counterparty`, `Create` is `new_counterparty`, which
fails when another call was faster: the comment on `make_counterparty_if_none`
(`channel_manager.rs:84`) says that either way it will return the counterparty, which
is so unless two first contacts race. `Acquire`, `Store` and `Release` are the
calls' use of the guard, `Drop` a future that ends before it has one. The two locks
belong to the qutex crate and are external: queues served first come first served, which a
dropped future leaves. **CounterpartyRegister** is what callers rely on: one record
for each address, made once, owned by one call at a time, changed only by its owner
and from what the last owner left. Guac's one mutex per counterparty is this register.

**BlockchainClient** is one account's calls at the full node. Each has two branches
that are joined: sending (`CountRead`, then `SendRaw` or `SendRefused`) and waiting
(`InstallFilter`, `Poll`, `UninstallFilter`); `Return` is the join, and the failure
of any request (`RpcFails`) ends both. A request whose call has failed may be carried out all
the same. Of the full node it has the mined count, the pool, the filters and what
they have reported; of two transactions with one nonce it refuses the second or lets
it replace the first, as nodes do depending on the gas price. **BlockchainApi** is the trait as Guac's model
sees it (`SendTransaction`, `SendFails`, `Mine`, `EventSeen`, `EventFails` are Guac's
actions of these names); `ImplementsApi` shows that the client really is that, so
that Guac's model of the blockchain does not rest on assumption alone.

**GuacInvariant** has the inductive invariant of Guac, in named parts, and the three
that rest on it: `PaymentsInv` of payments alone, `CreditInv` of what late payments may
still credit, `TakenInv` of what the contract has taken. Storage and BlockchainClient
have theirs at their end.

The proofs are in modules of their own: **ChannelPair_proofs**, **Storage_proofs**,
**BlockchainClient_proofs**, **Settlement_proofs**, **Guac_proofs**, and on top of the
last **GuacSettlement_proofs**, **GuacPayments_proofs** and **GuacCredit_proofs**.

**MCChannelPair**, **MCGuac**, **MCStorage** and **MCBlockchainClient** are the
instances TLC checks.

## The runs

| Run | Instance | What it shows |
|---|---|---|
| `channel_pair` | 3 + 3 money, amounts 0..2, sequence numbers to 4 | in the comment's setting `BalanceLiveness`, `NeverRefused`, `AccrualBounded`, `UniqueUpdate`, `SeqMonotonic`; the inductive `IInv` |
| `guac_lifecycle` | from nothing or from a filled channel, 3 + 2 calls, all faults | the two records agree (`CreatingAgreed`, `ReDrawAgreed`), settlements are valid and channels backed (`SettlementsValid`, `FundsBacked`), a sender never books more than was accepted (`OwnShareLeast`), nobody is credited with more than twice what the other asked to pay (`CreditBounded`), nobody's balance falls without its own confirmed call (`OwnBalanceKept`) |
| `guac_payments` | equal sequence numbers, 3 + 3 payments of 1 or 2, no faults | with overlapping payments, one made while another is accepted and not yet stored: `PaidExactly`, `CopiesAgree`, and `PaymentsInv`, their inductive invariant |
| `guac_guards` | from nothing or from a filled channel, 2 + 2 calls, all faults, fair | `GuardReleased`: crossing calls get out of each other's way, and only a wait for an event may keep a mutex for ever; `IInv`, `CreditInv` and `TakenInv`, the inductive invariants; the pair implements Settlement (`ImplementsSettlement`) with its promises `SameMoney` and `AskedKeepsShare` |
| `guac_fill` | 4 calls of one user, late events, fair | `FillOpens`: a fill opens the channel on both sides, or ends in one of two named ways that are a matter of timing |
| `storage` | 3 callers, 2 addresses, 2 changes of each, fair | `TypeOK` (no mutex in use is replaced), `IInv`, `StorageImplementsRegister`, `LookupEnds` although guards may be kept for ever, `WaitersServed` if guards are given back |
| `blockchain` | 3 calls of either kind, all faults, fair | `TypeOK` (no filter of a call that ended well is left), `NextInLine`, `IInv`, `ImplementsApi`, `WaitEnds` |
| `guac_balance` | one payment, timeouts | **violated**: `BalanceLiveness` of the real `make_payment` |
| `guac_accrual` | 1 + 1 payments on a filled channel | **violated**: `PaidExactly` |
| `guac_refill` | 3 refills by one user | **violated**: `ReDrawNotRefused` |
| `guac_crossing` | one fill on each side, timeouts of proposals that cross only | **violated**: `OneProposalSucceeds` |
| `guac_expiry` | one fill, timeouts, fair, every settlement mined and reported | **violated**: `OtherCreatingEnds` |

The violated runs are where the code and its documentation part:

1. `make_payment` stores the debited clone only when the peer has answered
   (`channel_manager.rs:641`); the comment's argument (`channel.rs:10`, `:14`)
   needs it stored on sending. The peer of a payment whose answer is lost has more
   than the payer has it down for, and the payer's next payment is stale.
2. The retry of a stale payment debits the clone a second time
   (`channel_manager.rs:607`): the peer is credited with twice the amount, which
   `readme.md:93` excludes. It needs no loss: the first payment after
   `make_and_fill_channel` by the node that filled last is stale. `CreditBounded` bounds
   the damage: twice is the most there is, in total as for each payment.
3. The starter of a redraw does not take the redraw's sequence number
   (`channel_manager.rs:414`, `:548`), its peer does (`counterparty_api.rs:373`):
   a second refill in a row is refused.
4. The rule by address of `flow.md:14-17` does not exist: a node whose own proposal is
   pending does not look at the other one, since its call holds the mutex that the
   handler needs. Two proposals made at the same time wait for each other until both
   calls time out, and then both are accepted with nobody awaiting the answers. The
   run (`SpecCrossing` in MCGuac) has no other timeouts: a call times out only while no
   handler can run and no answer is there, or at the same moment as its peer's. A
   handler that accepted in spite of a pending proposal would run first.
5. `OtherCreating` has no expiration timer (`new-flow.md:20`). The run grants that every
   settlement is mined and seen, so that only the lost answer to the proposal is left.

`FillOpens` has an exception that `new-flow.md:22` does not know: the counterparty, it says,
"checks the blockchain to see whether it really has been opened and goes into the
`Open` state". `check_for_open` looks at the latest block only (`eth_getLogs` with neither
`fromBlock` nor `toBlock`, `blockchain_client.rs:76`), a peer notified one block later
refuses, and nobody notifies it again (`NotifiedLate`).

Bounds. Two nodes are the system: a channel has two parties, and channels of
different peers share only the account's nonce. In `channel_pair` four sequence
numbers let both sides lose an update, be overtaken, resynchronise and pay again;
the theorems remove the bound. In `guac_lifecycle` five calls are enough for an
opening, a redraw and a payment on one side against two calls of the other, and
for an orphan of each of the earlier calls to arrive after the later ones; starting
from a filled channel as well leaves all five for redraws and payments. `guac_guards`
has two calls on each side: enough for an orphan of one's first call to meet both calls
of the other, for a payment made again, and for a redraw proposed again after a timeout.
The payments' runs start from `InitPaid` where the sequence numbers are equal, which
is what `test_make_payment_simple` reaches, since finding 2 is there otherwise.

In `storage` two callers make the race for one address and the third makes a writer
behind a reader behind a guard; the second address shows what one peer's guard does
to another's lookup. In `blockchain` three calls let a transaction be replaced while a
third one holds the number it will be mined with.

Deadlock checking is off in the Guac runs and in `blockchain`, whose calls are made once: users stop calling, and without the
`"timeout"` fault two crossing calls do wait on each other for good (this is
what `guac_guards` shows the timeout to end).

Fairness (`Fairness` in Guac): a handler whose mutex is free runs, since the
actix event loop polls every woken future; a call whose awaited answer has come
goes on, for the same reason; an HTTP call ends, since the actix client gives up
after its default timeout. Nothing is assumed of the blockchain: a settlement may
never be mined (its nonce lost, reverted, expired), and one that is may never be reported to
the call that waits for it, since `get_event` installs its filter while the transaction is
on its way (`blockchain_client.rs:102-119`). So `GuardReleased` has an exception, a call that
stays in `wait_for_event` for good, and shows that it is the only one. `FillOpens` has
it too, and a second one: a notification that is handled a block late, which is
ordinary timing and so on in its run (`"late"`). Users owe nothing, nor does any fault.
`FairSpecReported` adds that settlements are mined and reported; only `guac_expiry` uses it, where it
makes the violation harder.

Storage's fairness is that a future whose lock is granted is polled; no guard has to
be given back and nothing has to be dropped. BlockchainClient's is that a request of
a running call is answered in the end and a transaction that is next in line is mined; a
request left behind by a failed call owes nothing. `WaitEnds` names the three ways in
which a call polls for ever with its counterparty's guard: its transaction lost its
nonce to another's, was reverted, or was mined before its filter was installed. They are
what the exception of `GuardReleased` and `FillOpens` stands for, and expiration, which is
not modelled, is a fourth: the contract refuses the transaction.

Every property of a passing run has a mutant, an operator beside the mapped
definition that puts one plausible bug into it, and under which TLC finds the
property violated.

## What is proved

Every safety invariant, action property and refinement of the passing runs is
stated by a theorem about the specification that the run checks, for every value
of the constants. The assumptions are those on the constants only: amounts and
bounds are natural numbers, opening balances are two of them, `Faults` is any set
of the faults that the model has, and nothing is assumed of the sets of callers,
addresses and calls, which may be infinite. `PaidExactly` and `CopiesAgree`, that
`guac_payments` checks without losses and timeouts, are proved under that setting (`OnlyPayments`), and so
is their invariant. Two payments that truly cross, both calls waiting for the other's mutex, never
come to rest there, so what is shown is of payments that overlap; with the HTTP client's timeout crossing
payments leave the copies different though no request is lost (finding 1).

| Module | Theorems |
|---|---|
| `ChannelPair_proofs` | `TypeCorrect`, `IInvCorrect`, `BalanceLivenessHolds`, `NeverRefusedHolds`, `AccrualBoundedHolds`, `UniqueUpdateHolds`, `SeqMonotonicHolds` |
| `Guac_proofs` | `IInvCorrect`, `TypeCorrect`, `CreatingAgreedHolds`, `ReDrawAgreedHolds`, `SettlementsValidHolds`, `FundsBackedHolds`, `OwnShareLeastHolds`, `OwnBalanceKeptHolds` |
| `Settlement_proofs` | `SettlementInvCorrect`, `SameMoneyHolds`, `AskedKeepsShareHolds` |
| `GuacSettlement_proofs` | `TakenInvCorrect`, `ImplementsSettlementHolds`, `SameMoneyHolds`, `AskedKeepsShareHolds` |
| `GuacPayments_proofs` | `PaymentsInvCorrect`, `PaidExactlyHolds`, `CopiesAgreeHolds` |
| `GuacCredit_proofs` | `CreditInvCorrect`, `CreditBoundedHolds` |
| `Storage_proofs` | `IInvCorrect`, `TypeCorrect`, `StorageImplementsRegisterHolds` |
| `BlockchainClient_proofs` | `IInvCorrect`, `TypeCorrect`, `NextInLineHolds`, `ImplementsApiHolds` |

### ChannelPair

`BalanceLiveness` alone is not inductive: accepting an update in flight may break
it unless one knows where its balances lie. `IInv` adds what the comment in
`channel.rs` leaves implicit. Money is conserved in every copy (`Conserved`). Every
update in flight is at most as new as its sender's copy and, unless stale,
gives the receiver at least what it has and at most what the sender's copy gives it
(`InFlight`). Two updates one way that may still be accepted are ordered in what they
give (`Ordered`), so that accepting one leaves the other between the
copies. `UniqueUpdate` covers two updates of one number. `Ledger` relates each
copy's balance to what its user paid and was credited; with `BalanceLiveness` it
gives `AccrualBounded`. `NeverRefused` is `InFlight` and `Conserved` read for the receiver.

The argument rests on one fact of the code: while an answer is awaited the
sender's copy does not change (`Resync`'s guard). The mutant of `NeverRefused`
takes this guard away.

### Guac

None of the properties is inductive. Whether two records match depends on what
the call between them has been answered, and on what an old request, whose caller has
given up, can still do when its handler gets the mutex at last. `IInv`
(GuacInvariant) says what makes such a request harmless:

* **The mutex.** A call that has its guard and a peer's handler exclude each other,
  so of two calls that cross at most one has its answer (`OneAnswered`). A call's
  local copies are those of the record whose guard it has (`CallMatches`).
* **Old requests.** Sequence numbers only grow, and one that is sent is at most one above
  either copy (`InReach`). A payment is `Outdated`, or what it takes is still the
  sender's (`Covered`): accepting it late leaves the receiver with no more
  than the sender's own copy gives away. After a peer has signed a redraw, or accepted a
  payment, nothing above its number is on its way (`NoneAbove`), so nothing can come
  between. A notification stays true until it is handled: a call that gives up
  leaves the state as it is, one that goes on has had its request answered (`Announced`). Old proposals of a channel may be
  agreed to at any time: `OtherCreating` binds nobody until the sender stores
  `Creating`, and it does so only on the answer to its own live request.
* **Answers.** While an answer waits for its call, the peer is still in the state the
  answer tells of (`AnswerMeans`): its record's next change needs this call or a
  request that does not exist.
* **Settlements.** Two nodes never settle at once (`PeerBlocked`), a transaction in the
  pool is that of the node's record and was not mined yet (`PoolOK`), and the contract's
  number and money follow from whether it was (`CreatingOK`, `ReDrawingOK`, `ChainOK`,
  `SeqOK`).

There is one lemma for every action, and shared ones for what many do: a call that is over
(`CallOver`), a handler that answers (`AnsweredTypes`, `AnsweredCalls`), a user's call that
asks (`AskStep`). `IInv` is proved for all three initial states (`SpecEither`). The
properties follow from it; `OwnBalanceKept`, an action property, case by case from the
steps that store a channel.

Each inductive invariant of a component is checked by a run besides being proved; Guac's
in `guac_guards`, which has all faults and the orphaned requests that they are about.
Listing them, or `ImplementsSettlement`, in `GuacLifecycle.cfg` checks them on that run's
3.3 million states, in up to twice its time.

**Settlement.** Each step that stores a record in another state is one of
Settlement's: a handler that signs is `Agree`, `Signature` is `Start`, `Mine` is
`Settle`, `OpenedFound` and `ReDrawnChecked` are `Learn`, `Confirmed` is `Finish`, and a
payment stored by either side is `Move`. What these need of the *other* node
(`Start`: the peer has signed this very deal; `Finish`: the peer is open with the
deal's balances) is what `AnswerMeans` and `ReDrawingOK` say. Everything else stutters.

That a node signs nothing the contract has taken already is not in `IInv`. A proposal of
such a redraw may well come late, from a call that gave up before the peer proposed the
same again: what keeps it from being signed is that the node asked has the redraw's
number from then on, and the one that asked is asked itself only for deals that leave its
own share alone (`TakenOK`). Opening a channel is signed only where the contract has none,
for which `TakenInv` must know that no node has a channel its peer knows nothing of
(`PeerKnows`).

Settlement itself is reasoned about once and for all: if both nodes follow it, then of a
deal under way they have the same, and nobody learns of a settlement that nobody waits for
(`SettlementInv`). `SameMoney` and `AskedKeepsShare` follow, and by the refinement
(`Promised`) they hold of Guac. Neither is in `IInv`, which compares the money of open
copies only: a node left behind in `OtherReDrawing` by a call that gave up is still in
agreement with its peer about the amount.

**Payments.** Under `OnlyPayments` no payment is refused or stale, both copies are the
same unless one payment has been accepted and not yet stored (`SameCopies`), and
what was asked is credited or on its way (`Credited`). Without `OnlyPayments`, or
from copies of different numbers, the property is false: `guac_accrual` shows it.

**Credit.** How false it may become is `CreditBounded`: whatever fails, a user is
credited at most twice what the other has asked to pay, in total. The bound is reached by
a single stale payment. It is not inductive. Each payment can come to its receiver as up
to two requests, the first and the one made again on the debited clone, and both can come
late, when other payments, their retries and redraws have moved the receiver's copy. What
a late one adds to the receiver's accrual is what the receiver's copy gives the sender
above what the payment leaves it, so `CreditInv` budgets that: of a payment whose
call is over, either its number is out of date, or the receiver's credit together with that difference is
within twice of what has been asked (`Affordable`). A call under way holds back twice its
amount (`Unanswered`), until it is known whether it is needed; that is what pays for the
payment made again. A node that stores a payment of its own while a late one is on its way raises
what the other may take, so the same must hold of the clone (`OrphanOK`). The
budget is that of a sender's share as its *receiver* has it, which is at most what the
sender has itself (`PeerLeast`), and no settlement changes it (`KeepsPeer`) but one the
sender asked for, whose number puts every earlier payment out of date.

### Storage

A caller's mutex is the one the map has (`TypeOK`), no two addresses share one
(`OwnMutex`), who waits is in its queue, and who has a guard has a clone of what the
last owner left (`AtMutex`). The refinement needs all of this: `Store` writes what the
caller made of its clone, which is the register's next change only if the clone is up to date and no
other caller has a guard (`OneGuard`). `Found`, `NotFound`, `Call` and `Drop` stutter;
`Create`, `Acquire`, `Store` and `Release` are the register's actions. Leaving a queue
is an operation of the community modules on sequences; what it returns is a
lemma (`RemoveAtSeq`, `WithoutSeq`).

### BlockchainClient

`NextInLine` is not inductive: a call that has read the count and not sent yet must not
have read more than the count is now, and of two transactions with one nonce only one is
pending (`Progress`, `OnePending`); then mining one moves the count past the numbers that all
others have read. `Progress` also says that a call whose wait ended well was mined, which
is what `ImplementsApi` needs of `Return`.

### Only model-checked

Liveness under fairness (`GuardReleased`, `FillOpens`, `LookupEnds`, `WaitersServed`,
`WaitEnds`): its proof needs ENABLED, which is beyond the proof system. The five violated
properties are TLC's counterexamples.

## Not modelled

Crashes and restarts (nothing is persisted), channels with several peers in Guac itself
(what they share, the map and the account, is in Storage and BlockchainClient),
JSON and HTTP status mapping, keys and fingerprints, fees,
expirations, configuration, the empty bounty hunter client, the contract's own
dispute procedure.

## Plan

All of it is done: Channel, ChannelPair, Guac with its runs; Settlement, implemented by
Guac; Storage and its register; BlockchainClient and its API; the safety properties and
refinements of all of them proved; Settlement proved about, and the bound of the credit.
What could come next:

1. A history of what each node's own copy has been debited, to show that whoever is
   debited by a payment has had it credited to the peer.
2. The repaired `make_payment` (stored on sending, retried from the copy before the
   debit) as a variant of Guac, of which `BalanceLiveness` and `PaidExactly` would hold.
