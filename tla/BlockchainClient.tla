-------------------------- MODULE BlockchainClient --------------------------
(***************************************************************************)
(* The settlements one node sends and waits for                            *)
(* (guac_http/src/blockchain_client.rs over web3/src): each installs an    *)
(* event filter on the full node and polls it, and at the same time reads  *)
(* the account's transaction count, signs with it and sends.  Settlements  *)
(* of different channels run at once, for each only holds its own          *)
(* counterparty's mutex.  quick_deposit only sends.                        *)
(*                                                                         *)
(* The full node is external.  A request whose answer does not come within *)
(* a second fails its call, and the full node may still carry it out.      *)
(***************************************************************************)
EXTENDS Naturals

CONSTANTS
    Calls,      \* calls of one node, each of another channel
    Faults      \* what may go wrong: see FaultKinds

FaultKinds ==
    { "rpc",        \* a request to the full node ends in an error
      "revert" }    \* a transaction is mined and the contract refuses it

ASSUME FaultsAssumption == Faults \subseteq FaultKinds

VARIABLES
    status,     \* status[c]: of the future the caller awaits
    send,       \* send[c]: where c's sending branch stands
    wait,       \* wait[c]: where its waiting branch stands, if it has one
    nonce,      \* nonce[c]: the transaction count c has read
    count,      \* the full node: the account's transactions mined
    pool,       \* its pool: the calls whose transactions are pending
    mined,      \* the calls whose transactions the contract has taken
    reverted,   \* those whose transactions it has refused
    filters,    \* the calls whose filters are installed
    reported    \* those whose filters have the event

client == <<status, send, wait, nonce>>
node == <<count, pool, mined, reported, reverted, filters>>
vars == <<client, node>>

Init ==
    /\ status = [c \in Calls |-> "idle"]
    /\ send = [c \in Calls |-> "done"]
    /\ wait = [c \in Calls |-> "none"]
    /\ nonce = [c \in Calls |-> 0]
    /\ count = 0
    /\ pool = {}
    /\ mined = {}
    /\ reverted = {}
    /\ filters = {}
    /\ reported = {}

Running(c) == status[c] = "running"

\* A request is carried out for a call that awaits it, or did.
OnItsWay(c) == status[c] \in {"running", "failed"}

Becomes(c, s) == status' = [status EXCEPT ![c] = s]
Sends(c, s) == send' = [send EXCEPT ![c] = s]
Awaits(c, s) == wait' = [wait EXCEPT ![c] = s]

----------------------------------------------------------------------------
(* The calls.  Both branches start at once (join).                         *)

\* deposit_then_new_channel, deposit_then_re_draw and re_draw_then_withdraw
Settle(c) ==
    /\ status[c] = "idle"
    /\ Becomes(c, "running")
    /\ Sends(c, "count")
    /\ Awaits(c, "install")
    /\ UNCHANGED <<nonce, node>>

\* It ends when its transaction is sent.
QuickDeposit(c) ==
    /\ status[c] = "idle"
    /\ Becomes(c, "running")
    /\ Sends(c, "count")
    /\ UNCHANGED <<wait, nonce, node>>

\* Mutant: the branches are raced, not joined.
ReturnEither(c) ==
    /\ Running(c)
    /\ send[c] = "done" \/ wait[c] = "done"
    /\ Becomes(c, "ok")
    /\ UNCHANGED <<send, wait, nonce, node>>

Return(c) ==
    /\ Running(c)
    /\ send[c] = "done"
    /\ wait[c] \in {"none", "done"}
    /\ Becomes(c, "ok")
    /\ UNCHANGED <<send, wait, nonce, node>>

\* Whichever request of c fails, the whole call does.
RpcFails(c) ==
    /\ "rpc" \in Faults
    /\ Running(c)
    /\ Becomes(c, "failed")
    /\ UNCHANGED <<send, wait, nonce, node>>

----------------------------------------------------------------------------
(* The sending branch: send_raw_transaction.                               *)

\* Mutant: the pending transactions are counted too, and a gap is left.
CountReadPending(c) ==
    /\ Running(c)
    /\ send[c] = "count"
    /\ nonce' = [nonce EXCEPT ![c] = IF pool = {} THEN count ELSE count + 1]
    /\ Sends(c, "raw")
    /\ UNCHANGED <<status, wait, node>>

\* eth_getTransactionCount of the latest block: mined transactions only.
CountRead(c) ==
    /\ Running(c)
    /\ send[c] = "count"
    /\ nonce' = [nonce EXCEPT ![c] = count]
    /\ Sends(c, "raw")
    /\ UNCHANGED <<status, wait, node>>

\* The pending transaction with c's nonce, if there is one.
Rivals(c) == {d \in pool : nonce[d] = nonce[c]}

\* The full node takes the transaction.  It may let it replace a rival,
\* which is then gone, or refuse it.
SendRaw(c) ==
    /\ OnItsWay(c)
    /\ send[c] = "raw"
    /\ nonce[c] >= count
    /\ pool' = (pool \ Rivals(c)) \cup {c}
    /\ Sends(c, "done")
    /\ UNCHANGED <<status, wait, nonce, count, mined, reverted, filters, reported>>

\* Mutant: the same transaction is tried again and again.
SendRetried(c) ==
    /\ OnItsWay(c)
    /\ send[c] = "raw"
    /\ nonce[c] < count \/ Rivals(c) # {}
    /\ UNCHANGED vars

\* "nonce too low", or a rival it does not replace.
SendRefused(c) ==
    /\ OnItsWay(c)
    /\ send[c] = "raw"
    /\ nonce[c] < count \/ Rivals(c) # {}
    /\ Sends(c, "refused")
    /\ Becomes(c, "failed")
    /\ UNCHANGED <<wait, nonce, node>>

----------------------------------------------------------------------------
(* The waiting branch: get_event.                                          *)

\* Only events of later blocks get into the filter.
InstallFilter(c) ==
    /\ OnItsWay(c)
    /\ wait[c] = "install"
    /\ filters' = filters \cup {c}
    /\ Awaits(c, "poll")
    /\ UNCHANGED <<status, send, nonce, count, pool, mined, reverted, reported>>

\* A poll that finds nothing changes nothing.
Poll(c) ==
    /\ Running(c)
    /\ wait[c] = "poll"
    /\ c \in reported
    /\ Awaits(c, "uninstall")
    /\ UNCHANGED <<status, send, nonce, node>>

\* Mutant: the filter is left installed.
UninstallForgotten(c) ==
    /\ OnItsWay(c)
    /\ wait[c] = "uninstall"
    /\ Awaits(c, "done")
    /\ UNCHANGED <<status, send, nonce, node>>

UninstallFilter(c) ==
    /\ OnItsWay(c)
    /\ wait[c] = "uninstall"
    /\ filters' = filters \ {c}
    /\ Awaits(c, "done")
    /\ UNCHANGED <<status, send, nonce, count, pool, mined, reverted, reported>>

----------------------------------------------------------------------------
(* The blockchain mines an account's transactions in the order of their    *)
(* nonces.                                                                 *)

Mine(c) ==
    /\ c \in pool
    /\ nonce[c] = count
    /\ count' = count + 1
    /\ pool' = pool \ {c}
    /\ \/ /\ mined' = mined \cup {c}
          /\ reported' = reported \cup (filters \cap {c})
          /\ UNCHANGED reverted
       \/ /\ "revert" \in Faults
          /\ reverted' = reverted \cup {c}
          /\ UNCHANGED <<mined, reported>>
    /\ UNCHANGED <<client, filters>>

----------------------------------------------------------------------------

Client(c) ==
    \/ Return(c)
    \/ CountRead(c)
    \/ SendRaw(c)
    \/ SendRefused(c)
    \/ InstallFilter(c)
    \/ Poll(c)
    \/ UninstallFilter(c)

Next ==
    \E c \in Calls : \/ Settle(c)
                     \/ QuickDeposit(c)
                     \/ Client(c)
                     \/ RpcFails(c)
                     \/ Mine(c)

Spec == Init /\ [][Next]_vars

(* Fairness: each request a running call makes is answered and its branch  *)
(* goes on (the interval polls for ever), and a transaction that is next   *)
(* in line is mined.  A request whose call has failed owes nothing.        *)
Fairness ==
    \A c \in Calls :
        /\ WF_vars(CountRead(c))
        /\ WF_vars(Running(c) /\ (SendRaw(c) \/ SendRefused(c)))
        /\ WF_vars(Running(c) /\ InstallFilter(c))
        /\ WF_vars(Poll(c))
        /\ WF_vars(Running(c) /\ UninstallFilter(c))
        /\ WF_vars(Return(c))
        /\ WF_vars(Mine(c))

FairSpec == Spec /\ Fairness

----------------------------------------------------------------------------

Statuses == {"idle", "running", "ok", "failed"}

(* Type invariant.  The filters on the full node are those of branches     *)
(* between installing and uninstalling: a call that ended well has left    *)
(* none behind.                                                            *)
TypeOK ==
    /\ status \in [Calls -> Statuses]
    /\ send \in [Calls -> {"count", "raw", "refused", "done"}]
    /\ wait \in [Calls -> {"none", "install", "poll", "uninstall", "done"}]
    /\ nonce \in [Calls -> Nat]
    /\ count \in Nat
    /\ pool \subseteq Calls /\ mined \subseteq Calls /\ reverted \subseteq Calls
    /\ reported \subseteq mined
    /\ filters = {c \in Calls : wait[c] \in {"poll", "uninstall"}}

(* Every pending transaction is the next one the chain can take, whatever  *)
(* calls raced for the same count (blockchain_client.rs:131-150): none     *)
(* waits behind a gap that a call which failed has left.                   *)
NextInLine == \A c \in pool : nonce[c] = count

\* c's transaction was refused a place in a block by one with its nonce.
Overtaken(c) == send[c] = "done" /\ c \notin pool \cup mined \cup reverted

\* It was mined, and its event is not in the filter.
Deaf(c) == c \in mined \ reported

(* With no request failing, a call ends unless another call's transaction  *)
(* took its nonce, the contract refused it, or its block came before the   *)
(* filter: these are the only ways to poll for ever with the guard         *)
(* (blockchain_client.rs:102-119).                                         *)
WaitEnds ==
    \A c \in Calls :
        Running(c) ~> ~Running(c) \/ Overtaken(c) \/ Deaf(c) \/ c \in reverted

Settlements == {c \in Calls : wait[c] # "none"}
Sent(c) == send[c] # "count" /\ ~(Running(c) /\ send[c] = "raw")

(* As Guac sees its settlements.  Those that lost their nonce, were        *)
(* reverted or never got through are for Guac not mined; one on its way    *)
(* when its call fails may be yet.                                         *)
StageOf(c) ==
    IF c \in Settlements /\ Running(c)
    THEN IF Sent(c) THEN "event" ELSE "send"
    ELSE IF c \in Settlements THEN status[c] ELSE "idle"

ApiStage == [c \in Calls |-> StageOf(c)]
ApiPool == {c \in Settlements : Sent(c)} \ mined
ApiMined == mined \cap Settlements

Api == INSTANCE BlockchainApi WITH
    stage <- ApiStage, pool <- ApiPool, mined <- ApiMined

(* The client does what Guac takes it to do, with several calls at once on *)
(* one account, requests that fail and are carried out all the same, and   *)
(* answers of both branches in any order: a settlement that ends well has  *)
(* been mined.                                                             *)
ImplementsApi == Api!Spec

----------------------------------------------------------------------------
(* The inductive invariant behind NextInLine and ImplementsApi.            *)

(* How far the two branches of c have come bounds what the full node knows *)
(* of c: nothing before it is sent, and its event at the end of the wait.  *)
Progress(c) ==
    /\ status[c] = "idle" => send[c] = "done" /\ wait[c] = "none"
    /\ status[c] = "idle" \/ send[c] # "done" => c \notin pool \cup mined
    /\ send[c] = "raw" => nonce[c] <= count
    /\ wait[c] \in {"uninstall", "done"} => c \in mined

\* Of transactions with one nonce the pool has at most one.
OnePending == \A c, d \in pool : c = d

(* However calls race and fail (blockchain_client.rs:102-150), at most one *)
(* transaction is pending, no number read is above the count, and a wait   *)
(* that has seen its event is of a transaction mined.                      *)
IInv ==
    /\ TypeOK
    /\ \A c \in Calls : Progress(c)
    /\ NextInLine
    /\ OnePending
    /\ pool \cap mined = {}
=============================================================================
