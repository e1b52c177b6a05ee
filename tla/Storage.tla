------------------------------ MODULE Storage ------------------------------
(***************************************************************************)
(* The counterparties of one node (guac_core/src/storage.rs) and how its   *)
(* calls get at them (check_for_counterparty and make_counterparty_if_none *)
(* of channel_manager.rs): a map from address to mutex (Qutex) behind a    *)
(* read-write lock (QrwLock).  The HTTP server runs handlers on several    *)
(* threads, which share one Storage with each other and with the user.     *)
(*                                                                         *)
(* Both locks are the qutex crate's, external here: each keeps a queue, is *)
(* granted first come first served, and a future that is dropped leaves    *)
(* the queue.  Of a Counterparty only how often it has been changed counts.*)
(***************************************************************************)
EXTENDS Naturals, Sequences, SequencesExt

CONSTANTS
    Callers,    \* the user's calls and the peers' requests on this node
    Addresses,  \* the addresses of its peers
    MaxChanges  \* bound: how often a counterparty is changed

ASSUME MaxChangesAssumption == MaxChanges \in Nat

VARIABLES
    inner,      \* inner[a]: which mutex the map has for a, 0 if none
    mutexes,    \* the mutexes made, each with its queue and its Counterparty
    rw,         \* the QrwLock's queue, requests granted and waiting
    call        \* call[c]: what caller c is doing

vars == <<inner, mutexes, rw, call>>

Idle == [pc |-> "idle"]

(* A call looks its counterparty up ("get"), makes it if it is one that    *)
(* does ("new") and looks it up once more ("again"), waits for its mutex   *)
(* and has the guard.                                                      *)
Calls ==
    {Idle}
    \cup [pc : {"get", "new", "again"}, addr : Addresses, makes : BOOLEAN]
    \cup [pc : {"wait"}, addr : Addresses, at : Nat]
    \cup [pc : {"guard"}, addr : Addresses, at : Nat, copy : Nat]

LookingUp(c) == call[c].pc \in {"get", "new", "again"}
Waits(c) == call[c].pc = "wait"
Has(c) == call[c].pc = "guard"

\* The QrwLock grants c's request: readers share, a writer is alone.
Granted(c) ==
    \E i \in DOMAIN rw :
        /\ rw[i].by = c
        /\ \/ \A j \in 1..i : rw[j].kind = "read"
           \/ i = 1

Queued(queue, c, kind) == Append(queue, [by |-> c, kind |-> kind])

\* A call that leaves gives up the place it has: one, or none.
Without(queue, places) ==
    IF places = {} THEN queue ELSE RemoveAt(queue, CHOOSE i \in places : TRUE)
Left(queue, c) == Without(queue, {i \in DOMAIN queue : queue[i].by = c})

\* c becomes what it does next.
Becomes(c, next) == call' = [call EXCEPT ![c] = next]

Init ==
    /\ inner = [a \in Addresses |-> 0]
    /\ mutexes = <<>>
    /\ rw = <<>>
    /\ call = [c \in Callers |-> Idle]

\* fill_channel and propose_channel make a counterparty that is missing.
Call(c, a, makes) ==
    /\ call[c] = Idle
    /\ rw' = Queued(rw, c, "read")
    /\ Becomes(c, [pc |-> "get", addr |-> a, makes |-> makes])
    /\ UNCHANGED <<inner, mutexes>>

\* Mutant: the map's read guard lives on while the mutex is waited for.
FoundKeepsRead(c) ==
    /\ call[c].pc \in {"get", "again"}
    /\ Granted(c)
    /\ inner[call[c].addr] # 0
    /\ LET at == inner[call[c].addr]
       IN  /\ mutexes' = [mutexes EXCEPT ![at].queue = Append(@, c)]
           /\ Becomes(c, [pc |-> "wait", addr |-> call[c].addr, at |-> at])
    /\ UNCHANGED <<inner, rw>>

\* Mutant: the mutex is asked for twice, and only one guard awaited.
FoundLocksTwice(c) ==
    /\ call[c].pc \in {"get", "again"}
    /\ Granted(c)
    /\ inner[call[c].addr] # 0
    /\ LET at == inner[call[c].addr]
       IN  /\ mutexes' = [mutexes EXCEPT ![at].queue = @ \o <<c, c>>]
           /\ Becomes(c, [pc |-> "wait", addr |-> call[c].addr, at |-> at])
    /\ rw' = Left(rw, c)
    /\ UNCHANGED inner

\* The read guard ends with the closure that queues for the mutex.
Found(c) ==
    /\ call[c].pc \in {"get", "again"}
    /\ Granted(c)
    /\ inner[call[c].addr] # 0
    /\ LET at == inner[call[c].addr]
       IN  /\ mutexes' = [mutexes EXCEPT ![at].queue = Append(@, c)]
           /\ Becomes(c, [pc |-> "wait", addr |-> call[c].addr, at |-> at])
    /\ rw' = Left(rw, c)
    /\ UNCHANGED inner

\* "Cannot find counterparty", or make one: the read guard is given back
\* before the write guard is asked for.
NotFound(c) ==
    /\ call[c].pc = "get"
    /\ Granted(c)
    /\ inner[call[c].addr] = 0
    /\ IF call[c].makes
       THEN /\ rw' = Queued(Left(rw, c), c, "write")
            /\ Becomes(c, [call[c] EXCEPT !.pc = "new"])
       ELSE /\ rw' = Left(rw, c)
            /\ Becomes(c, Idle)
    /\ UNCHANGED <<inner, mutexes>>

\* Mutant: the map is not looked at again.
CreateOverwrites(c) ==
    /\ call[c].pc = "new"
    /\ Granted(c)
    /\ mutexes' = Append(mutexes, [queue |-> <<>>, val |-> 0])
    /\ inner' = [inner EXCEPT ![call[c].addr] = Len(mutexes) + 1]
    /\ rw' = Queued(Left(rw, c), c, "read")
    /\ Becomes(c, [call[c] EXCEPT !.pc = "again"])

\* new_counterparty.  Another call may have made it since c looked: then c
\* ends with "Counterparty already exists".
Create(c) ==
    /\ call[c].pc = "new"
    /\ Granted(c)
    /\ IF inner[call[c].addr] = 0
       THEN /\ mutexes' = Append(mutexes, [queue |-> <<>>, val |-> 0])
            /\ inner' = [inner EXCEPT ![call[c].addr] = Len(mutexes) + 1]
            /\ rw' = Queued(Left(rw, c), c, "read")
            /\ Becomes(c, [call[c] EXCEPT !.pc = "again"])
       ELSE /\ rw' = Left(rw, c)
            /\ Becomes(c, Idle)
            /\ UNCHANGED <<inner, mutexes>>

\* Mutant: the guard does not exclude another.
AcquireUnguarded(c) ==
    /\ Waits(c)
    /\ LET m == mutexes[call[c].at]
       IN  /\ m.queue[1] = c
           /\ mutexes' = [mutexes EXCEPT ![call[c].at].queue = Tail(@)]
           /\ Becomes(c, [pc |-> "guard", addr |-> call[c].addr,
                          at |-> call[c].at, copy |-> m.val])
    /\ UNCHANGED <<inner, rw>>

\* c is the first in the queue of a mutex nobody has.  It goes on with a
\* clone of the Counterparty.
Acquire(c) ==
    /\ Waits(c)
    /\ ~ \E d \in Callers : Has(d) /\ call[d].at = call[c].at
    /\ LET m == mutexes[call[c].at]
       IN  /\ m.queue[1] = c
           /\ mutexes' = [mutexes EXCEPT ![call[c].at].queue = Tail(@)]
           /\ Becomes(c, [pc |-> "guard", addr |-> call[c].addr,
                          at |-> call[c].at, copy |-> m.val])
    /\ UNCHANGED <<inner, rw>>

\* *counterparty = what c makes of its clone.
Store(c) ==
    /\ Has(c)
    /\ call[c].copy < MaxChanges
    /\ mutexes' = [mutexes EXCEPT ![call[c].at].val = call[c].copy + 1]
    /\ Becomes(c, [call[c] EXCEPT !.copy = @ + 1])
    /\ UNCHANGED <<inner, rw>>

\* The call ends, or is dropped, and its guard with it.
Release(c) ==
    /\ Has(c)
    /\ Becomes(c, Idle)
    /\ UNCHANGED <<inner, mutexes, rw>>

\* The call's future is dropped before it has a guard: the peer's connection
\* has ended, or the user has given up.
Drop(c) ==
    /\ LookingUp(c) \/ Waits(c)
    /\ rw' = Left(rw, c)
    /\ mutexes' =
           IF Waits(c)
           THEN [mutexes EXCEPT ![call[c].at].queue =
                                    Without(@, {i \in DOMAIN @ : @[i] = c})]
           ELSE mutexes
    /\ Becomes(c, Idle)
    /\ UNCHANGED inner

LookUp(c) == Found(c) \/ NotFound(c) \/ Create(c)

Next ==
    \E c \in Callers :
        \/ \E a \in Addresses, makes \in BOOLEAN : Call(c, a, makes)
        \/ LookUp(c)
        \/ Acquire(c)
        \/ Store(c)
        \/ Release(c)
        \/ Drop(c)

Spec == Init /\ [][Next]_vars

(* Fairness: a future whose lock has been granted is polled.  Nobody has   *)
(* to call, to give a guard back or to drop anything.                      *)
FairSpec == Spec /\ \A c \in Callers : WF_vars(LookUp(c)) /\ WF_vars(Acquire(c))

----------------------------------------------------------------------------

(* Type invariant.  Whoever waits for a counterparty, or has it, does so   *)
(* at the mutex the map has for it: none is replaced while it is in use.   *)
TypeOK ==
    /\ inner \in [Addresses -> 0..Len(mutexes)]
    /\ mutexes \in Seq([queue : Seq(Callers), val : 0..MaxChanges])
    /\ rw \in Seq([by : Callers, kind : {"read", "write"}])
    /\ call \in [Callers -> Calls]
    /\ \A c \in Callers :
           Waits(c) \/ Has(c) => call[c].at = inner[call[c].addr]

\* The records there are, how often each has been changed and who has it.
Present == {a \in Addresses : inner[a] # 0}
ChangesOf(a) == IF inner[a] = 0 THEN 0 ELSE mutexes[inner[a]].val
Changes == [a \in Addresses |-> ChangesOf(a)]
OwnersOf(a) == {c \in Callers : Has(c) /\ call[c].addr = a}
Owners == [a \in Addresses |-> OwnersOf(a)]

Register == INSTANCE CounterpartyRegister WITH
    present <- Present, changes <- Changes, owners <- Owners

(* However lookups, first contacts, drops and changes interleave           *)
(* (storage.rs:25-57), each address has one record, that one call at a     *)
(* time has and no call changes from a clone that is out of date.          *)
StorageImplementsRegister == Register!Spec

(* Every lookup and first contact ends, with an error or in the queue of   *)
(* its counterparty's mutex, even when those who have guards keep them for *)
(* ever: the map's lock is never held while a mutex is waited for          *)
(* (storage.rs:33-37), so a peer that hangs does not hang the others.      *)
LookupEnds == \A c \in Callers : LookingUp(c) ~> ~LookingUp(c)

(* If every guard is given back in the end then everybody that waits for   *)
(* one stops waiting, whoever else has been dropped from the queue.        *)
WaitersServed ==
    (\A c \in Callers : []<>~Has(c)) => (\A c \in Callers : Waits(c) ~> ~Waits(c))

----------------------------------------------------------------------------
(* The inductive invariant behind StorageImplementsRegister.               *)

\* Two addresses never share a mutex.
OwnMutex ==
    \A a, b \in Addresses : inner[a] = inner[b] /\ inner[a] # 0 => a = b

(* Who waits for a mutex or has it got it from the map, who waits is in    *)
(* the queue, and who has it has the record as the last call left it.      *)
AtMutex(c) ==
    /\ Waits(c) \/ Has(c) => call[c].at # 0
    /\ Waits(c) => \E i \in DOMAIN mutexes[call[c].at].queue :
                       mutexes[call[c].at].queue[i] = c
    /\ Has(c) => call[c].copy = mutexes[call[c].at].val

\* One call at a time has a record.
OneGuard ==
    \A c, d \in Callers :
        Has(c) /\ Has(d) /\ call[c].addr = call[d].addr => c = d

(* However lookups, changes and dropped futures interleave                 *)
(* (storage.rs:25-57), a call is queued at the one mutex of its address,   *)
(* and a guard's holder has the record as it is.                           *)
IInv ==
    /\ TypeOK
    /\ OwnMutex
    /\ \A c \in Callers : AtMutex(c)
    /\ OneGuard
=============================================================================
