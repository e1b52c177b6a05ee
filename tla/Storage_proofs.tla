--------------------------- MODULE Storage_proofs ---------------------------
(***************************************************************************)
(* Each address has one record that one call at a time has, for any number *)
(* of calls and of addresses.                                              *)
(***************************************************************************)
EXTENDS Storage, SequenceTheorems, TLAPS

----------------------------------------------------------------------------
(* Leaving a queue.                                                        *)

LEMMA RemoveAtSeq ==
    ASSUME NEW S, NEW s \in Seq(S), NEW k \in 1..Len(s)
    PROVE  /\ RemoveAt(s, k) \in Seq(S)
           /\ DOMAIN RemoveAt(s, k) = 1..(Len(s) - 1)
           /\ \A j \in 1..(Len(s) - 1) :
                  RemoveAt(s, k)[j] = IF j < k THEN s[j] ELSE s[j + 1]
<1> DEFINE front == SubSeq(s, 1, k - 1)
           back == SubSeq(s, k + 1, Len(s))
<1>1. \A i \in 1..Len(s) : s[i] \in S
  BY ElementOfSeq
<1>2. Len(s) \in Nat /\ k \in Nat /\ k <= Len(s) /\ 1 <= k
  BY LenProperties
<1>3. /\ front \in Seq(S)
      /\ Len(front) = k - 1
      /\ \A i \in 1..(k - 1) : front[i] = s[i]
  <2>1. \A i \in 1..(k - 1) : s[i] \in S
    BY <1>1, <1>2
  <2> QED
    BY <1>2, <2>1, SubSeqProperties, SMTT(20)
<1>4. /\ back \in Seq(S)
      /\ Len(back) = Len(s) - k
      /\ \A i \in 1..(Len(s) - k) : back[i] = s[k + i]
  <2>1. \A i \in (k + 1)..Len(s) : s[i] \in S
    BY <1>1, <1>2
  <2> QED
    BY <1>2, <2>1, SubSeqProperties, SMTT(20)
<1> HIDE DEF front, back
<1>5. /\ front \o back \in Seq(S)
      /\ Len(front \o back) = Len(s) - 1
      /\ \A j \in 1..(Len(s) - 1) :
             (front \o back)[j] = IF j <= k - 1 THEN front[j] ELSE back[j - (k - 1)]
  BY <1>2, <1>3, <1>4, ConcatProperties, SMTT(60)
<1>6. RemoveAt(s, k) = front \o back
  BY DEF RemoveAt, front, back
<1>7. ASSUME NEW j \in 1..(Len(s) - 1)
      PROVE  (front \o back)[j] = IF j < k THEN s[j] ELSE s[j + 1]
  <2>1. CASE j < k
    <3>1. j \in 1..(k - 1) /\ j <= k - 1
      BY <1>2, <2>1
    <3> QED
      BY <1>3, <1>5, <2>1, <3>1
  <2>2. CASE ~ (j < k)
    <3>1. /\ j - (k - 1) \in 1..(Len(s) - k)
          /\ k + (j - (k - 1)) = j + 1
          /\ ~ (j <= k - 1)
      BY <1>2, <2>2
    <3>2. back[j - (k - 1)] = s[k + (j - (k - 1))]
      BY <1>4, <3>1
    <3>3. (front \o back)[j] = back[j - (k - 1)]
      BY <1>5, <3>1
    <3> QED
      BY <2>2, <3>1, <3>2, <3>3
  <2> QED
    BY <2>1, <2>2
<1> QED
  BY <1>2, <1>5, <1>6, <1>7, LenProperties

\* Joining a queue.
LEMMA AppendSeq ==
    ASSUME NEW S, NEW s \in Seq(S), NEW e \in S
    PROVE  /\ Append(s, e) \in Seq(S)
           /\ \A j \in DOMAIN s : j \in DOMAIN Append(s, e) /\ Append(s, e)[j] = s[j]
           /\ \E i \in DOMAIN Append(s, e) : Append(s, e)[i] = e
<1>1. PICK t : t = Append(s, e)
  OBVIOUS
<1>2. /\ t \in Seq(S)
      /\ Len(t) = Len(s) + 1
      /\ \A j \in 1..Len(s) : t[j] = s[j]
      /\ t[Len(s) + 1] = e
  BY <1>1, AppendProperties
<1>3. DOMAIN s = 1..Len(s) /\ DOMAIN t = 1..Len(t) /\ Len(s) \in Nat
  BY <1>2, LenProperties
<1> QED
  BY <1>1, <1>2, <1>3

\* Leaving a queue keeps the order of those that stay.
LEMMA WithoutSeq ==
    ASSUME NEW S, NEW s \in Seq(S), NEW P \in SUBSET DOMAIN s
    PROVE  /\ Without(s, P) \in Seq(S)
           /\ \A j \in DOMAIN s \ P :
                  \E i \in DOMAIN Without(s, P) : Without(s, P)[i] = s[j]
<1>1. CASE P = {}
  BY <1>1 DEF Without
<1>2. CASE P # {}
  <2> DEFINE k == CHOOSE i \in P : TRUE
             r == RemoveAt(s, k)
  <2>1. Without(s, P) = r
    BY <1>2 DEF Without
  <2>2. Len(s) \in Nat /\ DOMAIN s = 1..Len(s) /\ k \in 1..Len(s) /\ k \in P
    BY <1>2, LenProperties
  <2> HIDE DEF k
  <2>3. /\ r \in Seq(S)
        /\ DOMAIN r = 1..(Len(s) - 1)
        /\ \A j \in 1..(Len(s) - 1) : r[j] = IF j < k THEN s[j] ELSE s[j + 1]
    BY <2>2, RemoveAtSeq
  <2> HIDE DEF r
  <2>4. ASSUME NEW j \in DOMAIN s \ P
        PROVE  \E i \in DOMAIN r : r[i] = s[j]
    <3>1. CASE j < k
      <4>1. j \in 1..(Len(s) - 1)
        BY <2>2, <3>1
      <4> QED
        BY <2>3, <3>1, <4>1
    <3>2. CASE k < j
      <4>1. j - 1 \in 1..(Len(s) - 1) /\ ~ (j - 1 < k) /\ (j - 1) + 1 = j
        BY <2>2, <3>2
      <4>2. r[j - 1] = s[(j - 1) + 1]
        BY <2>3, <4>1
      <4> QED
        BY <2>3, <4>1, <4>2
    <3> QED
      BY <2>2, <3>1, <3>2
  <2> QED
    BY <2>1, <2>3, <2>4
<1> QED
  BY <1>1, <1>2

----------------------------------------------------------------------------
(* The kinds of calls.                                                     *)

LEMMA CallKinds ==
    ASSUME NEW r \in Calls
    PROVE  /\ r = Idle => r.pc = "idle"
           /\ r.pc = "idle" => r = Idle
           /\ r.pc \in {"get", "new", "again"} =>
                  r \in [pc : {"get", "new", "again"}, addr : Addresses, makes : BOOLEAN]
           /\ r.pc = "wait" => r \in [pc : {"wait"}, addr : Addresses, at : Nat]
           /\ r.pc = "guard" =>
                  r \in [pc : {"guard"}, addr : Addresses, at : Nat, copy : Nat]
BY DEF Calls, Idle

\* A call at a mutex is at one there is, the one the map has.
LEMMA AtItsMutex ==
    ASSUME IInv, NEW c \in Callers, Waits(c) \/ Has(c)
    PROVE  /\ call[c].addr \in Addresses
           /\ call[c].at = inner[call[c].addr]
           /\ call[c].at \in 1..Len(mutexes)
           /\ mutexes[call[c].at] \in [queue : Seq(Callers), val : 0..MaxChanges]
<1>1. call[c].addr \in Addresses /\ call[c] \in Calls
  BY CallKinds DEF IInv, TypeOK, Waits, Has
<1>2. call[c].at = inner[call[c].addr] /\ call[c].at # 0
  BY DEF IInv, TypeOK, AtMutex
<1>3. inner[call[c].addr] \in 0..Len(mutexes) /\ Len(mutexes) \in Nat
  BY <1>1, LenProperties DEF IInv, TypeOK
<1>4. call[c].at \in 1..Len(mutexes)
  BY <1>2, <1>3
<1> QED
  BY <1>1, <1>2, <1>4, ElementOfSeq DEF IInv, TypeOK

\* What leaves the map's queue is still one.
LEMMA RwLeft ==
    ASSUME TypeOK, NEW c \in Callers, NEW kind \in {"read", "write"}
    PROVE  /\ Left(rw, c) \in Seq([by : Callers, kind : {"read", "write"}])
           /\ \A q \in Seq([by : Callers, kind : {"read", "write"}]) :
                  Queued(q, c, kind) \in Seq([by : Callers, kind : {"read", "write"}])
<1>1. {i \in DOMAIN rw : rw[i].by = c} \in SUBSET DOMAIN rw
  OBVIOUS
<1>2. Left(rw, c) \in Seq([by : Callers, kind : {"read", "write"}])
  BY <1>1, WithoutSeq DEF TypeOK, Left
<1> QED
  BY <1>2, AppendProperties DEF Queued

----------------------------------------------------------------------------
(* Changing one mutex.                                                     *)

Mutex == [queue : Seq(Callers), val : 0..MaxChanges]

\* A mutex's queue changes and the map stays.
LEMMA QueueChange ==
    ASSUME mutexes \in Seq(Mutex), NEW at \in 1..Len(mutexes), NEW q \in Seq(Callers),
           mutexes' = [mutexes EXCEPT ![at].queue = q]
    PROVE  /\ mutexes' \in Seq(Mutex)
           /\ Len(mutexes') = Len(mutexes)
           /\ \A i \in 1..Len(mutexes) :
                  /\ mutexes'[i].val = mutexes[i].val
                  /\ i # at => mutexes'[i] = mutexes[i]
           /\ mutexes'[at].queue = q
<1>1. PICK m : m = mutexes[at]
  OBVIOUS
<1>2. m \in Mutex
  BY <1>1, ElementOfSeq
<1>3. PICK n : n = [m EXCEPT !.queue = q]
  OBVIOUS
<1>4. n \in Mutex /\ n.queue = q /\ n.val = m.val
  BY <1>2, <1>3 DEF Mutex
<1>5. mutexes' = [mutexes EXCEPT ![at] = n]
  BY <1>1, <1>3, Zenon
<1> QED
  BY <1>1, <1>4, <1>5, ExceptSeq

\* A Counterparty changes and the queues stay.
LEMMA ValChange ==
    ASSUME mutexes \in Seq(Mutex), NEW at \in 1..Len(mutexes), NEW v \in 0..MaxChanges,
           mutexes' = [mutexes EXCEPT ![at].val = v]
    PROVE  /\ mutexes' \in Seq(Mutex)
           /\ Len(mutexes') = Len(mutexes)
           /\ \A i \in 1..Len(mutexes) :
                  /\ mutexes'[i].queue = mutexes[i].queue
                  /\ i # at => mutexes'[i] = mutexes[i]
           /\ mutexes'[at].val = v
<1>1. PICK m : m = mutexes[at]
  OBVIOUS
<1>2. m \in Mutex
  BY <1>1, ElementOfSeq
<1>3. PICK n : n = [m EXCEPT !.val = v]
  OBVIOUS
<1>4. n \in Mutex /\ n.val = v /\ n.queue = m.queue
  BY <1>2, <1>3 DEF Mutex
<1>5. mutexes' = [mutexes EXCEPT ![at] = n]
  BY <1>1, <1>3, Zenon
<1> QED
  BY <1>1, <1>4, <1>5, ExceptSeq

----------------------------------------------------------------------------
(* The inductive invariant.                                                *)

LEMMA IInvInit == Init => IInv
<1> SUFFICES ASSUME Init PROVE IInv
  OBVIOUS
<1> USE MaxChangesAssumption DEF Init
<1>1. <<>> \in Seq([queue : Seq(Callers), val : 0..MaxChanges])
      /\ <<>> \in Seq([by : Callers, kind : {"read", "write"}])
      /\ Len(mutexes) = 0
  BY EmptySeq
<1>2. TypeOK
  BY <1>1 DEF TypeOK, Calls, Idle, Waits, Has
<1> QED
  BY <1>2 DEF IInv, OwnMutex, AtMutex, OneGuard, Idle, Waits, Has

\* A call that stays where it is, in the queue or with the guard.
LEMMA Stays ==
    ASSUME IInv, NEW d \in Callers, UNCHANGED call[d],
           Waits(d) => \A i \in DOMAIN mutexes[call[d].at].queue :
               mutexes[call[d].at].queue[i] = d =>
                   \E j \in DOMAIN mutexes'[call[d].at].queue :
                       mutexes'[call[d].at].queue[j] = d,
           Has(d) => mutexes'[call[d].at].val = mutexes[call[d].at].val
    PROVE  AtMutex(d)'
<1>1. AtMutex(d) /\ call'[d] = call[d]
  BY DEF IInv
<1>2. CASE Waits(d)
  <2>1. \E i \in DOMAIN mutexes[call[d].at].queue :
            mutexes[call[d].at].queue[i] = d
    BY <1>1, <1>2 DEF AtMutex
  <2>2. \E j \in DOMAIN mutexes'[call[d].at].queue :
            mutexes'[call[d].at].queue[j] = d
    BY <1>2, <2>1
  <2> QED
    BY <1>1, <1>2, <2>2 DEF AtMutex, Waits, Has
<1>3. CASE Has(d)
  BY <1>1, <1>3 DEF AtMutex, Waits, Has
<1>4. CASE ~Waits(d) /\ ~Has(d)
  BY <1>1, <1>4 DEF AtMutex, Waits, Has
<1> QED
  BY <1>2, <1>3, <1>4

\* get_counterparty finds the mutex and joins its queue.
LEMMA FoundStep ==
    ASSUME IInv, NEW c \in Callers, Found(c)
    PROVE  IInv'
<1> DEFINE a == call[c].addr
           at == inner[a]
           q == mutexes[at].queue
           new == [pc |-> "wait", addr |-> a, at |-> at]
<1> USE DEF IInv
<1>1. a \in Addresses
  BY CallKinds DEF TypeOK, Found
<1>2. at \in 1..Len(mutexes) /\ at \in Nat /\ at # 0
  BY <1>1, LenProperties DEF TypeOK, Found
<1>3. q \in Seq(Callers)
  <2>1. PICK m : m = mutexes[at]
    OBVIOUS
  <2>2. m \in Mutex
    BY <1>2, <2>1, ElementOfSeq DEF TypeOK, Mutex
  <2> QED
    BY <2>1, <2>2 DEF Mutex
<1>4. /\ Append(q, c) \in Seq(Callers)
      /\ \A i \in DOMAIN q : i \in DOMAIN Append(q, c) /\ Append(q, c)[i] = q[i]
      /\ \E i \in DOMAIN Append(q, c) : Append(q, c)[i] = c
  BY <1>3, AppendSeq
<1>5. mutexes' = [mutexes EXCEPT ![at].queue = Append(q, c)]
      /\ call' = [call EXCEPT ![c] = new]
  BY DEF Found, Becomes
<1>6. /\ mutexes' \in Seq(Mutex)
      /\ Len(mutexes') = Len(mutexes)
      /\ \A i \in 1..Len(mutexes) :
             /\ mutexes'[i].val = mutexes[i].val
             /\ i # at => mutexes'[i] = mutexes[i]
      /\ mutexes'[at].queue = Append(q, c)
  BY <1>2, <1>4, <1>5, QueueChange DEF TypeOK, Mutex
<1>7. new \in Calls
  BY <1>1, <1>2 DEF Calls
<1>8. rw' \in Seq([by : Callers, kind : {"read", "write"}])
  BY RwLeft DEF Found
<1>9. call \in [Callers -> Calls] /\ inner \in [Addresses -> 0..Len(mutexes)] /\ inner' = inner
  BY DEF TypeOK, Found
<1>10. \A d \in Callers : call'[d] = IF d = c THEN new ELSE call[d]
  BY <1>5, <1>9
<1>11. /\ Waits(c)' /\ ~Has(c)'
       /\ new.addr = a /\ new.at = at
       /\ \A d \in Callers \ {c} : Waits(d)' = Waits(d) /\ Has(d)' = Has(d)
  BY <1>10 DEF Waits, Has
<1>12. a = call[c].addr /\ at = inner[a] /\ q = mutexes[at].queue
  OBVIOUS
<1> HIDE DEF a, at, q, new
<1>13. TypeOK'
  <2>1. call' \in [Callers -> Calls]
    BY <1>5, <1>7, <1>9
  <2>2. \A d \in Callers : (Waits(d) \/ Has(d) => call[d].at = inner[call[d].addr])'
    BY <1>9, <1>10, <1>11, <1>12 DEF TypeOK
  <2> QED
    BY <1>6, <1>8, <1>9, <2>1, <2>2 DEF TypeOK, Mutex
<1>14. ASSUME NEW d \in Callers
       PROVE  AtMutex(d)'
  <2>1. CASE d = c
    BY <1>2, <1>4, <1>6, <1>10, <1>11, <2>1 DEF AtMutex
  <2>2. CASE d # c
    <3>1. UNCHANGED call[d]
      BY <1>10, <2>2
    <3>2. Waits(d) \/ Has(d) => call[d].at \in 1..Len(mutexes)
      BY AtItsMutex
    <3>3. Has(d) => mutexes'[call[d].at].val = mutexes[call[d].at].val
      BY <1>6, <3>2
    <3>4. ASSUME Waits(d), NEW i \in DOMAIN mutexes[call[d].at].queue,
                 mutexes[call[d].at].queue[i] = d
          PROVE  \E j \in DOMAIN mutexes'[call[d].at].queue :
                     mutexes'[call[d].at].queue[j] = d
      <4>1. call[d].at \in 1..Len(mutexes)
        BY <3>2, <3>4
      <4>2. CASE call[d].at = at
        BY <1>4, <1>6, <1>12, <3>4, <4>2
      <4>3. CASE call[d].at # at
        BY <1>6, <3>4, <4>1, <4>3
      <4> QED
        BY <4>2, <4>3
    <3> QED
      BY <3>1, <3>3, <3>4, Stays
  <2> QED
    BY <2>1, <2>2
<1>15. OwnMutex' /\ OneGuard'
  BY <1>9, <1>10, <1>11 DEF OwnMutex, OneGuard
<1> QED
  BY <1>13, <1>14, <1>15

\* c has left its mutex, or was at none.
LEMMA AwayStep ==
    ASSUME IInv, NEW c \in Callers, NEW new \in Calls, new.pc \notin {"wait", "guard"},
           call' = [call EXCEPT ![c] = new],
           UNCHANGED inner,
           mutexes' \in Seq(Mutex),
           Len(mutexes') = Len(mutexes),
           \A i \in 1..Len(mutexes) :
               /\ mutexes'[i].val = mutexes[i].val
               /\ \A k \in DOMAIN mutexes[i].queue :
                      mutexes[i].queue[k] # c =>
                          \E j \in DOMAIN mutexes'[i].queue :
                              mutexes'[i].queue[j] = mutexes[i].queue[k],
           rw' \in Seq([by : Callers, kind : {"read", "write"}])
    PROVE  IInv'
<1> USE DEF IInv
<1>1. \A d \in Callers : call'[d] = IF d = c THEN new ELSE call[d]
  BY DEF TypeOK
<1>2. /\ ~Waits(c)' /\ ~Has(c)'
      /\ \A d \in Callers \ {c} : Waits(d)' = Waits(d) /\ Has(d)' = Has(d)
  BY <1>1 DEF Waits, Has
<1>3. TypeOK'
  <2>1. call' \in [Callers -> Calls] /\ inner' \in [Addresses -> 0..Len(mutexes')]
    BY DEF TypeOK
  <2>2. \A d \in Callers : (Waits(d) \/ Has(d) => call[d].at = inner[call[d].addr])'
    BY <1>1, <1>2 DEF TypeOK
  <2> QED
    BY <2>1, <2>2 DEF TypeOK, Mutex
<1>4. ASSUME NEW d \in Callers
      PROVE  AtMutex(d)'
  <2>1. CASE d = c
    BY <1>2, <2>1 DEF AtMutex
  <2>2. CASE d # c
    <3>1. UNCHANGED call[d]
      BY <1>1, <2>2
    <3>2. Waits(d) \/ Has(d) => call[d].at \in 1..Len(mutexes)
      BY AtItsMutex
    <3>3. Has(d) => mutexes'[call[d].at].val = mutexes[call[d].at].val
      BY <3>2
    <3>4. ASSUME Waits(d), NEW i \in DOMAIN mutexes[call[d].at].queue,
                 mutexes[call[d].at].queue[i] = d
          PROVE  \E j \in DOMAIN mutexes'[call[d].at].queue :
                     mutexes'[call[d].at].queue[j] = d
      BY <2>2, <3>2, <3>4
    <3> QED
      BY <3>1, <3>3, <3>4, Stays
  <2> QED
    BY <2>1, <2>2
<1>5. OwnMutex' /\ OneGuard'
  BY <1>1, <1>2 DEF OwnMutex, OneGuard
<1> QED
  BY <1>3, <1>4, <1>5

\* c is away from any mutex, and only the map's queue may change.
LEMMA ElsewhereStep ==
    ASSUME IInv, NEW c \in Callers, NEW new \in Calls, new.pc \notin {"wait", "guard"},
           call' = [call EXCEPT ![c] = new],
           UNCHANGED <<inner, mutexes>>,
           rw' \in Seq([by : Callers, kind : {"read", "write"}])
    PROVE  IInv'
<1>1. mutexes' \in Seq(Mutex)
  BY DEF IInv, TypeOK, Mutex
<1> QED
  BY <1>1, AwayStep

\* A call asks for the read lock of the map.
LEMMA CallStep ==
    ASSUME IInv, NEW c \in Callers, NEW a \in Addresses, NEW makes \in BOOLEAN,
           Call(c, a, makes)
    PROVE  IInv'
<1>1. [pc |-> "get", addr |-> a, makes |-> makes] \in Calls
  BY DEF Calls
<1>2. rw' \in Seq([by : Callers, kind : {"read", "write"}])
  BY RwLeft DEF IInv, TypeOK, Call
<1> QED
  BY <1>1, <1>2, ElsewhereStep DEF Call, Becomes

\* get_counterparty finds nothing.
LEMMA NotFoundStep ==
    ASSUME IInv, NEW c \in Callers, NotFound(c)
    PROVE  IInv'
<1>1. rw' \in Seq([by : Callers, kind : {"read", "write"}])
  BY RwLeft DEF IInv, NotFound
<1>2. CASE call[c].makes
  <2>1. PICK r : r = call[c]
    OBVIOUS
  <2>2. r \in [pc : {"get", "new", "again"}, addr : Addresses, makes : BOOLEAN]
    BY <2>1, CallKinds DEF IInv, TypeOK, NotFound
  <2>3. PICK new : new = [r EXCEPT !.pc = "new"]
    OBVIOUS
  <2>4. new \in Calls /\ new.pc = "new"
    BY <2>2, <2>3 DEF Calls
  <2>5. call' = [call EXCEPT ![c] = new] /\ UNCHANGED <<inner, mutexes>>
    BY <1>2, <2>1, <2>3, Zenon DEF NotFound, Becomes
  <2> QED
    BY <1>1, <2>4, <2>5, ElsewhereStep
<1>3. CASE ~call[c].makes
  BY <1>1, <1>3, ElsewhereStep DEF NotFound, Becomes, Calls, Idle
<1> QED
  BY <1>2, <1>3

\* A guard is given back.
LEMMA ReleaseStep ==
    ASSUME IInv, NEW c \in Callers, Release(c)
    PROVE  IInv'
BY ElsewhereStep DEF IInv, TypeOK, Release, Becomes, Calls, Idle

\* A future that has no guard yet is dropped, wherever it waits.
LEMMA DropStep ==
    ASSUME IInv, NEW c \in Callers, Drop(c)
    PROVE  IInv'
<1>1. rw' \in Seq([by : Callers, kind : {"read", "write"}])
  BY RwLeft DEF IInv, Drop
<1>2. CASE Waits(c)
  <2>1. PICK at \in 1..Len(mutexes) : at = call[c].at /\ mutexes[at] \in Mutex
    BY <1>2, AtItsMutex DEF Mutex
  <2>2. PICK q \in Seq(Callers) : q = mutexes[at].queue
    BY <2>1 DEF Mutex
  <2>3. PICK r : r = Without(q, {i \in DOMAIN q : q[i] = c})
    OBVIOUS
  <2>4. /\ r \in Seq(Callers)
        /\ \A j \in DOMAIN q : q[j] # c => \E i \in DOMAIN r : r[i] = q[j]
    <3>1. PICK P \in SUBSET DOMAIN q : P = {i \in DOMAIN q : q[i] = c}
      OBVIOUS
    <3>2. /\ Without(q, P) \in Seq(Callers)
          /\ \A j \in DOMAIN q \ P :
                 \E i \in DOMAIN Without(q, P) : Without(q, P)[i] = q[j]
      BY WithoutSeq
    <3> QED
      BY <2>3, <3>1, <3>2
  <2>5. mutexes' = [mutexes EXCEPT ![at].queue = r]
    BY <1>2, <2>1, <2>2, <2>3, Zenon DEF Drop
  <2>6. /\ mutexes' \in Seq(Mutex)
        /\ Len(mutexes') = Len(mutexes)
        /\ \A i \in 1..Len(mutexes) :
               /\ mutexes'[i].val = mutexes[i].val
               /\ i # at => mutexes'[i] = mutexes[i]
        /\ mutexes'[at].queue = r
    BY <2>4, <2>5, QueueChange DEF IInv, TypeOK, Mutex
  <2>7. \A i \in 1..Len(mutexes) : \A k \in DOMAIN mutexes[i].queue :
            mutexes[i].queue[k] # c =>
                \E j \in DOMAIN mutexes'[i].queue :
                    mutexes'[i].queue[j] = mutexes[i].queue[k]
    BY <2>2, <2>4, <2>6
  <2>8. call' = [call EXCEPT ![c] = Idle] /\ UNCHANGED inner
    BY Zenon DEF Drop, Becomes
  <2>9. Idle \in Calls /\ Idle.pc \notin {"wait", "guard"}
    BY DEF Calls, Idle
  <2> QED
    BY <1>1, <2>6, <2>7, <2>8, <2>9, AwayStep
<1>3. CASE ~Waits(c)
  BY <1>1, <1>3, ElsewhereStep DEF Drop, Becomes, Calls, Idle
<1> QED
  BY <1>2, <1>3

\* c goes on at its mutex, of which only c can see the change.
LEMMA AtStep ==
    ASSUME IInv, NEW c \in Callers, NEW at \in 1..Len(mutexes),
           Waits(c) \/ Has(c), at = call[c].at,
           NEW new \in Calls, new.pc = "guard",
           new.addr = call[c].addr, new.at = at, new.copy = mutexes'[at].val,
           call' = [call EXCEPT ![c] = new],
           UNCHANGED <<inner, rw>>,
           mutexes' \in Seq(Mutex),
           Len(mutexes') = Len(mutexes),
           \A i \in 1..Len(mutexes) : i # at => mutexes'[i] = mutexes[i],
           \A k \in DOMAIN mutexes[at].queue :
               mutexes[at].queue[k] # c =>
                   \E j \in DOMAIN mutexes'[at].queue :
                       mutexes'[at].queue[j] = mutexes[at].queue[k],
           \A d \in Callers \ {c} : Has(d) => call[d].at # at
    PROVE  IInv'
<1> USE DEF IInv
<1>1. \A d \in Callers : call'[d] = IF d = c THEN new ELSE call[d]
  BY DEF TypeOK
<1>2. /\ ~Waits(c)' /\ Has(c)'
      /\ \A d \in Callers \ {c} : Waits(d)' = Waits(d) /\ Has(d)' = Has(d)
  BY <1>1 DEF Waits, Has
<1>3. TypeOK'
  <2>1. call' \in [Callers -> Calls] /\ inner' \in [Addresses -> 0..Len(mutexes')]
    BY DEF TypeOK
  <2>2. \A d \in Callers : (Waits(d) \/ Has(d) => call[d].at = inner[call[d].addr])'
    BY <1>1, <1>2 DEF TypeOK
  <2>3. rw' \in Seq([by : Callers, kind : {"read", "write"}])
    BY DEF TypeOK
  <2> QED
    BY <2>1, <2>2, <2>3 DEF TypeOK, Mutex
<1>4. ASSUME NEW d \in Callers
      PROVE  AtMutex(d)'
  <2>1. CASE d = c
    BY <1>1, <1>2, <2>1 DEF AtMutex
  <2>2. CASE d # c
    <3>1. UNCHANGED call[d]
      BY <1>1, <2>2
    <3>2. Waits(d) \/ Has(d) => call[d].at \in 1..Len(mutexes)
      BY AtItsMutex
    <3>3. Has(d) => mutexes'[call[d].at].val = mutexes[call[d].at].val
      BY <2>2, <3>2
    <3>4. ASSUME Waits(d), NEW i \in DOMAIN mutexes[call[d].at].queue,
                 mutexes[call[d].at].queue[i] = d
          PROVE  \E j \in DOMAIN mutexes'[call[d].at].queue :
                     mutexes'[call[d].at].queue[j] = d
      BY <2>2, <3>2, <3>4
    <3> QED
      BY <3>1, <3>3, <3>4, Stays
  <2> QED
    BY <2>1, <2>2
<1>5. OneGuard'
  \* Whoever has the record has it at this mutex.
  <2>1. ASSUME NEW d \in Callers \ {c}, Has(d)
        PROVE  call[d].addr # call[c].addr
    BY <2>1, AtItsMutex
  <2> QED
    BY <1>1, <1>2, <2>1 DEF OneGuard
<1>6. OwnMutex'
  BY DEF OwnMutex
<1> QED
  BY <1>3, <1>4, <1>5, <1>6

\* The first in the queue of a mutex has its guard.
LEMMA AcquireStep ==
    ASSUME IInv, NEW c \in Callers, Acquire(c)
    PROVE  IInv'
<1>0. Waits(c)
  BY DEF Acquire
<1>1. PICK at \in 1..Len(mutexes) : at = call[c].at /\ mutexes[at] \in Mutex
  BY <1>0, AtItsMutex DEF Mutex
<1>2. PICK q \in Seq(Callers) : q = mutexes[at].queue
  BY <1>1 DEF Mutex
<1>3. q[1] = c /\ q # <<>>
  <2>1. q[1] = c
    BY <1>1, <1>2 DEF Acquire
  <2>2. \E i \in DOMAIN q : q[i] = c
    BY <1>0, <1>1, <1>2 DEF IInv, AtMutex
  <2> QED
    BY <2>1, <2>2
<1>4. PICK r : r = Tail(q)
  OBVIOUS
<1>5. r \in Seq(Callers) /\ \A k \in DOMAIN q : q[k] # c => \E j \in DOMAIN r : r[j] = q[k]
  <2>1. /\ r \in Seq(Callers)
        /\ Len(r) = Len(q) - 1
        /\ \A j \in 1..Len(r) : r[j] = q[j + 1]
    BY <1>3, <1>4, HeadTailProperties
  <2>2. DOMAIN q = 1..Len(q) /\ DOMAIN r = 1..Len(r) /\ Len(q) \in Nat
    BY <2>1, LenProperties
  <2>3. ASSUME NEW k \in DOMAIN q, q[k] # c
        PROVE  \E j \in DOMAIN r : r[j] = q[k]
    <3>1. k - 1 \in 1..Len(r) /\ (k - 1) + 1 = k
      BY <1>3, <2>1, <2>2, <2>3
    <3> QED
      BY <2>1, <2>2, <3>1
  <2> QED
    BY <2>1, <2>3
<1>6. mutexes' = [mutexes EXCEPT ![at].queue = r]
  BY <1>1, <1>2, <1>4, Zenon DEF Acquire
<1>7. /\ mutexes' \in Seq(Mutex)
      /\ Len(mutexes') = Len(mutexes)
      /\ \A i \in 1..Len(mutexes) :
             /\ mutexes'[i].val = mutexes[i].val
             /\ i # at => mutexes'[i] = mutexes[i]
      /\ mutexes'[at].queue = r
  BY <1>5, <1>6, QueueChange DEF IInv, TypeOK, Mutex
<1>8. PICK new : new = [pc |-> "guard", addr |-> call[c].addr, at |-> at,
                        copy |-> mutexes[at].val]
  OBVIOUS
<1>9. /\ new \in Calls /\ new.pc = "guard"
      /\ new.addr = call[c].addr /\ new.at = at /\ new.copy = mutexes[at].val
  <2>1. call[c].addr \in Addresses /\ at \in Nat /\ mutexes[at].val \in Nat
    BY <1>0, <1>1, AtItsMutex, MaxChangesAssumption DEF Mutex
  <2> QED
    BY <1>8, <2>1 DEF Calls
<1>10. call' = [call EXCEPT ![c] = new] /\ UNCHANGED <<inner, rw>>
  BY <1>1, <1>8 DEF Acquire, Becomes
<1>11. \A d \in Callers \ {c} : Has(d) => call[d].at # at
  BY <1>1 DEF Acquire
<1>12. \A k \in DOMAIN mutexes[at].queue :
            mutexes[at].queue[k] # c =>
                \E j \in DOMAIN mutexes'[at].queue :
                    mutexes'[at].queue[j] = mutexes[at].queue[k]
  BY <1>2, <1>5, <1>7
<1>13. new.copy = mutexes'[at].val
  BY <1>7, <1>9
<1>14. \A i \in 1..Len(mutexes) : i # at => mutexes'[i] = mutexes[i]
  BY <1>7
<1>15. mutexes' \in Seq(Mutex) /\ Len(mutexes') = Len(mutexes)
  BY <1>7
<1>16. Waits(c) \/ Has(c)
  BY <1>0
<1> QED
  BY <1>1, <1>9, <1>10, <1>11, <1>12, <1>13, <1>14, <1>15, <1>16, AtStep

\* A change leaves the records of other addresses alone.
LEMMA OthersElsewhere ==
    ASSUME IInv, NEW c \in Callers, Has(c), NEW d \in Callers \ {c}, Has(d)
    PROVE  call[d].at # call[c].at
<1>1. /\ call[c].addr \in Addresses /\ call[c].at = inner[call[c].addr]
      /\ call[d].addr \in Addresses /\ call[d].at = inner[call[d].addr]
      /\ call[c].at # 0
  BY AtItsMutex DEF IInv, AtMutex
<1> QED
  BY <1>1 DEF IInv, OwnMutex, OneGuard

\* The owner stores what it made of its clone.
LEMMA StoreStep ==
    ASSUME IInv, NEW c \in Callers, Store(c)
    PROVE  IInv'
<1>0. Has(c)
  BY DEF Store
<1>1. PICK at \in 1..Len(mutexes) : at = call[c].at /\ mutexes[at] \in Mutex
  BY <1>0, AtItsMutex DEF Mutex
<1>2. PICK r : r = call[c]
  OBVIOUS
<1>3. r \in [pc : {"guard"}, addr : Addresses, at : Nat, copy : Nat]
  BY <1>0, <1>2, CallKinds DEF Has, IInv, TypeOK
<1>4. PICK v \in 0..MaxChanges : v = r.copy + 1
  BY <1>2, <1>3, MaxChangesAssumption DEF Store
<1>5. PICK new : new = [r EXCEPT !.copy = v]
  OBVIOUS
<1>6. /\ new \in Calls /\ new.pc = "guard"
      /\ new.addr = r.addr /\ new.at = r.at /\ new.copy = v
  BY <1>3, <1>4, <1>5, MaxChangesAssumption DEF Calls
<1>7. mutexes' = [mutexes EXCEPT ![at].val = v]
  BY <1>1, <1>2, <1>4, Zenon DEF Store
<1>8. /\ mutexes' \in Seq(Mutex)
      /\ Len(mutexes') = Len(mutexes)
      /\ \A i \in 1..Len(mutexes) :
             /\ mutexes'[i].queue = mutexes[i].queue
             /\ i # at => mutexes'[i] = mutexes[i]
      /\ mutexes'[at].val = v
  BY <1>7, ValChange DEF IInv, TypeOK, Mutex
<1>9. call' = [call EXCEPT ![c] = new] /\ UNCHANGED <<inner, rw>>
  BY <1>2, <1>4, <1>5, Zenon DEF Store, Becomes
<1>10. \A d \in Callers \ {c} : Has(d) => call[d].at # at
  BY <1>0, <1>1, OthersElsewhere
<1>11. \A k \in DOMAIN mutexes[at].queue :
            mutexes[at].queue[k] # c =>
                \E j \in DOMAIN mutexes'[at].queue :
                    mutexes'[at].queue[j] = mutexes[at].queue[k]
  BY <1>8
<1>12. new.addr = call[c].addr /\ new.at = at /\ new.copy = mutexes'[at].val
  BY <1>1, <1>2, <1>6, <1>8
<1>13. \A i \in 1..Len(mutexes) : i # at => mutexes'[i] = mutexes[i]
  BY <1>8
<1>14. mutexes' \in Seq(Mutex) /\ Len(mutexes') = Len(mutexes)
  BY <1>8
<1>15. Waits(c) \/ Has(c)
  BY <1>0
<1> QED
  BY <1>1, <1>6, <1>9, <1>10, <1>11, <1>12, <1>13, <1>14, <1>15, AtStep

\* new_counterparty makes the mutex, or finds that another call was faster.
LEMMA CreateStep ==
    ASSUME IInv, NEW c \in Callers, Create(c)
    PROVE  IInv'
<1>1. PICK r \in [pc : {"get", "new", "again"}, addr : Addresses, makes : BOOLEAN] :
          r = call[c]
  BY CallKinds DEF IInv, TypeOK, Create
<1>2. PICK a \in Addresses : a = r.addr
  OBVIOUS
<1>3. CASE inner[a] = 0
  <2>1. PICK new : new = [r EXCEPT !.pc = "again"]
    OBVIOUS
  <2>2. new \in Calls /\ new.pc = "again"
    BY <2>1 DEF Calls
  <2>3. PICK m : m = [queue |-> <<>>, val |-> 0]
    OBVIOUS
  <2>4. m \in Mutex
    BY <2>3, MaxChangesAssumption DEF Mutex
  <2>5. /\ call' = [call EXCEPT ![c] = new]
        /\ mutexes' = Append(mutexes, m)
        /\ inner' = [inner EXCEPT ![a] = Len(mutexes) + 1]
        /\ rw' = Queued(Left(rw, c), c, "read")
    BY <1>1, <1>2, <1>3, <2>1, <2>3, Zenon DEF Create, Becomes
  <2>6. /\ Len(mutexes) \in Nat
        /\ mutexes \in Seq(Mutex)
        /\ call \in [Callers -> Calls]
        /\ inner \in [Addresses -> 0..Len(mutexes)]
    BY LenProperties DEF IInv, TypeOK, Mutex
  <2>7. /\ mutexes' \in Seq(Mutex)
        /\ Len(mutexes') = Len(mutexes) + 1
        /\ \A i \in 1..Len(mutexes) : mutexes'[i] = mutexes[i]
    BY <2>4, <2>5, <2>6, AppendProperties
  <2>8. \A d \in Callers : call'[d] = IF d = c THEN new ELSE call[d]
    BY <2>5, <2>6
  <2>9. /\ ~Waits(c)' /\ ~Has(c)'
        /\ \A d \in Callers \ {c} : Waits(d)' = Waits(d) /\ Has(d)' = Has(d)
    BY <2>2, <2>8 DEF Waits, Has
  <2>10. /\ \A b \in Addresses : inner'[b] = IF b = a THEN Len(mutexes) + 1 ELSE inner[b]
         /\ inner' \in [Addresses -> 0..Len(mutexes')]
    BY <2>5, <2>6, <2>7
  \* Nobody is at a mutex that was not there.
  <2>11. ASSUME NEW d \in Callers, Waits(d) \/ Has(d)
         PROVE  /\ call[d].at \in 1..Len(mutexes)
                /\ call[d].at = inner'[call[d].addr]
    BY <1>3, <2>6, <2>10, <2>11, AtItsMutex
  <2>12. TypeOK'
    <3>1. call' \in [Callers -> Calls]
      BY <2>2, <2>5, <2>6
    <3>2. rw' \in Seq([by : Callers, kind : {"read", "write"}])
      BY <2>5, RwLeft DEF IInv
    <3>3. \A d \in Callers : (Waits(d) \/ Has(d) => call[d].at = inner[call[d].addr])'
      BY <2>8, <2>9, <2>11
    <3> QED
      BY <2>7, <2>10, <3>1, <3>2, <3>3 DEF TypeOK, Mutex
  <2>13. ASSUME NEW d \in Callers
         PROVE  AtMutex(d)'
    <3>1. CASE d = c
      BY <2>9, <3>1 DEF AtMutex
    <3>2. CASE d # c
      <4>1. UNCHANGED call[d]
        BY <2>8, <3>2
      <4>2. Waits(d) \/ Has(d) => mutexes'[call[d].at] = mutexes[call[d].at]
        BY <2>7, <2>11
      <4> QED
        BY <4>1, <4>2, Stays
    <3> QED
      BY <3>1, <3>2
  <2>14. OwnMutex'
    BY <2>6, <2>10 DEF IInv, OwnMutex
  <2>15. OneGuard'
    BY <2>8, <2>9 DEF IInv, OneGuard
  <2> QED
    BY <2>12, <2>13, <2>14, <2>15 DEF IInv
<1>4. CASE inner[a] # 0
  <2>1. rw' \in Seq([by : Callers, kind : {"read", "write"}])
    BY <1>1, <1>2, <1>4, RwLeft DEF IInv, Create
  <2> QED
    BY <1>1, <1>2, <1>4, <2>1, ElsewhereStep DEF Create, Becomes, Calls, Idle
<1> QED
  BY <1>3, <1>4

\* One lemma above for each action.
LEMMA IInvStep ==
    ASSUME IInv, [Next]_vars
    PROVE  IInv'
<1>1. ASSUME NEW c \in Callers, NEW a \in Addresses, NEW makes \in BOOLEAN,
             Call(c, a, makes)
      PROVE  IInv'
  BY <1>1, CallStep
<1>2. ASSUME NEW c \in Callers, LookUp(c)
      PROVE  IInv'
  BY <1>2, FoundStep, NotFoundStep, CreateStep DEF LookUp
<1>3. ASSUME NEW c \in Callers, Acquire(c) \/ Store(c) \/ Release(c) \/ Drop(c)
      PROVE  IInv'
  BY <1>3, AcquireStep, StoreStep, ReleaseStep, DropStep
<1>4. CASE UNCHANGED vars
  BY <1>4
     DEF vars, IInv, TypeOK, OwnMutex, AtMutex, OneGuard, Waits, Has
<1> QED
  BY <1>1, <1>2, <1>3, <1>4 DEF Next

(* The inductive invariant: no two addresses share a mutex, and who waits  *)
(* or has a record is at the mutex of its address.                         *)
THEOREM IInvCorrect == Spec => []IInv
<1>1. Init => IInv
  BY IInvInit
<1>2. IInv /\ [Next]_vars => IInv'
  BY IInvStep
<1> QED
  BY <1>1, <1>2, PTL DEF Spec

(* Whoever waits for a counterparty, or has it, does so at the mutex the   *)
(* map has for it, whatever else is made, dropped or stored meanwhile      *)
(* (storage.rs:25-57).                                                     *)
THEOREM TypeCorrect == Spec => []TypeOK
<1>1. IInv => TypeOK
  BY DEF IInv
<1> QED
  BY <1>1, IInvCorrect, PTL

----------------------------------------------------------------------------
(* The refinement: each step is one step of CounterpartyRegister or none.  *)

LEMMA RegisterInit == Init => Register!Init
BY DEF Init, Register!Init, Present, Changes, ChangesOf, Owners, OwnersOf, Has, Idle

\* To queue for a mutex, or to leave the queue, changes no record.
LEMMA QueueKeepsChanges ==
    ASSUME IInv, NEW at \in 1..Len(mutexes), NEW q,
           mutexes' = [mutexes EXCEPT ![at].queue = q], UNCHANGED inner
    PROVE  UNCHANGED <<Present, Changes>>
<1>1. PICK m : m = mutexes[at]
  OBVIOUS
<1>2. /\ mutexes \in Seq(Mutex) /\ m \in Mutex
      /\ Len(mutexes) \in Nat /\ DOMAIN mutexes = 1..Len(mutexes)
      /\ inner \in [Addresses -> 0..Len(mutexes)]
  BY <1>1, ElementOfSeq, LenProperties DEF IInv, TypeOK, Mutex
<1>3. PICK n : n = [m EXCEPT !.queue = q]
  OBVIOUS
<1>4. n.val = m.val
  BY <1>2, <1>3 DEF Mutex
<1>5. mutexes' = [mutexes EXCEPT ![at] = n]
  BY <1>1, <1>3, Zenon
<1>6. \A i \in 1..Len(mutexes) : mutexes'[i].val = mutexes[i].val
  BY <1>1, <1>2, <1>4, <1>5
<1>7. \A a \in Addresses : inner[a] = 0 \/ inner[a] \in 1..Len(mutexes)
  BY <1>2
<1> QED
  BY <1>6, <1>7 DEF Present, Changes, ChangesOf

\* c has no record, and will have none.
LEMMA OwnersKept ==
    ASSUME IInv, NEW c \in Callers, NEW new, ~Has(c), new.pc # "guard",
           call' = [call EXCEPT ![c] = new]
    PROVE  UNCHANGED Owners
<1>1. \A d \in Callers : call'[d] = IF d = c THEN new ELSE call[d]
  BY DEF IInv, TypeOK
<1> QED
  BY <1>1 DEF Owners, OwnersOf, Has

register == <<Present, Changes, Owners>>

\* The register does not see lookups, waiting and futures dropped.
LEMMA CallStutters ==
    ASSUME IInv, NEW c \in Callers, NEW a \in Addresses, NEW makes \in BOOLEAN,
           Call(c, a, makes)
    PROVE  UNCHANGED register
<1>1. ~Has(c)
  BY DEF Call, Has, Idle
<1>2. UNCHANGED Owners
  BY <1>1, OwnersKept DEF Call, Becomes
<1> QED
  BY <1>2 DEF Call, register, Present, Changes, ChangesOf

LEMMA FoundStutters ==
    ASSUME IInv, NEW c \in Callers, Found(c)
    PROVE  UNCHANGED register
<1>1. PICK at : at = inner[call[c].addr]
  OBVIOUS
<1>2. call[c].addr \in Addresses
  BY CallKinds DEF IInv, TypeOK, Found
<1>3. at \in 1..Len(mutexes)
  BY <1>1, <1>2, LenProperties DEF IInv, TypeOK, Found
<1>4. PICK q : q = Append(mutexes[at].queue, c)
  OBVIOUS
<1>5. mutexes' = [mutexes EXCEPT ![at].queue = q] /\ UNCHANGED inner
  BY <1>1, <1>4, Zenon DEF Found
<1>6. ~Has(c)
  BY DEF Found, Has
<1>7. UNCHANGED Owners
  BY <1>6, OwnersKept DEF Found, Becomes
<1> QED
  BY <1>3, <1>5, <1>7, QueueKeepsChanges DEF register

LEMMA NotFoundStutters ==
    ASSUME IInv, NEW c \in Callers, NotFound(c)
    PROVE  UNCHANGED register
<1>1. PICK r : r = call[c]
  OBVIOUS
<1>2. r \in [pc : {"get", "new", "again"}, addr : Addresses, makes : BOOLEAN]
  BY <1>1, CallKinds DEF IInv, TypeOK, NotFound
<1>3. PICK new : new = [r EXCEPT !.pc = "new"]
  OBVIOUS
<1>4. new.pc = "new" /\ Idle.pc = "idle"
  BY <1>2, <1>3 DEF Idle
<1>5. call' = [call EXCEPT ![c] = new] \/ call' = [call EXCEPT ![c] = Idle]
  BY <1>1, <1>3, Zenon DEF NotFound, Becomes
<1>6. ~Has(c)
  BY DEF NotFound, Has
<1>7. UNCHANGED Owners
  BY <1>4, <1>5, <1>6, OwnersKept
<1> QED
  BY <1>7 DEF NotFound, register, Present, Changes, ChangesOf

LEMMA DropStutters ==
    ASSUME IInv, NEW c \in Callers, Drop(c)
    PROVE  UNCHANGED register
<1>1. ~Has(c) /\ Idle.pc = "idle"
  BY DEF Drop, LookingUp, Waits, Has, Idle
<1>2. UNCHANGED Owners
  BY <1>1, OwnersKept DEF Drop, Becomes
<1>3. CASE Waits(c)
  <2>1. PICK at \in 1..Len(mutexes) : at = call[c].at
    BY <1>3, AtItsMutex
  <2>2. PICK q : q = Without(mutexes[at].queue,
                             {i \in DOMAIN mutexes[at].queue : mutexes[at].queue[i] = c})
    OBVIOUS
  <2>3. mutexes' = [mutexes EXCEPT ![at].queue = q] /\ UNCHANGED inner
    BY <1>3, <2>1, <2>2, Zenon DEF Drop
  <2> QED
    BY <1>2, <2>3, QueueKeepsChanges DEF register
<1>4. CASE ~Waits(c)
  BY <1>2, <1>4 DEF Drop, register, Present, Changes, ChangesOf
<1> QED
  BY <1>3, <1>4

\* The four steps that the register sees.
LEMMA CreateImplements ==
    ASSUME IInv, NEW c \in Callers, Create(c)
    PROVE  Register!Next \/ UNCHANGED register
<1>1. PICK r \in [pc : {"get", "new", "again"}, addr : Addresses, makes : BOOLEAN] :
          r = call[c]
  BY CallKinds DEF IInv, TypeOK, Create
<1>2. PICK a \in Addresses : a = r.addr
  OBVIOUS
<1>3. ~Has(c)
  BY DEF Create, Has
<1>4. CASE inner[a] = 0
  <2>1. PICK new : new = [r EXCEPT !.pc = "again"]
    OBVIOUS
  <2>2. new.pc = "again"
    BY <2>1
  <2>3. PICK m : m = [queue |-> <<>>, val |-> 0]
    OBVIOUS
  <2>4. m \in Mutex /\ m.val = 0
    BY <2>3, MaxChangesAssumption DEF Mutex
  <2>5. /\ call' = [call EXCEPT ![c] = new]
        /\ mutexes' = Append(mutexes, m)
        /\ inner' = [inner EXCEPT ![a] = Len(mutexes) + 1]
    BY <1>1, <1>2, <1>4, <2>1, <2>3, Zenon DEF Create, Becomes
  <2>6. /\ Len(mutexes) \in Nat
        /\ mutexes \in Seq(Mutex)
        /\ inner \in [Addresses -> 0..Len(mutexes)]
    BY LenProperties DEF IInv, TypeOK, Mutex
  <2>7. /\ \A i \in 1..Len(mutexes) : mutexes'[i] = mutexes[i]
        /\ mutexes'[Len(mutexes) + 1] = m
    BY <2>4, <2>5, <2>6, AppendProperties
  <2>8. \A b \in Addresses : inner'[b] = IF b = a THEN Len(mutexes) + 1 ELSE inner[b]
    BY <2>5, <2>6
  <2>9. a \notin Present /\ Present' = Present \cup {a}
    BY <1>4, <2>6, <2>8 DEF Present
  <2>10. UNCHANGED Changes
    <3>1. ASSUME NEW b \in Addresses
          PROVE  ChangesOf(b)' = ChangesOf(b)
      <4>1. inner[b] = 0 \/ inner[b] \in 1..Len(mutexes)
        BY <2>6
      <4> QED
        BY <1>4, <2>4, <2>6, <2>7, <2>8, <4>1 DEF ChangesOf
    <3> QED
      BY <3>1 DEF Changes
  <2>11. UNCHANGED Owners
    BY <1>3, <2>2, <2>5, OwnersKept
  <2> QED
    BY <2>9, <2>10, <2>11 DEF Register!Next, Register!Create
<1>5. CASE inner[a] # 0
  <2>1. call' = [call EXCEPT ![c] = Idle] /\ UNCHANGED <<inner, mutexes>>
    BY <1>1, <1>2, <1>5 DEF Create, Becomes
  <2>2. UNCHANGED Owners
    BY <1>3, <2>1, OwnersKept DEF Idle
  <2> QED
    BY <2>1, <2>2 DEF register, Present, Changes, ChangesOf
<1> QED
  BY <1>4, <1>5

LEMMA AcquireImplements ==
    ASSUME IInv, NEW c \in Callers, Acquire(c)
    PROVE  Register!Next
<1>1. Waits(c)
  BY DEF Acquire
<1>2. PICK a \in Addresses : a = call[c].addr
  BY <1>1, AtItsMutex
<1>3. PICK at \in 1..Len(mutexes) : at = call[c].at /\ at = inner[a]
  BY <1>1, <1>2, AtItsMutex
<1>4. PICK q : q = Tail(mutexes[at].queue)
  OBVIOUS
<1>5. mutexes' = [mutexes EXCEPT ![at].queue = q] /\ UNCHANGED inner
  BY <1>3, <1>4, Zenon DEF Acquire
<1>6. UNCHANGED <<Present, Changes>>
  BY <1>5, QueueKeepsChanges
<1>7. PICK new : new = [pc |-> "guard", addr |-> a, at |-> at, copy |-> mutexes[at].val]
  OBVIOUS
<1>8. call' = [call EXCEPT ![c] = new]
  BY <1>2, <1>3, <1>7 DEF Acquire, Becomes
<1>9. \A d \in Callers : call'[d] = IF d = c THEN new ELSE call[d]
  BY <1>8 DEF IInv, TypeOK
<1>10. new.pc = "guard" /\ new.addr = a
  BY <1>7
\* Whoever has a's record has it at the mutex c waits for.
<1>11. \A d \in Callers : ~ (Has(d) /\ call[d].addr = a)
  BY <1>3, AtItsMutex DEF Acquire
<1>12. Owners[a] = {}
  BY <1>11 DEF Owners, OwnersOf
<1>13. Owners' = [Owners EXCEPT ![a] = {c}]
  <2>1. \A b \in Addresses : OwnersOf(b)' = IF b = a THEN {c} ELSE OwnersOf(b)
    BY <1>1, <1>9, <1>10, <1>11 DEF OwnersOf, Has, Waits
  <2> QED
    BY <2>1 DEF Owners
<1>14. a \in Present
  BY <1>3 DEF Present
<1> QED
  BY <1>6, <1>12, <1>13, <1>14 DEF Register!Next, Register!Take

\* The only call that has a record is its owner.
LEMMA SoleOwner ==
    ASSUME IInv, NEW c \in Callers, Has(c)
    PROVE  call[c].addr \in Addresses /\ Owners[call[c].addr] = {c}
<1>1. call[c].addr \in Addresses
  BY AtItsMutex
<1> QED
  BY <1>1 DEF Owners, OwnersOf, IInv, OneGuard

LEMMA StoreImplements ==
    ASSUME IInv, NEW c \in Callers, Store(c)
    PROVE  Register!Next
<1>1. Has(c)
  BY DEF Store
<1>2. PICK a \in Addresses : a = call[c].addr /\ Owners[a] = {c}
  BY <1>1, SoleOwner
<1>3. PICK at \in 1..Len(mutexes) : at = call[c].at /\ at = inner[a]
  BY <1>1, <1>2, AtItsMutex
<1>4. PICK r : r = call[c]
  OBVIOUS
<1>5. r \in [pc : {"guard"}, addr : Addresses, at : Nat, copy : Nat]
  BY <1>1, <1>4, CallKinds DEF Has, IInv, TypeOK
<1>6. PICK v \in 0..MaxChanges : v = r.copy + 1
  BY <1>4, <1>5, MaxChangesAssumption DEF Store
<1>7. mutexes' = [mutexes EXCEPT ![at].val = v] /\ UNCHANGED inner
  BY <1>3, <1>4, <1>6, Zenon DEF Store
<1>8. mutexes \in Seq(Mutex) /\ inner \in [Addresses -> 0..Len(mutexes)] /\ Len(mutexes) \in Nat
  BY LenProperties DEF IInv, TypeOK, Mutex
<1>9. /\ \A i \in 1..Len(mutexes) : i # at => mutexes'[i] = mutexes[i]
      /\ mutexes'[at].val = v
  BY <1>7, <1>8, ValChange
\* c's copy is the record, and no other address has its mutex.
<1>10. v = ChangesOf(a) + 1
  BY <1>1, <1>3, <1>4, <1>6 DEF IInv, AtMutex, ChangesOf
<1>11. \A b \in Addresses : ChangesOf(b)' = IF b = a THEN v ELSE ChangesOf(b)
  <2>1. ASSUME NEW b \in Addresses, b # a
        PROVE  inner[b] = 0 \/ (inner[b] \in 1..Len(mutexes) /\ inner[b] # at)
    BY <1>3, <1>8, <2>1 DEF IInv, OwnMutex
  <2> QED
    BY <1>3, <1>7, <1>9, <2>1 DEF ChangesOf
<1>12. Changes' = [Changes EXCEPT ![a] = Changes[a] + 1]
  BY <1>10, <1>11 DEF Changes
<1>13. PICK new : new = [r EXCEPT !.copy = v]
  OBVIOUS
<1>14. new.pc = "guard" /\ new.addr = a
  BY <1>2, <1>4, <1>5, <1>13
<1>15. call' = [call EXCEPT ![c] = new]
  BY <1>4, <1>6, <1>13, Zenon DEF Store, Becomes
<1>16. \A d \in Callers : call'[d] = IF d = c THEN new ELSE call[d]
  BY <1>15 DEF IInv, TypeOK
<1>17. UNCHANGED <<Present, Owners>>
  BY <1>1, <1>2, <1>7, <1>14, <1>16 DEF Present, Owners, OwnersOf, Has
<1> QED
  BY <1>2, <1>12, <1>17 DEF Register!Next, Register!Change

LEMMA ReleaseImplements ==
    ASSUME IInv, NEW c \in Callers, Release(c)
    PROVE  Register!Next
<1>1. Has(c)
  BY DEF Release
<1>2. PICK a \in Addresses : a = call[c].addr /\ Owners[a] = {c}
  BY <1>1, SoleOwner
<1>3. \A d \in Callers : call'[d] = IF d = c THEN Idle ELSE call[d]
  BY DEF Release, Becomes, IInv, TypeOK
<1>4. UNCHANGED <<Present, Changes>>
  BY DEF Release, Present, Changes, ChangesOf
<1>5. Owners' = [Owners EXCEPT ![a] = {}]
  <2>1. \A b \in Addresses : OwnersOf(b)' = OwnersOf(b) \ {c}
    BY <1>3 DEF OwnersOf, Has, Idle
  <2>2. \A b \in Addresses : OwnersOf(b)' = IF b = a THEN {} ELSE OwnersOf(b)
    BY <1>2, <2>1 DEF Owners, OwnersOf
  <2> QED
    BY <2>2 DEF Owners
<1> QED
  BY <1>2, <1>4, <1>5 DEF Register!Next, Register!Give

\* Each step is one of the register's, or changes nothing that it sees.
LEMMA RegisterStep ==
    ASSUME IInv, [Next]_vars
    PROVE  [Register!Next]_register
<1>1. ASSUME NEW c \in Callers, NEW a \in Addresses, NEW makes \in BOOLEAN,
             Call(c, a, makes)
      PROVE  UNCHANGED register
  BY <1>1, CallStutters
<1>2. ASSUME NEW c \in Callers, LookUp(c)
      PROVE  Register!Next \/ UNCHANGED register
  BY <1>2, FoundStutters, NotFoundStutters, CreateImplements DEF LookUp
<1>3. ASSUME NEW c \in Callers, Acquire(c) \/ Store(c) \/ Release(c) \/ Drop(c)
      PROVE  Register!Next \/ UNCHANGED register
  BY <1>3, AcquireImplements, StoreImplements, ReleaseImplements, DropStutters
<1>4. CASE UNCHANGED vars
  BY <1>4
     DEF vars, register, Present, Changes, ChangesOf, Owners, OwnersOf, Has
<1> QED
  BY <1>1, <1>2, <1>3, <1>4 DEF Next

(* However lookups, first contacts, drops and changes interleave           *)
(* (storage.rs:25-57), each address has one record, that one call at a     *)
(* time has and no call changes from a clone that is out of date.          *)
THEOREM StorageImplementsRegisterHolds == Spec => StorageImplementsRegister
<1>1. Init => Register!Init
  BY RegisterInit
<1>2. IInv /\ [Next]_vars => [Register!Next]_<<Present, Changes, Owners>>
  BY RegisterStep DEF register
<1> QED
  BY <1>1, <1>2, IInvCorrect, PTL
     DEF Spec, StorageImplementsRegister, Register!Spec, Register!vars
=============================================================================
