---------------------- MODULE BlockchainClient_proofs ----------------------
(***************************************************************************)
(* One account's transactions are always next in line, and the client does *)
(* what Guac takes it to do, for any number of calls and whatever fails.   *)
(***************************************************************************)
EXTENDS BlockchainClient, TLAPS

\* The start.
LEMMA TypeInit == Init => TypeOK
BY DEF Init, TypeOK, Statuses

\* Each action keeps the types; a call that begins has no filter yet (Progress).
LEMMA TypeStep ==
    ASSUME TypeOK, \A c \in Calls : Progress(c), [Next]_vars
    PROVE  TypeOK'
<1> USE DEF TypeOK, Statuses, node, client, Running, OnItsWay, Becomes, Sends,
            Awaits
<1>1. ASSUME NEW c \in Calls, Settle(c)
      PROVE  TypeOK'
  BY <1>1 DEF Settle, Progress
<1>2. ASSUME NEW c \in Calls, QuickDeposit(c)
      PROVE  TypeOK'
  BY <1>2 DEF QuickDeposit
<1>3. ASSUME NEW c \in Calls, Return(c)
      PROVE  TypeOK'
  BY <1>3 DEF Return
<1>4. ASSUME NEW c \in Calls, RpcFails(c)
      PROVE  TypeOK'
  BY <1>4 DEF RpcFails
<1>5. ASSUME NEW c \in Calls, CountRead(c)
      PROVE  TypeOK'
  BY <1>5 DEF CountRead
<1>6. ASSUME NEW c \in Calls, SendRaw(c)
      PROVE  TypeOK'
  BY <1>6 DEF SendRaw
<1>7. ASSUME NEW c \in Calls, SendRefused(c)
      PROVE  TypeOK'
  BY <1>7 DEF SendRefused
<1>8. ASSUME NEW c \in Calls, InstallFilter(c)
      PROVE  TypeOK'
  BY <1>8 DEF InstallFilter
<1>9. ASSUME NEW c \in Calls, Poll(c)
      PROVE  TypeOK'
  BY <1>9 DEF Poll
<1>10. ASSUME NEW c \in Calls, UninstallFilter(c)
       PROVE  TypeOK'
  BY <1>10 DEF UninstallFilter
<1>11. ASSUME NEW c \in Calls, Mine(c)
       PROVE  TypeOK'
  BY <1>11 DEF Mine
<1>12. CASE UNCHANGED vars
  BY <1>12 DEF vars
<1> QED
  BY <1>1, <1>2, <1>3, <1>4, <1>5, <1>6, <1>7, <1>8, <1>9, <1>10, <1>11, <1>12
     DEF Next, Client

\* The start.
LEMMA IInvInit == Init => IInv
BY TypeInit DEF Init, IInv, Progress, NextInLine, OnePending

\* Only SendRaw and Mine change the pool, and Mine the count that calls have read.
LEMMA IInvStep ==
    ASSUME IInv, [Next]_vars
    PROVE  IInv'
<1>0. TypeOK' /\ TypeOK
  BY TypeStep DEF IInv
<1> USE DEF TypeOK, IInv, Progress, NextInLine, OnePending, Statuses, node,
            client, Running, OnItsWay, Becomes, Sends, Awaits
<1>1. ASSUME NEW c \in Calls, Settle(c)
      PROVE  IInv'
  BY <1>0, <1>1 DEF Settle
<1>2. ASSUME NEW c \in Calls, QuickDeposit(c)
      PROVE  IInv'
  BY <1>0, <1>2 DEF QuickDeposit
<1>3. ASSUME NEW c \in Calls, Return(c)
      PROVE  IInv'
  BY <1>0, <1>3 DEF Return
<1>4. ASSUME NEW c \in Calls, RpcFails(c)
      PROVE  IInv'
  BY <1>0, <1>4 DEF RpcFails
<1>5. ASSUME NEW c \in Calls, CountRead(c)
      PROVE  IInv'
  BY <1>0, <1>5 DEF CountRead
<1>6. ASSUME NEW c \in Calls, SendRaw(c)
      PROVE  IInv'
  \* c has read no more than the count, so its rivals are all that is pending.
  <2>1. nonce[c] = count /\ pool' = {c}
    BY <1>6 DEF SendRaw, Rivals
  <2> QED
    BY <1>0, <1>6, <2>1 DEF SendRaw
<1>7. ASSUME NEW c \in Calls, SendRefused(c)
      PROVE  IInv'
  BY <1>0, <1>7 DEF SendRefused
<1>8. ASSUME NEW c \in Calls, InstallFilter(c)
      PROVE  IInv'
  BY <1>0, <1>8 DEF InstallFilter
<1>9. ASSUME NEW c \in Calls, Poll(c)
      PROVE  IInv'
  BY <1>0, <1>9 DEF Poll
<1>10. ASSUME NEW c \in Calls, UninstallFilter(c)
       PROVE  IInv'
  BY <1>0, <1>10 DEF UninstallFilter
<1>11. ASSUME NEW c \in Calls, Mine(c)
       PROVE  IInv'
  BY <1>0, <1>11 DEF Mine
<1>12. CASE UNCHANGED vars
  BY <1>12 DEF vars
<1> QED
  BY <1>1, <1>2, <1>3, <1>4, <1>5, <1>6, <1>7, <1>8, <1>9, <1>10, <1>11, <1>12
     DEF Next, Client

(* The inductive invariant: what the full node knows of a call, what the   *)
(* call has read, and that at most one transaction is pending.             *)
THEOREM IInvCorrect == Spec => []IInv
<1>1. Init => IInv
  BY IInvInit
<1>2. IInv /\ [Next]_vars => IInv'
  BY IInvStep
<1> QED
  BY <1>1, <1>2, PTL DEF Spec

(* The filters on the full node are those of branches that poll, whatever  *)
(* requests have failed (blockchain_client.rs:102-119).                    *)
THEOREM TypeCorrect == Spec => []TypeOK
<1>1. IInv => TypeOK
  BY DEF IInv
<1> QED
  BY <1>1, IInvCorrect, PTL

(* However many calls race for one count, every pending transaction is the *)
(* next one the chain can take (blockchain_client.rs:131-150).             *)
THEOREM NextInLineHolds == Spec => []NextInLine
<1>1. IInv => NextInLine
  BY DEF IInv
<1> QED
  BY <1>1, IInvCorrect, PTL

----------------------------------------------------------------------------
(* The refinement: each step is one step of BlockchainApi or none.         *)

LEMMA ApiInit == Init => Api!Init
BY DEF Init, Api!Init, ApiStage, StageOf, ApiPool, ApiMined, Settlements, Running

(* Nothing but c's own stage changes, and it becomes what StageOf says.    *)
LEMMA OneStage ==
    ASSUME NEW c \in Calls, NEW s,
           \A d \in Calls : StageOf(d)' = IF d = c THEN s ELSE StageOf(d)
    PROVE  ApiStage' = [ApiStage EXCEPT ![c] = s]
BY DEF ApiStage

\* Sends, refusals, mining and the two ends of a wait show; the rest stutters.
LEMMA ApiStep ==
    ASSUME IInv, [Next]_vars
    PROVE  [Api!Next]_<<ApiStage, ApiPool, ApiMined>>
<1> USE DEF IInv, TypeOK, Statuses, Progress, Running, OnItsWay, Becomes, Sends, Awaits, client, node
<1> DEFINE api == <<ApiStage, ApiPool, ApiMined>>
<1>1. ASSUME NEW c \in Calls, Settle(c)
      PROVE  Api!Next
  <2>1. ApiStage[c] = "idle"
    BY <1>1 DEF Settle, ApiStage, StageOf, Settlements
  <2>2. ApiStage' = [ApiStage EXCEPT ![c] = "send"]
    <3>1. \A d \in Calls : StageOf(d)' = IF d = c THEN "send" ELSE StageOf(d)
      BY <1>1 DEF Settle, StageOf, Settlements, Sent
    <3> QED
      BY <3>1, OneStage
  <2>3. UNCHANGED <<ApiPool, ApiMined>>
    BY <1>1 DEF Settle, ApiPool, ApiMined, Settlements, Sent
  <2> QED
    BY <2>1, <2>2, <2>3 DEF Api!Next, Api!Start, Api!Becomes
<1>2. ASSUME NEW c \in Calls, QuickDeposit(c)
      PROVE  UNCHANGED api
  BY <1>2 DEF QuickDeposit, ApiStage, StageOf, ApiPool, ApiMined, Settlements, Sent
<1>3. ASSUME NEW c \in Calls, Return(c)
      PROVE  Api!Next \/ UNCHANGED api
  <2>1. UNCHANGED <<ApiPool, ApiMined>>
    BY <1>3 DEF Return, ApiPool, ApiMined, Settlements, Sent
  <2>2. CASE c \in Settlements
    <3>1. ApiStage[c] = "event" /\ c \in ApiMined
      BY <1>3, <2>2 DEF Return, ApiStage, StageOf, ApiMined, Settlements, Sent
    <3>2. ApiStage' = [ApiStage EXCEPT ![c] = "ok"]
      <4>1. \A d \in Calls : StageOf(d)' = IF d = c THEN "ok" ELSE StageOf(d)
        BY <1>3, <2>2 DEF Return, StageOf, Settlements, Sent
      <4> QED
        BY <4>1, OneStage
    <3> QED
      BY <2>1, <3>1, <3>2 DEF Api!Next, Api!EventSeen, Api!Becomes
  <2>3. CASE c \notin Settlements
    BY <1>3, <2>1, <2>3 DEF Return, ApiStage, StageOf, Settlements, Sent
  <2> QED
    BY <2>2, <2>3
<1>4. ASSUME NEW c \in Calls, RpcFails(c)
      PROVE  Api!Next \/ UNCHANGED api
  <2>1. CASE c \in Settlements
    <3>1. ApiStage' = [ApiStage EXCEPT ![c] = "failed"]
      <4>1. \A d \in Calls :
               StageOf(d)' = IF d = c THEN "failed" ELSE StageOf(d)
        BY <1>4, <2>1 DEF RpcFails, StageOf, Settlements, Sent
      <4> QED
        BY <4>1, OneStage
    <3>2. UNCHANGED ApiMined
      BY <1>4 DEF RpcFails, ApiMined, Settlements
    <3>3. CASE Sent(c)
      <4>1. ApiStage[c] = "event" /\ UNCHANGED ApiPool
        BY <1>4, <2>1, <3>3
           DEF RpcFails, ApiStage, StageOf, ApiPool, Settlements, Sent
      <4> QED
        BY <3>1, <3>2, <4>1 DEF Api!Next, Api!EventFails, Api!Becomes
    \* A transaction on its way may still be sent.
    <3>4. CASE ~Sent(c)
      <4>1. ApiStage[c] = "send" /\ ApiPool' \in {ApiPool, ApiPool \cup {c}}
        BY <1>4, <2>1, <3>4
           DEF RpcFails, ApiStage, StageOf, ApiPool, Settlements, Sent
      <4> QED
        BY <3>1, <3>2, <4>1 DEF Api!Next, Api!SendFails, Api!Becomes
    <3> QED
      BY <3>3, <3>4
  <2>2. CASE c \notin Settlements
    BY <1>4, <2>2
       DEF RpcFails, ApiStage, StageOf, ApiPool, ApiMined, Settlements, Sent
  <2> QED
    BY <2>1, <2>2
<1>5. ASSUME NEW c \in Calls, CountRead(c)
      PROVE  UNCHANGED api
  BY <1>5 DEF CountRead, ApiStage, StageOf, ApiPool, ApiMined, Settlements, Sent
<1>6. ASSUME NEW c \in Calls, SendRaw(c)
      PROVE  Api!Next \/ UNCHANGED api
  <2>1. UNCHANGED ApiMined
    BY <1>6 DEF SendRaw, ApiMined, Settlements
  <2>2. CASE c \in Settlements /\ Running(c)
    <3>1. ApiStage[c] = "send"
      BY <1>6, <2>2 DEF SendRaw, ApiStage, StageOf, Settlements, Sent
    <3>2. ApiStage' = [ApiStage EXCEPT ![c] = "event"]
      <4>1. \A d \in Calls : StageOf(d)' = IF d = c THEN "event" ELSE StageOf(d)
        BY <1>6, <2>2 DEF SendRaw, StageOf, Settlements, Sent
      <4> QED
        BY <4>1, OneStage
    <3>3. ApiPool' = ApiPool \cup {c}
      BY <1>6, <2>2 DEF SendRaw, ApiPool, Settlements, Sent
    <3> QED
      BY <2>1, <3>1, <3>2, <3>3 DEF Api!Next, Api!SendTransaction, Api!Becomes
  <2>3. CASE ~(c \in Settlements /\ Running(c))
    BY <1>6, <2>1, <2>3 DEF SendRaw, ApiStage, StageOf, ApiPool, Settlements, Sent
  <2> QED
    BY <2>2, <2>3
<1>7. ASSUME NEW c \in Calls, SendRefused(c)
      PROVE  Api!Next \/ UNCHANGED api
  <2>1. UNCHANGED ApiMined
    BY <1>7 DEF SendRefused, ApiMined, Settlements
  <2>2. CASE c \in Settlements /\ Running(c)
    <3>1. ApiStage[c] = "send"
      BY <1>7, <2>2 DEF SendRefused, ApiStage, StageOf, Settlements, Sent
    <3>2. ApiStage' = [ApiStage EXCEPT ![c] = "failed"]
      <4>1. \A d \in Calls :
               StageOf(d)' = IF d = c THEN "failed" ELSE StageOf(d)
        BY <1>7, <2>2 DEF SendRefused, StageOf, Settlements, Sent
      <4> QED
        BY <4>1, OneStage
    \* For Guac it may still be mined.
    <3>3. ApiPool' = ApiPool \cup {c}
      BY <1>7, <2>2 DEF SendRefused, ApiPool, Settlements, Sent
    <3> QED
      BY <2>1, <3>1, <3>2, <3>3 DEF Api!Next, Api!SendFails, Api!Becomes
  <2>3. CASE ~(c \in Settlements /\ Running(c))
    BY <1>7, <2>1, <2>3
       DEF SendRefused, ApiStage, StageOf, ApiPool, Settlements, Sent
  <2> QED
    BY <2>2, <2>3
<1>8. ASSUME NEW c \in Calls, InstallFilter(c)
      PROVE  UNCHANGED api
  BY <1>8 DEF InstallFilter, ApiStage, StageOf, ApiPool, ApiMined, Settlements, Sent
<1>9. ASSUME NEW c \in Calls, Poll(c)
      PROVE  UNCHANGED api
  BY <1>9 DEF Poll, ApiStage, StageOf, ApiPool, ApiMined, Settlements, Sent
<1>10. ASSUME NEW c \in Calls, UninstallFilter(c)
       PROVE  UNCHANGED api
  BY <1>10
     DEF UninstallFilter, ApiStage, StageOf, ApiPool, ApiMined, Settlements, Sent
<1>11. ASSUME NEW c \in Calls, Mine(c)
       PROVE  Api!Next \/ UNCHANGED api
  <2>1. UNCHANGED ApiStage
    BY <1>11 DEF Mine, ApiStage, StageOf, Settlements, Sent
  <2>2. CASE c \in Settlements /\ c \in mined'
    <3>1. c \in ApiPool
      BY <1>11, <2>2 DEF Mine, ApiPool, Settlements, Sent
    <3>2. ApiPool' = ApiPool \ {c} /\ ApiMined' = ApiMined \cup {c}
      BY <1>11, <2>2 DEF Mine, ApiPool, ApiMined, Settlements, Sent
    <3> QED
      BY <2>1, <3>1, <3>2 DEF Api!Next, Api!Mine
  <2>3. CASE ~(c \in Settlements /\ c \in mined')
    BY <1>11, <2>1, <2>3 DEF Mine, ApiPool, ApiMined, Settlements, Sent
  <2> QED
    BY <2>2, <2>3
<1>12. CASE UNCHANGED vars
  BY <1>12
     DEF vars, ApiStage, StageOf, ApiPool, ApiMined, Settlements, Sent
<1> QED
  BY <1>1, <1>2, <1>3, <1>4, <1>5, <1>6, <1>7, <1>8, <1>9, <1>10, <1>11, <1>12
     DEF Next, Client

(* The client does what Guac takes it to do, for any number of calls on    *)
(* one account, whatever fails and in any order: a settlement that ends    *)
(* well has been mined (blockchain_client.rs:182-311).                     *)
THEOREM ImplementsApiHolds == Spec => ImplementsApi
<1>1. Init => Api!Init
  BY ApiInit
<1>2. IInv /\ [Next]_vars => [Api!Next]_<<ApiStage, ApiPool, ApiMined>>
  BY ApiStep
<1> QED
  BY <1>1, <1>2, IInvCorrect, PTL DEF Spec, ImplementsApi, Api!Spec, Api!vars
=============================================================================
