-------------------------- MODULE Settlement_proofs --------------------------
(***************************************************************************)
(* Two nodes that follow Settlement never divide different amounts of      *)
(* money, and nobody pays for a deal the other has asked for.              *)
(***************************************************************************)
EXTENDS Settlement, TLAPS

\* The two nodes are each other's peers.
LEMMA Pair ==
    \A n \in Node : Peer(n) \in Node /\ Peer(n) # n /\ Peer(Peer(n)) = n /\ Node = {n, Peer(n)}
BY DEF Node, Peer

TypeOK ==
    /\ stage \in [Node -> Stages]
    /\ deal \in [Node -> Deals]
    /\ bal \in [Node -> Balances]

\* What p has signed starts from what it has.  Once it is settled p's peer
\* waits for it, or it changes nothing.
SignedOK(p) ==
    stage[p] = "agreed" =>
        /\ deal[p].old = bal[p]
        /\ deal[p].new[p] = bal[p][p]
        /\ \/ deal[p] \notin settled
           \/ deal[p].new = deal[p].old
           \/ stage[Peer(p)] = "waiting" /\ deal[Peer(p)] = deal[p]

\* The peer of a node that waits has signed the same deal, or adopted it; a
\* deal it has signed since is another one.
WaitingOK(n) ==
    stage[n] = "waiting" =>
        LET p == Peer(n)
        IN  \/ stage[p] = "agreed" /\ deal[p] = deal[n]
            \/ /\ stage[p] \in {"open", "agreed"}
               /\ deal[n] \in settled
               /\ Total(bal[p]) = Total(deal[n].new)

SettlementInv ==
    /\ TypeOK
    /\ \A n \in Node : SignedOK(n) /\ WaitingOK(n)
    /\ SameMoney

----------------------------------------------------------------------------

\* Nobody has a deal, and both divide alike.
LEMMA InvInit == Init => SettlementInv
<1> SUFFICES ASSUME Init
             PROVE  SettlementInv
  OBVIOUS
<1>1. Nothing \in Balances /\ NoDeal \in Deals
  BY DEF Nothing, NoDeal, Balances, Deals
<1>2. bal \in [Node -> Balances] /\ bal[0] = bal[1]
  BY <1>1 DEF Init, Node
<1>3. \A n \in Node : stage[n] \in {"closed", "open"} /\ stage \in [Node -> Stages]
  BY DEF Init, Stages
<1>4. TypeOK
  BY <1>1, <1>2, <1>3 DEF TypeOK, Init
<1> QED
  BY <1>2, <1>3, <1>4 DEF SettlementInv, SignedOK, WaitingOK, SameMoney

\* What a step has of both nodes.
LEMMA Both ==
    ASSUME SettlementInv, NEW n \in Node
    PROVE  /\ Peer(n) \in Node /\ Peer(n) # n /\ Peer(Peer(n)) = n /\ Node = {n, Peer(n)}
           /\ stage \in [Node -> Stages] /\ deal \in [Node -> Deals] /\ bal \in [Node -> Balances]
           /\ SignedOK(n) /\ SignedOK(Peer(n)) /\ WaitingOK(n) /\ WaitingOK(Peer(n))
           /\ stage[n] # "waiting" /\ stage[Peer(n)] # "waiting" =>
                  Total(bal[n]) = Total(bal[Peer(n)])
<1>1. Peer(n) \in Node /\ Peer(n) # n /\ Peer(Peer(n)) = n /\ Node = {n, Peer(n)}
  BY Pair
<1>2. /\ TypeOK /\ SignedOK(n) /\ SignedOK(Peer(n)) /\ WaitingOK(n) /\ WaitingOK(Peer(n))
  BY <1>1 DEF SettlementInv
<1>3. stage[n] # "waiting" /\ stage[Peer(n)] # "waiting" => Total(bal[0]) = Total(bal[1])
  BY <1>1 DEF SettlementInv, SameMoney
<1>4. {n, Peer(n)} = {0, 1}
  BY <1>1 DEF Node
<1> QED
  BY <1>1, <1>2, <1>3, <1>4 DEF TypeOK

\* The invariant in terms of a node and its peer.
LEMMA FromBoth ==
    ASSUME NEW n \in Node, TypeOK', SignedOK(n)', SignedOK(Peer(n))', WaitingOK(n)',
           WaitingOK(Peer(n))',
           stage'[n] # "waiting" /\ stage'[Peer(n)] # "waiting" =>
               Total(bal'[n]) = Total(bal'[Peer(n)])
    PROVE  SettlementInv'
<1>1. Peer(n) \in Node /\ Node = {n, Peer(n)} /\ {n, Peer(n)} = {0, 1}
  BY Pair DEF Node
<1>2. SameMoney'
  BY <1>1 DEF SameMoney
<1> QED
  BY <1>1, <1>2 DEF SettlementInv

\* A payment leaves the amount as it was; who has signed does not pay.
LEMMA MoveInv ==
    ASSUME SettlementInv, NEW n \in Node, Move(n)
    PROVE  SettlementInv'
<1> DEFINE p == Peer(n)
<1>1. /\ bal'[p] = bal[p] /\ Total(bal'[n]) = Total(bal[n]) /\ TypeOK'
      /\ UNCHANGED <<stage, deal, settled>> /\ stage[n] = "open"
  BY Both DEF Move, TypeOK
<1>2. SignedOK(n)' /\ SignedOK(p)' /\ WaitingOK(n)' /\ WaitingOK(p)'
  BY <1>1, Both DEF SignedOK, WaitingOK
<1> QED
  BY <1>1, <1>2, Both, FromBoth

\* What is signed is not settled yet, or changes nothing.
LEMMA AgreeInv ==
    ASSUME SettlementInv, NEW p \in Node, Agree(p)
    PROVE  SettlementInv'
<1> DEFINE n == Peer(p)
           d == deal'[p]
<1>1. /\ stage[p] \in {"closed", "open"} /\ stage'[p] = "agreed" /\ stage'[n] = stage[n]
      /\ d \in Deals /\ d.old = bal[p] /\ d.new[p] = bal[p][p]
      /\ d \notin settled \/ d.new = d.old
      /\ deal'[n] = deal[n] /\ UNCHANGED <<bal, settled>> /\ TypeOK'
  <2>1. stage' \in [Node -> Stages]
    BY Both DEF Agree, Stages
  <2> QED
    BY <2>1, Both DEF Agree, TypeOK
<1>2. SignedOK(p)' /\ SignedOK(n)'
  BY <1>1, Both DEF SignedOK
<1>3. WaitingOK(p)' /\ WaitingOK(n)'
  BY <1>1, Both DEF WaitingOK
<1> QED
  BY <1>1, <1>2, <1>3, Both, FromBoth

\* The deal taken up is the one the peer has signed.
LEMMA StartInv ==
    ASSUME SettlementInv, NEW n \in Node, Start(n)
    PROVE  SettlementInv'
<1> DEFINE p == Peer(n)
<1>1. /\ stage'[n] = "waiting" /\ stage'[p] = "agreed" /\ stage[p] = "agreed"
      /\ stage[n] \in {"closed", "open"}
      /\ deal'[n] = deal[p] /\ deal'[p] = deal[p] /\ UNCHANGED <<bal, settled>> /\ TypeOK'
  <2>1. stage' \in [Node -> Stages]
    BY Both DEF Start, Stages
  <2> QED
    BY <2>1, Both DEF Start, TypeOK
<1> QED
  BY <1>1, Both, FromBoth DEF SignedOK, WaitingOK

\* Who has signed the deal that is settled is the peer of who waits for it.
LEMMA SettleInv ==
    ASSUME SettlementInv, NEW n \in Node, Settle(n)
    PROVE  SettlementInv'
<1> DEFINE p == Peer(n)
<1>1. /\ stage[n] = "waiting" /\ settled' = settled \cup {deal[n]}
      /\ UNCHANGED <<stage, deal, bal>> /\ TypeOK'
  BY Both DEF Settle, TypeOK
<1>2. SignedOK(n)' /\ SignedOK(p)' /\ WaitingOK(n)' /\ WaitingOK(p)'
  BY <1>1, Both DEF SignedOK, WaitingOK
<1> QED
  BY <1>1, <1>2, Both, FromBoth

\* Who was asked adopts the deal its peer waits for, or one that changes
\* nothing.
LEMMA LearnInv ==
    ASSUME SettlementInv, NEW p \in Node, Learn(p)
    PROVE  SettlementInv' /\ bal'[p][p] = bal[p][p]
<1> DEFINE n == Peer(p)
<1>1. /\ stage[p] = "agreed" /\ deal[p] \in settled
      /\ stage'[p] = "open" /\ stage'[n] = stage[n] /\ bal'[p] = deal[p].new /\ bal'[n] = bal[n]
      /\ deal'[n] = deal[n] /\ UNCHANGED settled /\ TypeOK'
  <2>1. NoDeal \in Deals
    BY DEF Nothing, NoDeal, Balances, Deals
  <2>2. stage' \in [Node -> Stages] /\ deal[p].new \in Balances
    BY Both DEF Learn, Opened, Stages, Deals
  <2> QED
    BY <2>1, <2>2, Both DEF Learn, Opened, TypeOK
<1>2. \/ bal'[p] = bal[p]
      \/ stage[n] = "waiting" /\ deal[n] = deal[p]
  BY <1>1, Both DEF SignedOK
<1>3. SignedOK(n)' /\ SignedOK(p)'
  BY <1>1, Both DEF SignedOK
<1>4. WaitingOK(n)' /\ WaitingOK(p)'
  BY <1>1, <1>2, Both DEF WaitingOK, SignedOK
<1>5. bal'[p][p] = bal[p][p]
  BY <1>1, Both DEF SignedOK
<1> QED
  BY <1>1, <1>2, <1>3, <1>4, <1>5, Both, FromBoth

\* The one that asked opens with its peer's balances.
LEMMA FinishInv ==
    ASSUME SettlementInv, NEW n \in Node, Finish(n)
    PROVE  SettlementInv'
<1> DEFINE p == Peer(n)
<1>1. /\ stage[n] = "waiting" /\ stage[p] = "open" /\ bal[p] = deal[n].new
      /\ stage'[n] = "open" /\ stage'[p] = "open" /\ bal'[n] = deal[n].new /\ bal'[p] = bal[p]
      /\ deal'[p] = deal[p] /\ UNCHANGED settled /\ TypeOK'
  <2>1. NoDeal \in Deals
    BY DEF Nothing, NoDeal, Balances, Deals
  <2>2. stage' \in [Node -> Stages] /\ deal[n].new \in Balances
    BY Both DEF Finish, Opened, Stages, Deals
  <2> QED
    BY <2>1, <2>2, Both DEF Finish, Opened, TypeOK
<1> QED
  BY <1>1, Both, FromBoth DEF SignedOK, WaitingOK

\* Every step keeps the invariant.
LEMMA InvNext ==
    ASSUME SettlementInv, [Next]_vars
    PROVE  SettlementInv'
<1>1. CASE UNCHANGED vars
  BY <1>1 DEF vars, SettlementInv, TypeOK, SignedOK, WaitingOK, SameMoney
<1> QED
  BY <1>1, MoveInv, AgreeInv, StartInv, SettleInv, LearnInv, FinishInv DEF Next

(* The inductive invariant: of a deal under way both nodes have the same,  *)
(* signed or adopted, and it is settled only while one waits for it.       *)
THEOREM SettlementInvCorrect == Spec => []SettlementInv
<1>1. Init => SettlementInv
  BY InvInit
<1>2. SettlementInv /\ [Next]_vars => SettlementInv'
  BY InvNext
<1> QED
  BY <1>1, <1>2, PTL DEF Spec

(* Unless a deal is under way both nodes divide the same amount of money.  *)
THEOREM SameMoneyHolds == Spec => []SameMoney
<1>1. SettlementInv => SameMoney
  BY DEF SettlementInv
<1> QED
  BY <1>1, SettlementInvCorrect, PTL

(* A deal leaves the share of the node that is asked as it was when it     *)
(* signed.                                                                 *)
THEOREM AskedKeepsShareHolds == Spec => AskedKeepsShare
<1>1. ASSUME SettlementInv, Next, NEW p \in Node, stage[p] = "agreed"
      PROVE  bal'[p][p] = bal[p][p]
  <2> DEFINE n == Peer(p)
  <2>1. CASE Move(p) \/ Finish(p)
    BY <1>1, <2>1 DEF Move, Finish
  <2>2. CASE Learn(p)
    BY <1>1, <2>2, LearnInv
  <2>3. CASE Move(n) \/ Learn(n) \/ Finish(n)
    BY <1>1, <2>3, Both DEF Move, Learn, Finish, Opened
  <2>4. CASE \E m \in Node : Agree(m) \/ Start(m) \/ Settle(m)
    BY <1>1, <2>4 DEF Agree, Start, Settle
  <2> QED
    BY <1>1, <2>1, <2>2, <2>3, <2>4, Pair DEF Next
<1>2. SettlementInv /\ [Next]_vars => [ShareKept]_vars
  BY <1>1 DEF ShareKept
<1> QED
  BY <1>2, SettlementInvCorrect, PTL DEF Spec, AskedKeepsShare
=============================================================================
