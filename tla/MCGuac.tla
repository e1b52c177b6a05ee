------------------------------- MODULE MCGuac -------------------------------
(* Small instances of Guac for TLC: who calls how often, and what fails.   *)
EXTENDS GuacSettlement, GuacInvariant

None == {}
One == {1}
OneTwo == {1, 2}
TwoTwo == [n \in Node |-> 2]

\* Calls of node 0's user and of node 1's.
MaxCalls(a, b) == [n \in Node |-> IF n = 0 THEN a ELSE b]
OneZero == MaxCalls(1, 0)
ThreeZero == MaxCalls(3, 0)
FourZero == MaxCalls(4, 0)
OneOne == MaxCalls(1, 1)
TwoTwoOps == MaxCalls(2, 2)
ThreeTwo == MaxCalls(3, 2)
TimeoutsOnly == {"timeout"}
LateOnly == {"late"}
ThreeThree == MaxCalls(3, 3)

(* Two proposals that cross: no call times out while any handler can run   *)
(* or any answer be taken, so its request has waited for the peer's mutex  *)
(* all the time; unless the peer's call, made at the same moment, has just *)
(* timed out itself, and no handler has run in between.                    *)
NothingElse == \A n \in Node : ~ENABLED Serve(n) /\ ~ENABLED Continue(n)
LeftBehind(n) == \E r \in net : r.from = n /\ ~r.live
TimesOutCrossing(n) ==
    /\ Timeout(n)
    /\ NothingElse \/ (LeftBehind(Peer(n)) /\ call[n].reply = NoReply)

NextCrossing ==
    \E n \in Node :
        UserCall(n) \/ Serve(n) \/ Continue(n) \/ TimesOutCrossing(n)

SpecCrossing == Init /\ [][NextCrossing]_vars
=============================================================================
