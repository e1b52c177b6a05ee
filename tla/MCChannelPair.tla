--------------------------- MODULE MCChannelPair ---------------------------
(* A small instance of ChannelPair for TLC.                                *)
EXTENDS ChannelPair

MCInitBal == [n \in Node |-> 3]
MCAmounts == {0, 1, 2}
=============================================================================
