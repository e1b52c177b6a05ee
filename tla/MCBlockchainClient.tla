------------------------- MODULE MCBlockchainClient -------------------------
(* A small instance of BlockchainClient for TLC: three calls, all faults.  *)
EXTENDS BlockchainClient
=============================================================================
