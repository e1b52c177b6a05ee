----------------------------- MODULE MCStorage -----------------------------
(* A small instance of Storage for TLC: three calls and two peers.         *)
EXTENDS Storage
=============================================================================
