----------------------------- MODULE MCWalShard -----------------------------
(***************************************************************************)
(* Instances of WalShard for TLC.                                          *)
(***************************************************************************)
EXTENDS WalShard

CONSTANTS p1, p2
=============================================================================
