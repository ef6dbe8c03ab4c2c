------------------------------ MODULE MCMemory ------------------------------
(***************************************************************************)
(* Instances of Memory for TLC.                                            *)
(***************************************************************************)
EXTENDS Memory, TLC

CONSTANTS t1, t2, k1, k2, o1, o2, o3

(* Two connections that share no key, and two that share every key.        *)
OwnKeys == t1 :> {k1} @@ t2 :> {k2}
SharedKeys == [t \in Threads |-> Keys]
=============================================================================
