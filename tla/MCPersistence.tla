--------------------------- MODULE MCPersistence ---------------------------
(***************************************************************************)
(* Instances of Persistence for TLC.                                       *)
(***************************************************************************)
EXTENDS Persistence, TLC

CONSTANTS c1, c2, k1, k2, s1, s2, x

TwoShards == k1 :> s1 @@ k2 :> s2

OwnKeys == c1 :> {k1} @@ c2 :> {k2}

(* Each client with its key and its shard.                                 *)
Exchange == {c1 :> c2 @@ c2 :> c1 @@ k1 :> k2 @@ k2 :> k1 @@ s1 :> s2 @@ s2 :> s1}
=============================================================================
