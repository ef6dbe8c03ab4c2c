--------------------------- MODULE MCConnections ---------------------------
(***************************************************************************)
(* Instances of Connections for TLC.                                       *)
(***************************************************************************)
EXTENDS Connections, TLC

CONSTANTS c1, c2, a1, a2

Addrs == {c1 :> a1 @@ c2 :> a2, c1 :> a1 @@ c2 :> a1}
Sayings == c1 :> {"right", "request", "badlength"} @@ c2 :> {"right", "wrong", "request"}
Sends == c1 :> 2 @@ c2 :> 4
=============================================================================
