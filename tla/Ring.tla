--------------------------------- MODULE Ring ---------------------------------
(***************************************************************************)
(* The hash ring: src/internal/helper/consistent_hash.go.  A ring is       *)
(* nodeMap, a function from the hashes of its nodes to the nodes; its      *)
(* domain stands for the sorted slice nodes.  Two nodes with one hash do   *)
(* not occur: crc32 tells the short decimal names of shards apart.         *)
(***************************************************************************)
EXTENDS Naturals

NoNode == "none"

NewConsistentHash == [h \in {} |-> NoNode]

AddNode(ring, hash, node) ==
    [h \in DOMAIN ring \cup {hash} |-> IF h = hash THEN node ELSE ring[h]]

RemoveNode(ring, hash) == [h \in DOMAIN ring \ {hash} |-> ring[h]]

Least(hashes) == CHOOSE h \in hashes : \A g \in hashes : h <= g

(* The first node whose hash is not less, the first of all when none is.   *)
GetNode(ring, hash) ==
    LET above == {h \in DOMAIN ring : h >= hash}
    IN IF DOMAIN ring = {} THEN NoNode
       ELSE ring[Least(IF above = {} THEN DOMAIN ring ELSE above)]

=============================================================================
