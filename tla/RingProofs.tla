------------------------------ MODULE RingProofs ------------------------------
(***************************************************************************)
(* Proofs about the ring, for any nodes and any hashes.                    *)
(***************************************************************************)
EXTENDS Ring, TLAPS, NaturalsInduction, WellFoundedInduction

(* A set of hashes has a least one.                                        *)
LEMMA LeastExists ==
    ASSUME NEW hashes \in SUBSET Nat, hashes # {}
    PROVE  Least(hashes) \in hashes /\ \A g \in hashes : Least(hashes) <= g
<1> DEFINE R == {ss \in Nat \X Nat : ss[1] < ss[2]}
<1>1. OpToRel(<, Nat) = R
  BY Zenon DEF OpToRel
<1>2. IsWellFoundedOn(R, Nat)
  BY <1>1, NatLessThanWellFounded, Zenon
<1> HIDE DEF R
<1>3. PICK h \in hashes : \A g \in hashes : ~ (<<g, h>> \in R)
  BY <1>2, WFMin
<1>4. ASSUME NEW g \in hashes PROVE h <= g
  <2> DEFINE p == <<g, h>>
  <2>1. p \in Nat \X Nat /\ p[1] = g /\ p[2] = h
    OBVIOUS
  <2>2. ~ (p \in R)
    BY <1>3
  <2>3. ~ (g < h)
    BY <2>1, <2>2, Zenon DEF R
  <2> QED
    BY <2>3
<1> QED
  BY <1>4 DEF Least

(* Where on a ring of hashes a search for x ends.                          *)
Spot(hashes, x) ==
    LET above == {h \in hashes : h >= x}
    IN Least(IF above = {} THEN hashes ELSE above)

LEMMA SpotOnRing ==
    ASSUME NEW hashes \in SUBSET Nat, hashes # {}, NEW x \in Nat
    PROVE  Spot(hashes, x) \in hashes
<1> DEFINE above == {h \in hashes : h >= x}
<1>1. above \in SUBSET Nat
  OBVIOUS
<1>2. CASE above = {}
  <2>1. Spot(hashes, x) = Least(hashes)
    BY <1>2, Zenon DEF Spot
  <2> QED
    BY <2>1, LeastExists
<1>3. CASE above # {}
  <2>1. Spot(hashes, x) = Least(above)
    BY <1>3, Zenon DEF Spot
  <2>2. Least(above) \in above
    BY <1>1, <1>3, LeastExists
  <2> QED
    BY <2>1, <2>2
<1> QED
  BY <1>2, <1>3

(* A search that ends at a node of a part of the ring ends at the same     *)
(* node when the ring has that part only.                                  *)
LEMMA SpotInPart ==
    ASSUME NEW all \in SUBSET Nat, NEW part \in SUBSET all, part # {}, NEW x \in Nat,
           Spot(all, x) \in part
    PROVE  Spot(part, x) = Spot(all, x)
<1> DEFINE aboveAll == {h \in all : h >= x}
           abovePart == {h \in part : h >= x}
           all0 == IF aboveAll = {} THEN all ELSE aboveAll
           part0 == IF abovePart = {} THEN part ELSE abovePart
           s == Least(all0)
           t == Least(part0)
<1>1. Spot(all, x) = s /\ Spot(part, x) = t
  BY Zenon DEF Spot
<1>2. all0 \in SUBSET Nat /\ all0 # {} /\ part0 \in SUBSET Nat /\ part0 # {}
  OBVIOUS
<1>3. s \in all0 /\ \A g \in all0 : s <= g
  BY <1>2, LeastExists
<1>4. t \in part0 /\ \A g \in part0 : t <= g
  BY <1>2, LeastExists
<1>5. s \in part
  BY <1>1
<1> HIDE DEF s, t
<1>6. s \in part0 /\ part0 \subseteq all0
  BY <1>3, <1>5
<1>7. s <= t /\ t <= s /\ s \in Nat /\ t \in Nat
  BY <1>2, <1>3, <1>4, <1>6
<1>8. s = t
  BY <1>7
<1> QED
  BY <1>1, <1>8

LEMMA GetNodeSpot ==
    ASSUME NEW ring, DOMAIN ring # {}, NEW x
    PROVE  GetNode(ring, x) = ring[Spot(DOMAIN ring, x)]
  BY Zenon DEF GetNode, Spot

(* GetNode: on a ring with a node, every key has a node of the ring.       *)
THEOREM EveryKeyHasANode ==
    ASSUME NEW ring, DOMAIN ring \in SUBSET Nat, DOMAIN ring # {}, NEW x \in Nat
    PROVE  \E h \in DOMAIN ring : GetNode(ring, x) = ring[h]
  BY GetNodeSpot, SpotOnRing

(* A key that does not keep its node when the ring grows moves to a node   *)
(* that the smaller ring has not.                                          *)
LEMMA GrowRing ==
    ASSUME NEW ring, DOMAIN ring # {},
           NEW larger, DOMAIN larger \in SUBSET Nat, DOMAIN ring \subseteq DOMAIN larger,
           \A h \in DOMAIN ring : larger[h] = ring[h],
           NEW x \in Nat
    PROVE  \/ GetNode(larger, x) = GetNode(ring, x)
           \/ \E h \in DOMAIN larger \ DOMAIN ring : GetNode(larger, x) = larger[h]
<1>1. DOMAIN larger # {}
  OBVIOUS
<1>2. PICK s \in DOMAIN larger : s = Spot(DOMAIN larger, x) /\ GetNode(larger, x) = larger[s]
  BY <1>1, GetNodeSpot, SpotOnRing
<1>3. CASE s \in DOMAIN ring
  <2>1. Spot(DOMAIN ring, x) = s
    BY <1>2, <1>3, SpotInPart
  <2> QED
    BY <1>2, <1>3, <2>1, GetNodeSpot
<1>4. CASE s \notin DOMAIN ring
  BY <1>2, <1>4
<1> QED
  BY <1>3, <1>4

(* AddNode: a key that does not keep its node moves to the new one.        *)
THEOREM AddNodeMovesOnlyToIt ==
    ASSUME NEW ring, DOMAIN ring \in SUBSET Nat, DOMAIN ring # {},
           NEW hash \in Nat \ DOMAIN ring, NEW node, NEW x \in Nat
    PROVE  GetNode(AddNode(ring, hash, node), x) \in {GetNode(ring, x), node}
<1>1. PICK new : new = AddNode(ring, hash, node)
  OBVIOUS
<1>2. /\ DOMAIN new = DOMAIN ring \cup {hash}
      /\ \A h \in DOMAIN ring : new[h] = ring[h]
      /\ new[hash] = node
  BY <1>1 DEF AddNode
<1>3. \/ GetNode(new, x) = GetNode(ring, x)
      \/ \E h \in DOMAIN new \ DOMAIN ring : GetNode(new, x) = new[h]
  BY <1>2, GrowRing
<1> QED
  BY <1>1, <1>2, <1>3

(* RemoveNode: a key moves only if its node was the one that goes.         *)
THEOREM RemoveNodeMovesOnlyItsKeys ==
    ASSUME NEW ring, DOMAIN ring \in SUBSET Nat, NEW hash \in DOMAIN ring,
           DOMAIN ring # {hash}, NEW x \in Nat,
           GetNode(ring, x) # ring[hash]
    PROVE  GetNode(RemoveNode(ring, hash), x) = GetNode(ring, x)
<1>1. PICK new : new = RemoveNode(ring, hash)
  OBVIOUS
<1>2. /\ DOMAIN new = DOMAIN ring \ {hash}
      /\ \A h \in DOMAIN new : ring[h] = new[h]
  BY <1>1 DEF RemoveNode
<1>3. DOMAIN new # {}
  BY <1>2
<1>4. \/ GetNode(ring, x) = GetNode(new, x)
      \/ \E h \in DOMAIN ring \ DOMAIN new : GetNode(ring, x) = ring[h]
  BY <1>2, <1>3, GrowRing
<1> QED
  BY <1>1, <1>2, <1>4

=============================================================================
