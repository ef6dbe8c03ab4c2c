---------------------------- MODULE CommandsProofs ----------------------------
(***************************************************************************)
(* Proofs about Commands, for any clients, keys, workloads and bounds.     *)
(*                                                                         *)
(* First what the helpers of Values return and what each command decides   *)
(* (EffectFacts).  Then three inductive invariants: BaseInv, types and     *)
(* shapes; ScanInv, what commands over several keys have seen; LogInv,     *)
(* under OneWriter, how memory, clients and log hang together.  Last, what *)
(* a change of a document leaves at all other paths.                       *)
(***************************************************************************)
EXTENDS Commands, FiniteSetTheorems, SequenceTheorems, NaturalsInduction,
        WellFoundedInduction, TLAPS

-----------------------------------------------------------------------------
(* Numbers and sequences.                                                  *)

(* Induction without a predicate: a set that has 0 and, with a number      *)
(* below n, the next one, has all numbers up to n.                         *)
LEMMA UpTo ==
    ASSUME NEW n \in Nat, NEW S, 0 \in S, \A i \in 0 .. n - 1 : i \in S => i + 1 \in S
    PROVE  \A i \in 0 .. n : i \in S
<1> DEFINE R == {ss \in Nat \X Nat : ss[1] < ss[2]}
           Bad == {i \in 0 .. n : i \notin S}
<1> SUFFICES ASSUME Bad # {} PROVE FALSE
  OBVIOUS
<1>1. OpToRel(<, Nat) = R
  BY Zenon DEF OpToRel
<1>2. IsWellFoundedOn(R, Nat)
  BY <1>1, NatLessThanWellFounded, Zenon
<1>3. Bad \subseteq Nat
  OBVIOUS
<1> HIDE DEF R
<1>4. PICK i \in Bad : \A j \in Bad : ~ (<<j, i>> \in R)
  BY <1>2, <1>3, WFMin
<1>5. i # 0 /\ i - 1 \in 0 .. n - 1 /\ i - 1 \in Nat /\ i - 1 < i
  BY <1>4
<1>6. <<i - 1, i>> \in R
  <2> DEFINE ss == <<i - 1, i>>
  <2>1. ss \in Nat \X Nat /\ ss[1] = i - 1 /\ ss[2] = i
    BY <1>3, <1>5
  <2> QED
    BY <1>5, <2>1, Zenon DEF R
<1>7. i - 1 \notin Bad
  BY <1>4, <1>6
<1> QED
  BY <1>4, <1>5, <1>7

LEMMA SequenceFacts ==
    /\ \A S : \A s \in Seq(S) : IsSequence(s)
    /\ IsSequence(<<>>)
    /\ \A x : IsSequence(<<x>>)
    /\ \A s, t : IsSequence(s) /\ IsSequence(t) => IsSequence(s \o t)
    /\ \A s : IsSequence(s) /\ s # <<>> =>
          /\ IsSequence(Tail(s)) /\ IsSequence(Front(s))
          /\ Len(s) \in Nat \ {0} /\ s = Append(Front(s), Last(s))
          /\ Len(Front(s)) = Len(s) - 1 /\ Len(Tail(s)) = Len(s) - 1
    /\ \A s : IsSequence(s) => Len(s) \in Nat /\ DOMAIN s = 1 .. Len(s)
<1>1. \A S : \A s \in Seq(S) : IsSequence(s)
  <2> SUFFICES ASSUME NEW S, NEW s \in Seq(S) PROVE s \in Seq(Range(s))
    BY DEF IsSequence
  <2>1. \A i \in 1 .. Len(s) : s[i] \in Range(s)
    BY DEF Range
  <2> QED
    BY <2>1
<1>2. IsSequence(<<>>) /\ \A x : IsSequence(<<x>>)
  BY DEF IsSequence, Range
<1>3. ASSUME NEW s, NEW t, IsSequence(s), IsSequence(t) PROVE IsSequence(s \o t)
  <2>1. s \in Seq(Range(s) \cup Range(t)) /\ t \in Seq(Range(s) \cup Range(t))
    BY <1>3 DEF IsSequence
  <2>2. s \o t \in Seq(Range(s) \cup Range(t))
    BY <2>1
  <2> QED
    BY <1>1, <2>2
<1>4. ASSUME NEW s, IsSequence(s), s # <<>>
      PROVE  /\ IsSequence(Tail(s)) /\ IsSequence(Front(s))
             /\ Len(s) \in Nat \ {0} /\ s = Append(Front(s), Last(s))
             /\ Len(Front(s)) = Len(s) - 1 /\ Len(Tail(s)) = Len(s) - 1
  <2>1. PICK S : s \in Seq(S)
    BY <1>4 DEF IsSequence
  <2>2. Len(s) \in Nat \ {0}
    BY <1>4, <2>1
  <2>3. Front(s) \in Seq(S) /\ Tail(s) \in Seq(S) /\ s[Len(s)] \in S
    BY <1>4, <2>1, <2>2 DEF Front
  <2>4. Len(Front(s)) = Len(s) - 1 /\ \A i \in 1 .. Len(s) - 1 : Front(s)[i] = s[i]
    <3>1. PICK n \in Nat : n = Len(s) - 1
      BY <2>2
    <3>2. SubSeq(s, 1, n) = [i \in 1 .. n |-> s[i]]
      BY <2>1, <3>1, SubSeqProperties
    <3> QED
      BY <2>1, <2>2, <2>3, <3>1, <3>2 DEF Front
  <2>5. s = Append(Front(s), Last(s))
    BY <2>1, <2>2, <2>3, <2>4 DEF Last
  <2>6. Len(Tail(s)) = Len(s) - 1
    BY <1>4, <2>1, <2>2
  <2> QED
    BY <1>1, <2>2, <2>3, <2>4, <2>5, <2>6
<1>5. \A s : IsSequence(s) => Len(s) \in Nat /\ DOMAIN s = 1 .. Len(s)
  BY DEF IsSequence
<1> QED
  BY <1>1, <1>2, <1>3, <1>4, <1>5

-----------------------------------------------------------------------------
(* The recursive functions of Values: they exist, and what they give.      *)

LEMMA FlattenFacts ==
    ASSUME NEW S, NEW n \in Nat, NEW s \in [1 .. n -> Seq(S)]
    PROVE  FlattenSeq(s) \in Seq(S)
<1>1. s \in Seq(Seq(S)) /\ Len(s) = n
  OBVIOUS
<1>2. CASE n = 0
  <2>1. s = <<>>
    BY <1>1, <1>2
  <2> QED
    BY <1>1, <1>2, <2>1 DEF FlattenSeq
<1>3. CASE n # 0
  <2> DEFINE Joins(i, u) == u[1] = s[1] /\ \A j \in 2 .. i : u[j] = u[j - 1] \o s[j]
             Reach == {i \in Nat : \E u \in [1 .. i + 1 -> Seq(S)] : Joins(i + 1, u)}
             m == n - 1
  <2>0. m \in Nat /\ m + 1 = n
    BY <1>3
  <2>1. 0 \in Reach
    <3> DEFINE u == [i \in 1 .. 1 |-> s[1]]
    <3>1. u \in [1 .. 1 -> Seq(S)] /\ u[1] = s[1] /\ 0 + 1 = 1
      BY <1>3
    <3>2. \A j \in 2 .. 1 : FALSE
      OBVIOUS
    <3> HIDE DEF u
    <3> QED
      BY <3>1, <3>2
  <2>2. ASSUME NEW i \in 0 .. m - 1, i \in Reach PROVE i + 1 \in Reach
    <3>1. PICK u \in [1 .. i + 1 -> Seq(S)] : Joins(i + 1, u)
      BY <2>2
    <3>2. i \in Nat /\ u[i + 1] \in Seq(S) /\ s[i + 2] \in Seq(S)
      BY <2>0, <3>1
    <3> DEFINE next == u[i + 1] \o s[i + 2]
               w == [j \in 1 .. i + 2 |-> IF j = i + 2 THEN next ELSE u[j]]
    <3>3. next \in Seq(S)
      BY <3>2
    <3> HIDE DEF next
    <3>4. w \in [1 .. i + 2 -> Seq(S)] /\ w[1] = s[1]
      BY <3>1, <3>2, <3>3
    <3>5. ASSUME NEW j \in 2 .. i + 2 PROVE w[j] = w[j - 1] \o s[j]
      <4>1. CASE j = i + 2
        <5>1. w[j] = next /\ w[j - 1] = u[i + 1]
          BY <3>2, <4>1
        <5> QED
          BY <4>1, <5>1 DEF next
      <4>2. CASE j # i + 2
        <5>1. w[j] = u[j] /\ w[j - 1] = u[j - 1] /\ j \in 2 .. i + 1
          BY <3>2, <4>2
        <5> HIDE DEF w
        <5> QED
          BY <3>1, <5>1
      <4> QED
        BY <4>1, <4>2
    <3>6. i + 1 \in Nat /\ (i + 1) + 1 = i + 2
      BY <3>2
    <3> HIDE DEF w
    <3> QED
      BY <3>4, <3>5, <3>6
  <2>3. m \in Reach
    <3> HIDE DEF Reach, m
    <3>1. \A i \in 0 .. m : i \in Reach
      BY <2>0, <2>1, <2>2, UpTo
    <3> QED
      BY <2>0, <3>1
  <2>4. PICK u \in [1 .. n -> Seq(S)] : Joins(n, u)
    BY <2>0, <2>3
  <2> DEFINE w == [i \in 1 .. n |-> IF i = 1 THEN s[i] ELSE u[i - 1] \o s[i]]
  <2>5. u = w
    <3>1. ASSUME NEW i \in 1 .. n PROVE u[i] = w[i]
      <4>1. CASE i = 1
        BY <2>4, <4>1
      <4>2. CASE i # 1
        <5>1. i \in 2 .. n
          BY <4>2
        <5>2. u[i] = u[i - 1] \o s[i]
          BY <2>4, <5>1
        <5> QED
          BY <4>2, <5>2
      <4> QED
        BY <4>1, <4>2
    <3>2. u = [i \in 1 .. n |-> u[i]] /\ w = [i \in 1 .. n |-> w[i]]
      OBVIOUS
    <3> HIDE DEF w
    <3> QED
      BY <3>1, <3>2
  <2> DEFINE IsFlatten(v) == v = [i \in 1 .. Len(s) |-> IF i = 1 THEN s[i] ELSE v[i - 1] \o s[i]]
  <2>6. IsFlatten(u)
    BY <1>1, <2>5
  <2> DEFINE flat == CHOOSE v : IsFlatten(v)
  <2>7. IsFlatten(flat)
    <3> HIDE DEF IsFlatten
    <3> QED
      BY <2>6
  <2>8. FlattenSeq(s) = flat[n]
    BY <1>1, <1>3 DEF FlattenSeq
  <2> HIDE DEF flat
  <2> DEFINE Good == {i \in Nat : flat[i + 1] \in Seq(S)}
  <2>9. 0 \in Good
    <3>1. flat[1] = s[1] /\ 0 + 1 = 1
      BY <1>1, <1>3, <2>7
    <3> QED
      BY <1>3, <3>1
  <2>10. ASSUME NEW i \in 0 .. m - 1, i \in Good PROVE i + 1 \in Good
    <3>1. i + 2 \in 1 .. n /\ i + 2 # 1 /\ (i + 2) - 1 = i + 1 /\ (i + 1) + 1 = i + 2 /\ i + 1 \in Nat
      BY <2>0
    <3>2. flat[i + 2] = flat[i + 1] \o s[i + 2]
      BY <1>1, <2>7, <3>1
    <3>3. flat[i + 1] \in Seq(S) /\ s[i + 2] \in Seq(S)
      BY <2>10, <3>1
    <3>4. flat[i + 2] \in Seq(S)
      BY <3>2, <3>3
    <3> QED
      BY <3>1, <3>4
  <2>11. m \in Good
    <3> HIDE DEF Good, m
    <3>1. \A i \in 0 .. m : i \in Good
      BY <2>0, <2>9, <2>10, UpTo
    <3> QED
      BY <2>0, <3>1
  <2> QED
    BY <2>0, <2>8, <2>11
<1> QED
  BY <1>2, <1>3

(* The nodes of Rebuilt exist: last is the one at the end of the path.     *)
AreNodes(w, n, last, g, p) ==
    \A i \in 1 .. n : w[i] = IF i = n THEN last ELSE Obj(With(g[i], p[i], w[i + 1]))

LEMMA NodesExist ==
    ASSUME NEW n \in Nat \ {0}, NEW last, NEW g, NEW p
    PROVE  \E w : AreNodes(w, n, last, g, p)
<1> DEFINE Made(w, i) == IF i = n THEN last ELSE Obj(With(g[i], p[i], w[i + 1]))
           Reach == {j \in Nat : \E w : \A i \in n - j .. n : w[i] = Made(w, i)}
           m == n - 1
<1>0. m \in Nat /\ m + 1 = n /\ n - m = 1
  OBVIOUS
<1>1. 0 \in Reach
  <2> DEFINE w == [i \in {n} |-> last]
  <2>1. \A i \in n - 0 .. n : i = n
    BY <1>0
  <2>2. w[n] = Made(w, n)
    OBVIOUS
  <2> HIDE DEF w, Made
  <2> QED
    BY <2>1, <2>2
<1>2. ASSUME NEW j \in 0 .. m - 1, j \in Reach PROVE j + 1 \in Reach
  <2>1. PICK w : \A i \in n - j .. n : w[i] = Made(w, i)
    BY <1>2
  <2> DEFINE k == n - (j + 1)
             u == [i \in k .. n |-> IF i = k THEN Made(w, k) ELSE w[i]]
  <2>2. /\ j + 1 \in Nat /\ k \in 1 .. n /\ k # n /\ k + 1 = n - j
        /\ \A i \in k .. n : i = k \/ i \in n - j .. n
        /\ \A i \in k .. n : i # n => i + 1 \in n - j .. n
    BY <1>0
  <2>3. \A i \in k .. n : i + 1 \in n - j .. n => u[i + 1] = w[i + 1]
    BY <1>0, <2>2
  <2>4. u[k] = Made(w, k) /\ \A i \in n - j .. n : u[i] = w[i]
    BY <1>0, <2>2
  <2> HIDE DEF u, k
  <2>5. ASSUME NEW i \in k .. n PROVE u[i] = Made(u, i)
    <3>1. Made(u, i) = Made(w, i)
      BY <2>2, <2>3
    <3> HIDE DEF Made
    <3> QED
      BY <2>1, <2>2, <2>4, <3>1
  <2> HIDE DEF Made
  <2> QED
    BY <2>2, <2>5 DEF k
<1>3. m \in Reach
  <2> HIDE DEF Reach, m
  <2>1. \A i \in 0 .. m : i \in Reach
    BY <1>0, <1>1, <1>2, UpTo
  <2> QED
    BY <1>0, <2>1
<1> HIDE DEF m
<1>4. PICK w : \A i \in n - m .. n : w[i] = Made(w, i)
  BY <1>3
<1> QED
  BY <1>0, <1>4 DEF AreNodes

(* The nodes of an addition and of a removal.                              *)
WayFields(v, p) == [i \in 1 .. Len(p) |-> Fields(At(v, SubSeq(p, 1, i - 1)))]

LEMMA AddNodes ==
    ASSUME NEW v, NEW p, IsSequence(p), p # <<>>, NEW x, NEW g, g = WayFields(v, p)
    PROVE  \E w : /\ w[1] = AddNestedKey(v, p, x)
                  /\ AreNodes(w, Len(p), Obj(With(g[Len(p)], Last(p), x)), g, p)
<1>1. PICK n \in Nat \ {0} : n = Len(p)
  BY SequenceFacts
<1> DEFINE G(i) == Fields(At(v, SubSeq(p, 1, i - 1)))
           Made(w, i) == IF i = n THEN Obj(With(G(i), Last(p), x)) ELSE Obj(With(G(i), p[i], w[i + 1]))
           IsNode(w) == w = [i \in 1 .. n |-> Made(w, i)]
           last == Obj(With(g[n], Last(p), x))
<1>2. PICK w : AreNodes(w, n, last, g, p)
  <2> HIDE DEF last
  <2> QED
    BY NodesExist, Zenon
<1>3. \A i \in 1 .. n : g[i] = G(i)
  BY <1>1 DEF WayFields
<1> DEFINE u == [i \in 1 .. n |-> w[i]]
<1>4. IsNode(u)
  <2> HIDE DEF G
  <2>1. ASSUME NEW i \in 1 .. n PROVE w[i] = Made(u, i)
    <3>1. i # n => i + 1 \in 1 .. n
      OBVIOUS
    <3> QED
      BY <1>2, <1>3, <3>1 DEF AreNodes
  <2> HIDE DEF Made
  <2> QED
    BY <2>1
<1> DEFINE node == CHOOSE t : IsNode(t)
<1>5. IsNode(node)
  <2> HIDE DEF IsNode
  <2> QED
    BY <1>4
<1>6. \A i \in 1 .. n : node[i] = Made(node, i)
  <2> HIDE DEF node, Made
  <2> QED
    BY <1>5
<1>7. AddNestedKey(v, p, x) = node[1]
  BY <1>1 DEF AddNestedKey, Rebuilt
<1>8. AreNodes(node, n, last, g, p)
  <2> HIDE DEF node, G
  <2>1. g[n] = G(n)
    BY <1>3
  <2> QED
    BY <1>3, <1>6, <2>1 DEF AreNodes
<1> QED
  <2> HIDE DEF node
  <2> QED
    BY <1>1, <1>7, <1>8

LEMMA RemoveNodes ==
    ASSUME NEW v, NEW p, IsSequence(p), p # <<>>, At(v, p) # Missing, NEW g, g = WayFields(v, p)
    PROVE  \E w : /\ w[1] = RemoveNestedKey(v, p)
                  /\ AreNodes(w, Len(p), Obj(Without(g[Len(p)], Last(p))), g, p)
<1>1. PICK n \in Nat \ {0} : n = Len(p)
  BY SequenceFacts
<1> DEFINE G(i) == Fields(At(v, SubSeq(p, 1, i - 1)))
           Made(w, i) == IF i = n THEN Obj(Without(G(i), Last(p))) ELSE Obj(With(G(i), p[i], w[i + 1]))
           IsNode(w) == w = [i \in 1 .. n |-> Made(w, i)]
           last == Obj(Without(g[n], Last(p)))
<1>2. PICK w : AreNodes(w, n, last, g, p)
  <2> HIDE DEF last
  <2> QED
    BY NodesExist, Zenon
<1>3. \A i \in 1 .. n : g[i] = G(i)
  BY <1>1 DEF WayFields
<1> DEFINE u == [i \in 1 .. n |-> w[i]]
<1>4. IsNode(u)
  <2> HIDE DEF G
  <2>1. ASSUME NEW i \in 1 .. n PROVE w[i] = Made(u, i)
    <3>1. i # n => i + 1 \in 1 .. n
      OBVIOUS
    <3> QED
      BY <1>2, <1>3, <3>1 DEF AreNodes
  <2> HIDE DEF Made
  <2> QED
    BY <2>1
<1> DEFINE node == CHOOSE t : IsNode(t)
<1>5. IsNode(node)
  <2> HIDE DEF IsNode
  <2> QED
    BY <1>4
<1>6. \A i \in 1 .. n : node[i] = Made(node, i)
  <2> HIDE DEF node, Made
  <2> QED
    BY <1>5
<1>7. RemoveNestedKey(v, p) = node[1]
  BY <1>1 DEF RemoveNestedKey, Rebuilt
<1>8. AreNodes(node, n, last, g, p)
  <2> HIDE DEF node, G
  <2>1. g[n] = G(n)
    BY <1>3
  <2> QED
    BY <1>3, <1>6, <2>1 DEF AreNodes
<1> QED
  <2> HIDE DEF node
  <2> QED
    BY <1>1, <1>7, <1>8

(* A key added at a path leaves an object with a field, one removed an     *)
(* object or what was there.                                               *)
LEMMA AddFacts ==
    ASSUME NEW v, NEW p, IsSequence(p), p # <<>>, NEW x
    PROVE  \E f : AddNestedKey(v, p, x) = Obj(f) /\ DOMAIN f # {}
<1>1. PICK n \in Nat \ {0} : n = Len(p)
  BY SequenceFacts
<1>2. PICK g : g = WayFields(v, p)
  OBVIOUS
<1>3. PICK w : w[1] = AddNestedKey(v, p, x) /\ AreNodes(w, n, Obj(With(g[n], Last(p), x)), g, p)
  BY <1>1, <1>2, AddNodes
<1>4. \E f, h, y : w[1] = Obj(With(f, h, y))
  BY <1>3 DEF AreNodes
<1>5. \A f, h, y : DOMAIN With(f, h, y) # {}
  BY DEF With
<1> QED
  BY <1>3, <1>4, <1>5

LEMMA RemoveFacts ==
    ASSUME NEW v, NEW p, IsSequence(p), p # <<>>
    PROVE  RemoveNestedKey(v, p) = v \/ \E f : RemoveNestedKey(v, p) = Obj(f)
<1>1. CASE At(v, p) = Missing
  BY <1>1 DEF RemoveNestedKey
<1>2. CASE At(v, p) # Missing
  <2>1. PICK n \in Nat \ {0} : n = Len(p)
    BY SequenceFacts
  <2>2. PICK g : g = WayFields(v, p)
    OBVIOUS
  <2>3. PICK w : w[1] = RemoveNestedKey(v, p) /\ AreNodes(w, n, Obj(Without(g[n], Last(p))), g, p)
    BY <1>2, <2>1, <2>2, RemoveNodes
  <2>4. \E f : w[1] = Obj(f)
    BY <2>3 DEF AreNodes
  <2> QED
    BY <2>3, <2>4
<1> QED
  BY <1>1, <1>2

-----------------------------------------------------------------------------
(* Values.                                                                 *)

LEMMA ValueFacts ==
    ASSUME NEW v, IsValue(v)
    PROVE  /\ Is(v, "num") => v.num \in Int /\ v = Num(v.num)
           /\ Is(v, "text") => IsSequence(v.text) /\ v = Text(v.text)
           /\ Is(v, "arr") => IsSequence(v.arr)
           /\ Is(v, "obj") => ~Is(v, "text") /\ ~Is(v, "inf") /\ ~Is(v, "null") /\ ~Is(v, "num") /\ ~Is(v, "arr")
           /\ Is(v, "arr") => ~Is(v, "text") /\ ~Is(v, "inf") /\ ~Is(v, "null") /\ ~Is(v, "num")
           /\ Is(v, "num") => ~Is(v, "text") /\ ~Is(v, "inf") /\ ~Is(v, "null")
           /\ Is(v, "inf") => ~Is(v, "text") /\ ~Is(v, "null")
           /\ Is(v, "null") => ~Is(v, "text") /\ ~Is(v, "inf")
BY DEF IsValue, Is, Num, Text

LEMMA MadeFacts ==
    /\ \A n \in Int : IsValue(Num(n)) /\ Is(Num(n), "num")
    /\ \A s : IsSequence(s) => IsValue(Text(s)) /\ Is(Text(s), "text")
    /\ \A s : IsValue(Str(s)) /\ IsJson(Str(s))
    /\ \A s : IsSequence(s) => IsValue(Arr(s)) /\ IsList(Arr(s)) /\ IsJson(Arr(s))
    /\ \A f : /\ IsValue(Obj(f)) /\ IsMap(Obj(f)) /\ IsJson(Obj(f))
              /\ Is(Obj(f), "obj") /\ Obj(f).obj = f
    /\ IsValue(Null) /\ IsList(Null) /\ IsMap(Null) /\ IsJson(Null)
    /\ IsValue(Empty) /\ Is(Empty, "text")
    /\ IsValue(Inf) /\ Is(Inf, "inf")
<1>1. \A s : IsSequence(s) => IsValue(Arr(s)) /\ IsList(Arr(s)) /\ IsJson(Arr(s))
  BY DEF IsValue, Is, Arr, IsList, IsJson
<1>2. /\ \A n \in Int : IsValue(Num(n)) /\ Is(Num(n), "num")
      /\ \A s : IsSequence(s) => IsValue(Text(s)) /\ Is(Text(s), "text")
      /\ \A s : IsValue(Str(s)) /\ IsJson(Str(s))
  BY DEF IsValue, Is, Num, Text, Str, IsJson
<1>3. \A f : /\ IsValue(Obj(f)) /\ IsMap(Obj(f)) /\ IsJson(Obj(f))
             /\ Is(Obj(f), "obj") /\ Obj(f).obj = f
  BY DEF IsValue, Is, Obj, IsMap, IsJson
<1>4. /\ IsValue(Null) /\ IsList(Null) /\ IsMap(Null) /\ IsJson(Null)
      /\ IsValue(Inf) /\ Is(Inf, "inf")
  BY DEF IsValue, Is, Null, Inf, IsMap, IsList, IsJson
<1>5. IsValue(Empty) /\ Is(Empty, "text")
  BY <1>2, SequenceFacts DEF Empty
<1> QED
  BY <1>1, <1>2, <1>3, <1>4, <1>5

LEMMA ConversionFacts ==
    ASSUME NEW v, IsValue(v)
    PROVE  /\ IsValue(EnsureUnmarshal(v)) /\ IsJson(EnsureUnmarshal(v))
           /\ IsValue(ObjectToByte(v))
           /\ IsJson(v) => IsJson(ObjectToByte(v)) \/ ObjectToByte(v) = Empty
           /\ IsNumber(v) => Is(ObjectToByte(v), "num") \/ ObjectToByte(v) = Empty
<1>1. IsValue(EnsureUnmarshal(v)) /\ IsJson(EnsureUnmarshal(v))
  <2>1. CASE Is(v, "text")
    BY <2>1, ValueFacts, MadeFacts DEF EnsureUnmarshal
  <2>2. CASE Is(v, "inf")
    BY <2>2, ValueFacts, MadeFacts DEF EnsureUnmarshal
  <2>3. CASE ~Is(v, "text") /\ ~Is(v, "inf")
    BY <2>3 DEF EnsureUnmarshal, IsJson
  <2> QED
    BY <2>1, <2>2, <2>3
<1>2. ObjectToByte(v) = Empty \/ (ObjectToByte(v) = v /\ ~Is(v, "inf"))
  BY DEF ObjectToByte
<1>3. IsValue(Empty)
  BY MadeFacts
<1> QED
  BY <1>1, <1>2, <1>3 DEF IsNumber

LEMMA ListFacts ==
    ASSUME NEW v, IsValue(v)
    PROVE  /\ IsSequence(Elements(v))
           /\ \A s : IsSequence(s) => IsValue(Listed(s, v)) /\ IsList(Listed(s, v))
<1>1. IsSequence(Elements(v))
  BY ValueFacts, SequenceFacts DEF Elements
<1>2. \A s : Listed(s, v) \in {Null, Arr(s)}
  BY DEF Listed
<1> QED
  BY <1>1, <1>2, MadeFacts

-----------------------------------------------------------------------------
(* What each command makes of an object and arguments as they should be.   *)

IsObject(o) ==
    /\ o \in [val : {o.val}, kind : Kinds, exp : {0, 1}]
    /\ IsValue(o.val)
    /\ Shaped(o.val, o.kind)

Good(v, kind) == kind \in Kinds /\ IsValue(v) /\ Shaped(v, kind)

(* Where the code forgets a case.                                          *)
Forgotten(op, o, a) ==
    \/ op \in {"STR.GET", "NUM.GET"} /\ o = NoObj
    \/ op \in {"MAP.GET", "MAP.SET", "MAP.CSET", "MAP.DEL"} /\ a # <<>> /\ NoField(a[1].path)
    \/ /\ op = "STR.RANGE" /\ o # NoObj
       /\ a[2].num >= 0
       /\ IF a[1].num < 0 THEN Len(o.val.text) + a[1].num + a[2].num \notin 0 .. IntMax
          ELSE a[1].num + a[2].num > IntMax

EffectOK(e, op, o, a) ==
    /\ e.do \in {"none", "set", "delete", "inplace", "regress", "die"}
    /\ e.do = "set" => Good(e.val, e.kind)
    /\ e.do = "inplace" => o # NoObj /\ o.kind = "Map" /\ Good(e.val, "Map")
    /\ e.do = "regress" => o # NoObj /\ o.kind = "List" /\ e.kind = "List" /\ Good(e.val, "List")
    /\ e.do = "die" => Forgotten(op, o, a)

LEMMA PlainEffects ==
    ASSUME NEW op, NEW o, NEW a
    PROVE  /\ \A v : EffectOK(Answer(v), op, o, a)
           /\ \A v : EffectOK(Delete(v), op, o, a)
           /\ EffectOK(Fail, op, o, a)
           /\ \A v, k, out : Good(v, k) => EffectOK(Set(v, k, out), op, o, a)
           /\ Forgotten(op, o, a) => EffectOK(Die, op, o, a)
           /\ \A v, out : o # NoObj /\ o.kind = "Map" /\ Good(v, "Map") => EffectOK(InPlace(v, out), op, o, a)
BY DEF EffectOK, Answer, Delete, Fail, Set, Die, InPlace

(* The arguments of a request that is not refused.                         *)
Args(op, a) ==
    /\ IsSequence(a)
    /\ Len(a) \in Arity(op)
    /\ \A i \in DOMAIN a : Takes(op, i, a[i])

IsPath(x) == IsSequence(x.path) /\ x.path # <<>>
AreRefs(refs) == IsFiniteSet(refs) /\ \A r \in refs : IsPath(r)

LEMMA ArgFacts ==
    ASSUME NEW op, NEW a, Args(op, a)
    PROVE  /\ op \in {"SET", "NUM.SET", "JSON.SET", "JSON.MERGE", "TTL.EXPIRE"} => IsValue(a[1])
           /\ op = "STR.SET" => IsValue(a[1]) /\ Is(a[1], "text")
           /\ op = "STR.APPEND" => \A i \in DOMAIN a : IsValue(a[i]) /\ Is(a[i], "text")
           /\ op \in {"NUM.INCR", "NUM.DECR"} => a = <<>> \/ IsValue(a[1])
           /\ op \in {"LIST.PUSH", "LIST.SET"} => \A i \in DOMAIN a : IsValue(a[i])
           /\ op \in {"LIST.ISET", "STR.RANGE"} => IsValue(a[1]) /\ IsValue(a[2])
           /\ op \in {"MAP.SET", "MAP.CSET", "JSON.ADD"} => a # <<>> /\ IsPath(a[1]) /\ IsValue(a[2])
           /\ op \in {"MAP.DEL", "JSON.REMOVE"} => a = <<>> \/ IsPath(a[1])
           /\ op = "JSON.SETREF" => IsValue(a[1]) /\ (Is(a[2], "refs") => AreRefs(a[2].refs))
           /\ op \in {"MAP.SET", "MAP.DEL"} => a = <<>> \/ Len(a[1].path) = 1
           /\ op = "JSON.MERGE" => IsDocument(a[1])
<1>0. Len(a) \in Nat /\ DOMAIN a = 1 .. Len(a) /\ (a # <<>> => Len(a) # 0)
  BY SequenceFacts DEF Args
<1>1. /\ op \in {"SET", "NUM.SET", "JSON.SET", "JSON.MERGE", "TTL.EXPIRE"} => IsValue(a[1])
      /\ op = "STR.SET" => IsValue(a[1]) /\ Is(a[1], "text")
  <2>1. op \in {"SET", "STR.SET", "NUM.SET", "JSON.SET", "JSON.MERGE", "TTL.EXPIRE"} => 1 \in DOMAIN a
    BY <1>0 DEF Args, Arity
  <2> QED
    BY <2>1 DEF Args, Takes, IsDocument
<1>2. op = "STR.APPEND" => \A i \in DOMAIN a : IsValue(a[i]) /\ Is(a[i], "text")
  BY DEF Args, Takes, IsDocument
<1>3. op \in {"NUM.INCR", "NUM.DECR"} => a = <<>> \/ IsValue(a[1])
  <2>1. a # <<>> => 1 \in DOMAIN a
    BY <1>0
  <2> QED
    BY <2>1 DEF Args, Takes, IsDocument
<1>4. op \in {"LIST.PUSH", "LIST.SET"} => \A i \in DOMAIN a : IsValue(a[i])
  BY DEF Args, Takes, IsDocument
<1>5. /\ op \in {"LIST.ISET", "STR.RANGE"} => IsValue(a[1]) /\ IsValue(a[2])
      /\ op \in {"MAP.SET", "MAP.CSET", "JSON.ADD"} => a # <<>> /\ IsPath(a[1]) /\ IsValue(a[2])
      /\ op = "JSON.SETREF" => IsValue(a[1]) /\ (Is(a[2], "refs") => AreRefs(a[2].refs))
  <2>1. op \in {"LIST.ISET", "STR.RANGE", "MAP.SET", "MAP.CSET", "JSON.ADD", "JSON.SETREF"} =>
           1 \in DOMAIN a /\ 2 \in DOMAIN a /\ a # <<>>
    BY <1>0 DEF Args, Arity
  <2>2. op \in {"LIST.ISET", "STR.RANGE"} => IsValue(a[1]) /\ IsValue(a[2])
    BY <2>1 DEF Args, Takes, IsDocument
  <2>3. op \in {"MAP.SET", "MAP.CSET", "JSON.ADD"} => a # <<>> /\ IsPath(a[1]) /\ IsValue(a[2])
    BY <2>1 DEF Args, Takes, IsPath, IsDocument
  <2>4. op = "JSON.SETREF" => IsValue(a[1]) /\ (Is(a[2], "refs") => AreRefs(a[2].refs))
    BY <2>1 DEF Args, Takes, AreRefs, IsPath, IsDocument
  <2> QED
    BY <2>2, <2>3, <2>4
<1>6. op \in {"MAP.DEL", "JSON.REMOVE"} => a = <<>> \/ IsPath(a[1])
  <2>1. a # <<>> => 1 \in DOMAIN a
    BY <1>0
  <2> QED
    BY <2>1 DEF Args, Takes, IsPath, IsDocument
<1>7. op \in {"MAP.SET", "MAP.DEL"} => a = <<>> \/ Len(a[1].path) = 1
  <2>1. a # <<>> => 1 \in DOMAIN a
    BY <1>0
  <2> QED
    BY <2>1 DEF Args, Takes
<1>8. op = "JSON.MERGE" => IsDocument(a[1])
  <2>1. op = "JSON.MERGE" => 1 \in DOMAIN a
    BY <1>0 DEF Args, Arity
  <2> QED
    BY <2>1 DEF Args, Takes
<1> QED
  BY <1>1, <1>2, <1>3, <1>4, <1>5, <1>6, <1>7, <1>8

LEMMA ObjectFacts ==
    ASSUME NEW o, IsObject(o)
    PROVE  o # NoObj /\ o.kind \in Kinds /\ IsValue(o.val) /\ Shaped(o.val, o.kind) /\ o.exp \in {0, 1}
BY DEF IsObject, NoObj

LEMMA StringEffects ==
    ASSUME NEW o, o = NoObj \/ IsObject(o), NEW op, NEW a, Args(op, a)
    PROVE  /\ op = "SET" => EffectOK(SetKey(a), op, o, a)
           /\ op = "GET" => EffectOK(GetKey(o, a), op, o, a)
           /\ op = "STR.SET" => EffectOK(StrSet(a), op, o, a)
           /\ op = "STR.GET" => EffectOK(StrGet(o), op, o, a)
           /\ op = "STR.APPEND" => EffectOK(StrAppend(o, a), op, o, a)
           /\ op = "STR.LENGTH" => EffectOK(StrLength(o), op, o, a)
           /\ op = "STR.RANGE" => EffectOK(StrRange(o, a), op, o, a)
<1>1. op = "SET" => EffectOK(SetKey(a), op, o, a)
  BY ArgFacts, PlainEffects DEF SetKey, Good, Shaped, Kinds
<1>2. EffectOK(GetKey(o, a), op, o, a)
  BY PlainEffects DEF GetKey
<1>3. op = "STR.SET" => EffectOK(StrSet(a), op, o, a)
  BY ArgFacts, PlainEffects DEF StrSet, Good, Shaped, Kinds
<1>4. op = "STR.GET" => EffectOK(StrGet(o), op, o, a)
  BY PlainEffects DEF StrGet, Forgotten
<1>5. ASSUME op = "STR.APPEND" PROVE EffectOK(StrAppend(o, a), op, o, a)
  <2> DEFINE old == IF o = NoObj THEN <<>> ELSE o.val.text
             texts == [i \in DOMAIN a |-> a[i].text]
  <2>1. CASE o # NoObj /\ o.kind # "String"
    BY <2>1, PlainEffects DEF StrAppend
  <2>2. CASE o = NoObj \/ o.kind = "String"
    <3>1. IsSequence(old)
      BY <2>2, ObjectFacts, ValueFacts, SequenceFacts DEF Shaped
    <3>2. PICK n \in Nat : DOMAIN a = 1 .. n
      BY SequenceFacts DEF Args
    <3>3. \A i \in 1 .. n : IsSequence(a[i].text)
      BY <1>5, <3>2, ArgFacts, ValueFacts
    <3> DEFINE S == UNION {Range(a[i].text) : i \in 1 .. n}
    <3>4. \A i \in 1 .. n : a[i].text \in Seq(S)
      BY <3>3 DEF IsSequence
    <3>5. texts \in [1 .. n -> Seq(S)]
      BY <3>2, <3>4
    <3>6. IsSequence(FlattenSeq(texts))
      <4> HIDE DEF S, texts
      <4> QED
        BY <3>5, FlattenFacts, SequenceFacts
    <3>7. IsSequence(old \o FlattenSeq(texts))
      BY <3>1, <3>6, SequenceFacts
    <3>8. StrAppend(o, a) = Set(Text(old \o FlattenSeq(texts)), "String", Empty)
      BY <2>2 DEF StrAppend
    <3> HIDE DEF old, texts
    <3>9. Good(Text(old \o FlattenSeq(texts)), "String")
      BY <3>7, MadeFacts DEF Good, Shaped, Kinds
    <3> QED
      BY <3>8, <3>9, PlainEffects
  <2> QED
    BY <2>1, <2>2
<1>6. EffectOK(StrLength(o), op, o, a)
  BY PlainEffects DEF StrLength
<1>7. ASSUME op = "STR.RANGE" PROVE EffectOK(StrRange(o, a), op, o, a)
  <2>1. CASE ~IsInt(a[1]) \/ ~IsInt(a[2]) \/ o = NoObj \/ o.kind # "String"
    BY <2>1, PlainEffects DEF StrRange
  <2>2. CASE IsInt(a[1]) /\ IsInt(a[2]) /\ o # NoObj /\ o.kind = "String"
    <3>1. PICK start \in Int, end \in Int : start = a[1].num /\ end = a[2].num
      BY <2>2, IntAssumption DEF IsInt, Ints
    <3>2. PICK s : s = o.val.text
      OBVIOUS
    <3>3. PICK n \in Nat : n = Len(s)
      BY <2>2, <3>2, ObjectFacts, ValueFacts, SequenceFacts DEF Shaped
    <3>4. GetRange(s, start, end) = Beyond =>
             end >= 0 /\ IF start < 0 THEN n + start + end \notin 0 .. IntMax ELSE start + end > IntMax
      <4>1. \A t : Text(t) # Beyond
        BY DEF Text, Beyond
      <4>2. PICK from \in Int : from = IF start < 0 THEN n + start ELSE start
        OBVIOUS
      <4>9. IntSum(from, end) \in Int /\ (from + end <= IntMax => IntSum(from, end) = from + end)
        BY IntAssumption DEF IntSum
      <4>8. PICK sum \in Int : sum = IntSum(from, end) /\ (from + end <= IntMax => sum = from + end)
        BY <4>9
      <4>3. PICK to \in Int : to = IF end < 0 THEN n ELSE sum
        OBVIOUS
      <4>4. PICK low \in Int : low = IF from < 0 THEN 0 ELSE IF from > n THEN n ELSE from
        OBVIOUS
      <4>5. PICK high \in Int : high = IF to >= n THEN n ELSE to
        OBVIOUS
      <4>6. GetRange(s, start, end) = IF high < low THEN Beyond ELSE Text(SubSeq(s, low + 1, high))
        <5>1. to = IF end < 0 THEN Len(s) ELSE IntSum(from, end)
          BY <3>3, <4>3, <4>8
        <5>2. from = IF start < 0 THEN Len(s) + start ELSE start
          BY <3>3, <4>2
        <5> QED
          BY <3>3, <4>4, <4>5, <5>1, <5>2 DEF GetRange
      <4>7. GetRange(s, start, end) = Beyond => high < low
        BY <4>1, <4>6
      <4> QED
        <5>1. ASSUME high < low PROVE end >= 0 /\ (from + end > IntMax \/ (from < 0 /\ from + end < 0))
          BY <4>3, <4>4, <4>5, <4>8, <5>1, IntAssumption
        <5> QED
          BY <4>2, <4>7, <5>1, IntAssumption
    <3>5. StrRange(o, a) = IF GetRange(s, start, end) = Beyond THEN Die ELSE Answer(GetRange(s, start, end))
      BY <2>2, <3>1, <3>2 DEF StrRange
    <3>6. GetRange(s, start, end) = Beyond => Forgotten(op, o, a)
      BY <1>7, <2>2, <3>1, <3>2, <3>3, <3>4 DEF Forgotten
    <3> QED
      BY <3>5, <3>6, PlainEffects
  <2> QED
    BY <2>1, <2>2
<1> QED
  BY <1>1, <1>2, <1>3, <1>4, <1>5, <1>6, <1>7

LEMMA NumberEffects ==
    ASSUME NEW o, o = NoObj \/ IsObject(o), NEW op, NEW a, Args(op, a)
    PROVE  /\ op = "NUM.SET" => EffectOK(NumSet(a), op, o, a)
           /\ op = "NUM.GET" => EffectOK(NumGet(o), op, o, a)
           /\ op \in {"NUM.INCR", "NUM.DECR"} => \A sign \in {1, -1} : EffectOK(NumAdd(o, a, sign), op, o, a)
<1>0. \A v : IsValue(v) /\ IsNumber(v) => Good(ObjectToByte(v), "Number")
  <2> SUFFICES ASSUME NEW v, IsValue(v), IsNumber(v) PROVE Good(ObjectToByte(v), "Number")
    OBVIOUS
  <2>1. Is(ObjectToByte(v), "num") \/ ObjectToByte(v) = Empty
    BY ConversionFacts
  <2> QED
    BY <2>1, ConversionFacts DEF Good, Shaped, Kinds
<1>1. op = "NUM.SET" => EffectOK(NumSet(a), op, o, a)
  BY <1>0, ArgFacts, PlainEffects DEF NumSet
<1>2. op = "NUM.GET" => EffectOK(NumGet(o), op, o, a)
  BY PlainEffects DEF NumGet, Forgotten
<1>3. ASSUME op \in {"NUM.INCR", "NUM.DECR"}, NEW sign \in {1, -1} PROVE EffectOK(NumAdd(o, a, sign), op, o, a)
  <2>1. PICK by : by = IF a = <<>> THEN Num(1) ELSE a[1]
    OBVIOUS
  <2>2. PICK sum : sum = IF o = NoObj \/ Is(by, "inf") THEN by ELSE Float(o.val.num + sign * by.num)
    OBVIOUS
  <2>3. NumAdd(o, a, sign) =
           IF ~IsNumber(by) THEN Fail
           ELSE IF o # NoObj /\ (~Is(o.val, "num") \/ o.kind # "Number") THEN Fail
           ELSE Set(ObjectToByte(sum), "Number", ObjectToByte(sum))
    BY <2>1, <2>2 DEF NumAdd
  <2>4. IsValue(by)
    BY <1>3, <2>1, ArgFacts, MadeFacts
  <2>5. ASSUME IsNumber(by), o = NoObj \/ Is(o.val, "num") PROVE IsValue(sum) /\ IsNumber(sum)
    <3>1. CASE o = NoObj \/ Is(by, "inf")
      BY <2>2, <2>4, <2>5, <3>1
    <3>2. CASE o # NoObj /\ ~Is(by, "inf")
      <4>1. PICK m \in Int, n \in Int : m = o.val.num /\ n = by.num
        BY <2>4, <2>5, <3>2, ObjectFacts, ValueFacts DEF IsNumber
      <4>2. m + sign * n \in Int
        BY <4>1
      <4>3. sum \in {Num(m + sign * n), Inf}
        BY <2>2, <3>2, <4>1 DEF Float
      <4> QED
        BY <4>2, <4>3, MadeFacts DEF IsNumber
    <3> QED
      BY <3>1, <3>2
  <2> QED
    BY <1>0, <2>3, <2>5, PlainEffects
<1> QED
  BY <1>1, <1>2, <1>3

LEMMA ParsedFacts ==
    ASSUME NEW a, IsSequence(a)
    PROVE  IsSequence(Parsed(a))
<1>1. PICK n \in Nat : DOMAIN a = 1 .. n
  BY SequenceFacts
<1>2. Parsed(a) \in Seq({EnsureUnmarshal(a[i]) : i \in 1 .. n})
  BY <1>1 DEF Parsed
<1> QED
  BY <1>2, SequenceFacts

LEMMA ListEffects ==
    ASSUME NEW o, o = NoObj \/ IsObject(o), NEW op, NEW a, Args(op, a)
    PROVE  /\ op = "LIST.PUSH" => EffectOK(ListPush(o, a), op, o, a)
           /\ op = "LIST.SET" => EffectOK(ListSet(a), op, o, a)
           /\ op = "LIST.ISET" => EffectOK(ListISet(o, a), op, o, a)
           /\ op = "LIST.GET" => EffectOK(ListGet(o, a), op, o, a)
           /\ op = "LIST.LEN" => EffectOK(ListLen(o), op, o, a)
           /\ op = "LIST.FIND" => EffectOK(ListFind(o, a), op, o, a)
           /\ op = "LIST.POP" => EffectOK(ListPop(o), op, o, a)
           /\ op = "LIST.GPOP" => EffectOK(ListGPop(o), op, o, a)
<1>0. /\ \A s : IsSequence(s) => Good(Arr(s), "List")
      /\ \A v, s : IsValue(v) /\ IsSequence(s) => Good(Listed(s, v), "List")
  BY ListFacts, MadeFacts DEF Good, Shaped, Kinds
<1>a. IsSequence(a)
  BY DEF Args
<1>1. EffectOK(ListPush(o, a), op, o, a)
  <2>1. PICK old : old = IF o = NoObj THEN Null ELSE o.val
    OBVIOUS
  <2>2. IsValue(old)
    BY <2>1, ObjectFacts, MadeFacts
  <2>3. IsSequence(Elements(old) \o Parsed(a))
    BY <1>a, <2>2, ListFacts, ParsedFacts, SequenceFacts
  <2>4. ListPush(o, a) = IF ~IsList(old) THEN Fail
           ELSE Set(Listed(Elements(old) \o Parsed(a), old), "List", Num(Len(Elements(old) \o Parsed(a))))
    BY <2>1 DEF ListPush
  <2> QED
    BY <1>0, <2>2, <2>3, <2>4, PlainEffects
<1>2. EffectOK(ListSet(a), op, o, a)
  BY <1>0, <1>a, ParsedFacts, PlainEffects DEF ListSet
<1>3. ASSUME op = "LIST.ISET" PROVE EffectOK(ListISet(o, a), op, o, a)
  <2>1. PICK new : new = EnsureUnmarshal(a[2])
    OBVIOUS
  <2>2. CASE ~IsIndex(a[1]) \/ o = NoObj
    BY <1>0, <2>1, <2>2, SequenceFacts, PlainEffects DEF ListISet
  <2>3. CASE IsIndex(a[1]) /\ o # NoObj /\ (~IsList(o.val) \/ a[1].num + 1 > Len(Elements(o.val)))
    BY <2>3, PlainEffects DEF ListISet
  <2>4. CASE IsIndex(a[1]) /\ o # NoObj /\ IsList(o.val) /\ ~(a[1].num + 1 > Len(Elements(o.val)))
    <3>1. PICK i \in Nat : i = a[1].num + 1
      BY <1>3, <2>4, ArgFacts, ValueFacts DEF IsIndex
    <3>2. PICK s : s = o.val.arr
      OBVIOUS
    <3>3. Is(o.val, "arr") /\ IsSequence(s)
      <4>1. Len(<<>>) = 0
        OBVIOUS
      <4>2. i > 0
        BY <1>3, <2>4, <3>1, ArgFacts, ValueFacts DEF IsIndex
      <4>3. IsValue(o.val)
        BY <2>4, ObjectFacts
      <4> QED
        BY <2>4, <3>1, <3>2, <4>1, <4>2, <4>3, ValueFacts DEF Elements
    <3>4. [s EXCEPT ![i] = new] \in Seq(Range(s) \cup {new})
      <4>1. s \in Seq(Range(s) \cup {new})
        BY <3>3 DEF IsSequence
      <4>2. PICK n \in Nat : n = Len(s) /\ DOMAIN s = 1 .. n
        BY <3>3, SequenceFacts
      <4> DEFINE t == [s EXCEPT ![i] = new]
      <4>3. DOMAIN t = 1 .. n /\ t = [j \in 1 .. n |-> t[j]]
        BY <4>1, <4>2
      <4>4. \A j \in 1 .. n : t[j] \in Range(s) \cup {new}
        BY <4>1, <4>2
      <4> HIDE DEF t
      <4>5. t \in Seq(Range(s) \cup {new})
        BY <4>3, <4>4
      <4> QED
        BY <4>5 DEF t
    <3>5. ListISet(o, a) = Set(Arr([s EXCEPT ![i] = new]), "List", Empty)
      BY <2>1, <2>4, <3>1, <3>2 DEF ListISet
    <3> QED
      BY <1>0, <3>4, <3>5, SequenceFacts, PlainEffects
  <2> QED
    BY <2>2, <2>3, <2>4
<1>4. /\ EffectOK(ListGet(o, a), op, o, a)
      /\ EffectOK(ListLen(o), op, o, a)
      /\ EffectOK(ListFind(o, a), op, o, a)
  BY PlainEffects DEF ListGet, ListLen, ListFind, OfList
<1>5. EffectOK(ListPop(o), op, o, a) /\ EffectOK(ListGPop(o), op, o, a)
  <2>1. CASE o = NoObj \/ o.kind # "List" \/ ~IsList(o.val)
    BY <2>1, PlainEffects DEF ListPop, ListGPop, OfList
  <2>2. CASE o # NoObj /\ o.kind = "List" /\ IsList(o.val)
    <3>1. PICK s : s = Elements(o.val)
      OBVIOUS
    <3>2. IsSequence(s)
      BY <2>2, <3>1, ObjectFacts, ListFacts
    <3>3. ListPop(o) = IF s = <<>> THEN Answer(Empty)
                       ELSE IF Len(s) = 1 THEN Delete(ObjectToByte(s[1]))
                       ELSE IF Is(Last(s), "null") THEN Answer(Empty)
                       ELSE Set(Arr(Front(s)), "List", ObjectToByte(Last(s)))
      BY <2>2, <3>1 DEF ListPop, OfList
    <3>4. ListGPop(o) = IF s = <<>> THEN Answer(Empty)
                        ELSE [do |-> "regress", val |-> Arr(Front(s)), kind |-> "List", out |-> ObjectToByte(Last(s))]
      BY <2>2, <3>1 DEF ListGPop, OfList
    <3>5. s # <<>> => Good(Arr(Front(s)), "List")
      BY <1>0, <3>2, SequenceFacts
    <3>6. EffectOK(ListPop(o), op, o, a)
      BY <3>3, <3>5, PlainEffects
    <3>7. EffectOK(ListGPop(o), op, o, a)
      <4>1. CASE s = <<>>
        BY <3>4, <4>1, PlainEffects
      <4>2. CASE s # <<>>
        BY <2>2, <3>4, <3>5, <4>2 DEF EffectOK
      <4> QED
        BY <4>1, <4>2
    <3> QED
      BY <3>6, <3>7
  <2> QED
    BY <2>1, <2>2
<1> QED
  BY <1>1, <1>2, <1>3, <1>4, <1>5

LEMMA MapEffects ==
    ASSUME NEW o, o = NoObj \/ IsObject(o), NEW op, NEW a, Args(op, a)
    PROVE  /\ op = "MAP.GET" => EffectOK(MapGet(o, a), op, o, a)
           /\ op = "MAP.SET" => EffectOK(MapSet(o, a), op, o, a)
           /\ op = "MAP.DEL" => EffectOK(MapDel(o, a), op, o, a)
<1>1. op = "MAP.GET" => EffectOK(MapGet(o, a), op, o, a)
  BY PlainEffects DEF MapGet, Forgotten
<1>2. ASSUME op = "MAP.SET" PROVE EffectOK(MapSet(o, a), op, o, a)
  <2>1. PICK v : v = AddNestedKey(IF o = NoObj THEN Null ELSE o.val, a[1].path, EnsureUnmarshal(a[2]))
    OBVIOUS
  <2>2. Good(v, "Map")
    <3>1. a # <<>> /\ IsSequence(a[1].path) /\ a[1].path # <<>>
      BY <1>2, ArgFacts DEF IsPath
    <3>2. \E f : v = Obj(f) /\ DOMAIN f # {}
      BY <2>1, <3>1, AddFacts
    <3> QED
      BY <3>2, MadeFacts DEF Good, Shaped, Kinds
  <2>3. EffectOK(Set(v, "Map", Empty), op, o, a)
    BY <2>2, PlainEffects
  <2>4. a # <<>>
    BY <1>2, ArgFacts
  <2> QED
    BY <1>2, <2>1, <2>3, <2>4, PlainEffects DEF MapSet, Forgotten
<1>3. ASSUME op = "MAP.DEL" PROVE EffectOK(MapDel(o, a), op, o, a)
  <2>1. CASE a = <<>> \/ NoField(a[1].path) \/ o = NoObj
    BY <1>3, <2>1, PlainEffects DEF MapDel, Forgotten
  <2>2. CASE a # <<>> /\ ~NoField(a[1].path) /\ o # NoObj
    <3>1. PICK f : f = Fields(o.val)
      OBVIOUS
    <3>2. PICK x : x = a[1].path[1]
      OBVIOUS
    <3>3. MapDel(o, a) = IF ~IsMap(o.val) \/ o.kind # "Map" THEN Fail
                         ELSE IF Cardinality(DOMAIN f) = 1 THEN Delete(Empty)
                         ELSE InPlace(Obj(Without(f, x)), Empty)
      BY <2>2, <3>1, <3>2 DEF MapDel
    <3>4. ASSUME o.kind = "Map", Cardinality(DOMAIN f) # 1 PROVE Good(Obj(Without(f, x)), "Map")
      <4>1. DOMAIN f # {}
        BY <2>2, <3>1, <3>4, ObjectFacts DEF Shaped, Fields
      <4>2. DOMAIN Without(f, x) = DOMAIN f \ {x}
        BY DEF Without
      <4>3. DOMAIN f # {x}
        BY <3>4, FS_Singleton
      <4>4. DOMAIN Without(f, x) # {}
        BY <4>1, <4>2, <4>3
      <4> QED
        BY <4>4, MadeFacts DEF Good, Shaped, Kinds
    <3> QED
      BY <2>2, <3>3, <3>4, PlainEffects
  <2> QED
    BY <2>1, <2>2
<1> QED
  BY <1>1, <1>2, <1>3

LEMMA DocumentEffects ==
    ASSUME NEW o, o = NoObj \/ IsObject(o), NEW op, NEW a, Args(op, a)
    PROVE  /\ op = "JSON.SET" => EffectOK(JsonSet(a), op, o, a)
           /\ EffectOK(JsonPGet(o, a), op, o, a)
           /\ op = "JSON.ADD" => EffectOK(JsonAdd(o, a), op, o, a)
           /\ op = "JSON.MERGE" => EffectOK(JsonMerge(o, a), op, o, a)
           /\ op = "JSON.REMOVE" => EffectOK(JsonRemove(o, a), op, o, a)
<1>0. \A v : IsValue(v) /\ (IsJson(v) \/ v = Empty) => EffectOK(SetDocument(v), op, o, a)
  BY PlainEffects DEF SetDocument, Good, Shaped, Kinds
<1>1. op = "JSON.SET" => EffectOK(JsonSet(a), op, o, a)
  BY ArgFacts, PlainEffects DEF JsonSet, Good, Shaped, Kinds
<1>2. EffectOK(JsonPGet(o, a), op, o, a)
  BY PlainEffects DEF JsonPGet, OfDocument
<1>3. ASSUME op = "JSON.ADD" PROVE EffectOK(JsonAdd(o, a), op, o, a)
  <2>1. PICK v : v = AddNestedKey(IF o = NoObj THEN Null ELSE o.val, a[1].path, EnsureUnmarshal(a[2]))
    OBVIOUS
  <2>2. IsValue(v) /\ IsJson(v)
    <3>1. IsSequence(a[1].path) /\ a[1].path # <<>>
      BY <1>3, ArgFacts DEF IsPath
    <3>2. \E f : v = Obj(f)
      BY <2>1, <3>1, AddFacts
    <3> QED
      BY <3>2, MadeFacts
  <2> QED
    BY <1>0, <2>1, <2>2, PlainEffects DEF JsonAdd
<1>4. ASSUME op = "JSON.MERGE" PROVE EffectOK(JsonMerge(o, a), op, o, a)
  <2>1. PICK new : new = EnsureUnmarshal(a[1])
    OBVIOUS
  <2>2. IsValue(new) /\ IsJson(new)
    BY <1>4, <2>1, ArgFacts, ConversionFacts
  <2>3. EffectOK(SetDocument(ObjectToByte(new)), op, o, a)
    BY <1>0, <2>2, ConversionFacts
  <2>4. EffectOK(SetDocument(Obj(MergeObjects(Fields(o.val), new.obj))), op, o, a)
    BY <1>0, MadeFacts
  <2> QED
    BY <2>1, <2>3, <2>4, PlainEffects DEF JsonMerge
<1>5. ASSUME op = "JSON.REMOVE" PROVE EffectOK(JsonRemove(o, a), op, o, a)
  <2>1. CASE o = NoObj \/ o.kind # "JSON" \/ a = <<>> \/ ~IsMap(o.val) \/ Blocked(o.val, a[1].path)
    BY <2>1, PlainEffects DEF JsonRemove
  <2>2. CASE o # NoObj /\ o.kind = "JSON" /\ a # <<>> /\ IsMap(o.val) /\ ~Blocked(o.val, a[1].path)
    <3>1. PICK v : v = RemoveNestedKey(o.val, a[1].path)
      OBVIOUS
    <3>2. IsSequence(a[1].path) /\ a[1].path # <<>>
      BY <1>5, <2>2, ArgFacts DEF IsPath
    <3>3. v = o.val \/ \E f : v = Obj(f)
      BY <3>1, <3>2, RemoveFacts
    <3>4. IsValue(v) /\ (IsJson(v) \/ v = Empty)
      BY <2>2, <3>3, ObjectFacts, MadeFacts DEF Shaped
    <3> QED
      BY <1>0, <2>2, <3>1, <3>4 DEF JsonRemove
  <2> QED
    BY <2>1, <2>2
<1> QED
  BY <1>1, <1>2, <1>3, <1>4, <1>5

(* The commands Execute dispatches.                                        *)
OneLook == (Readers \cup Writers) \ {"EXISTS", "JSON.SETREF", "MAP.CSET", "TTL.EXPIRE", "DELETE"}

LEMMA EffectFacts ==
    ASSUME NEW o, o = NoObj \/ IsObject(o), NEW op \in OneLook, NEW a, Args(op, a)
    PROVE  EffectOK(Execute(op, o, a), op, o, a)
<1>1. CASE op \in {"SET", "GET", "STR.SET", "STR.GET", "STR.APPEND", "STR.LENGTH", "STR.RANGE"}
  BY <1>1, StringEffects DEF Execute
<1>2. CASE op \in {"NUM.SET", "NUM.GET", "NUM.INCR", "NUM.DECR"}
  BY <1>2, NumberEffects DEF Execute
<1>3. CASE op \in {"LIST.PUSH", "LIST.SET", "LIST.ISET", "LIST.GET", "LIST.LEN", "LIST.FIND",
                   "LIST.POP", "LIST.GPOP"}
  BY <1>3, ListEffects DEF Execute
<1>4. CASE op \in {"MAP.GET", "MAP.SET", "MAP.DEL"}
  BY <1>4, MapEffects DEF Execute
<1>5. CASE op \in {"JSON.SET", "JSON.GET", "JSON.PGET", "JSON.ADD", "JSON.MERGE", "JSON.REMOVE"}
  BY <1>5, DocumentEffects DEF Execute
<1>6. CASE op = "TTL"
  BY <1>6, PlainEffects DEF Execute
<1> QED
  BY <1>1, <1>2, <1>3, <1>4, <1>5, <1>6 DEF OneLook, Readers, Writers

-----------------------------------------------------------------------------
(* The first invariant: types, references that lead somewhere, requests    *)
(* that are as they should be.                                             *)

Pcs == {"idle", "found", "scan", "emptied", "dated", "logging"}
Pointers == ObjIds \cup {0}

IsClient(x) ==
    x \in [pc : Pcs, op : {x.op}, key : {x.key}, args : {x.args}, ptr : Pointers,
           todo : {x.todo}, acc : {x.acc}, out : {x.out}, entry : {x.entry},
           ever : SUBSET Keys, always : SUBSET Keys]

(* x and y are alike but for their history.                                *)
Alike(x, y) ==
    /\ x.pc = y.pc /\ x.op = y.op /\ x.key = y.key /\ x.args = y.args /\ x.ptr = y.ptr
    /\ x.todo = y.todo /\ x.acc = y.acc /\ x.out = y.out /\ x.entry = y.entry

Asked(x) ==
    /\ x.op \in Readers \cup Writers
    /\ x.op # "EXISTS" => x.key \in Keys /\ Args(x.op, x.args)

ClientOK(x) ==
    /\ x.pc # "idle" => Asked(x)
    /\ x.pc = "found" => x.op # "EXISTS"
    /\ x.pc = "emptied" => x.op = "MAP.CSET"
    /\ x.pc = "dated" => x.op = "TTL.EXPIRE"
    /\ x.pc = "scan" => x.op \in {"EXISTS", "JSON.SETREF", "JSON.GET"}
    /\ x.pc = "scan" /\ x.op = "JSON.SETREF" =>
          IsValue(x.acc) /\ IsJson(x.acc) /\ Is(x.args[2], "refs") /\ x.todo \in Seq(x.args[2].refs)
    /\ x.pc = "logging" => /\ x.op # "EXISTS"
                           /\ x.entry \in [ptr : Pointers, obj : {x.entry.obj}]
                           /\ x.entry.ptr = x.ptr

QueuedOK(e) == e \in [key : Keys, ptr : Pointers, obj : {e.obj}]

(* Memory, heap and queue, and the pointers among them.                    *)
StoreOK(m, h, q) ==
    /\ m \in [Keys -> Pointers]
    /\ h = [i \in ObjIds |-> h[i]]
    /\ \A i \in ObjIds : h[i] = NoObj \/ IsObject(h[i])
    /\ \A k \in Keys : m[k] # 0 => h[m[k]] # NoObj
    /\ IsSequence(q) /\ Len(q) <= QueueSize
    /\ \A i \in DOMAIN q : QueuedOK(q[i]) /\ (q[i].ptr # 0 => h[q[i].ptr] # NoObj)

BaseInv ==
    /\ job \in Jobs /\ dead \in BOOLEAN /\ DOMAIN logged = Keys
    /\ StoreOK(mem, heap, queue)
    /\ cl = [c \in Clients |-> cl[c]]
    /\ \A c \in Clients : /\ IsClient(cl[c]) /\ ClientOK(cl[c])
                          /\ cl[c].ptr # 0 => heap[cl[c].ptr] # NoObj

LEMMA PointerFacts == 0 \notin ObjIds /\ \A i \in Pointers : i # 0 => i \in ObjIds
BY CommandsAssumption DEF Pointers

LEMMA IdleFacts == IsClient(IdleClient) /\ ClientOK(IdleClient) /\ IdleClient.ptr = 0 /\ IdleClient.pc = "idle"
BY DEF IsClient, ClientOK, IdleClient, Pcs, Pointers

LEMMA AlikeFacts ==
    ASSUME NEW x, NEW y, Alike(x, y), ClientOK(y)
    PROVE  ClientOK(x)
BY DEF Alike, ClientOK, Asked

WatchesKeys(x) == x.op \in {"EXISTS", "JSON.SETREF"}

(* What a step makes of every client.                                      *)
LEMMA ThenFacts ==
    ASSUME BaseInv, NEW c \in Clients, NEW m \in [Keys -> Pointers], NEW h, NEW q, NEW new,
           Step(c, m, h, q, new), IsClient(new)
    PROVE  /\ cl' = [d \in Clients |-> cl'[d]]
           /\ \A d \in Clients :
                 LET x == IF d = c THEN new ELSE cl[d] IN
                 /\ IsClient(cl'[d]) /\ Alike(cl'[d], x)
                 /\ ~WatchesKeys(x) => cl'[d] = x
                 /\ WatchesKeys(x) => /\ cl'[d].ever = x.ever \cup Bound(m)
                                      /\ cl'[d].always = x.always \cap Bound(m)
<1> DEFINE Watched(x) == IF x.op \in {"EXISTS", "JSON.SETREF"}
                         THEN [x EXCEPT !.ever = @ \cup Bound(m), !.always = @ \cap Bound(m)] ELSE x
<1>1. cl' = [d \in Clients |-> Watched(IF d = c THEN new ELSE cl[d])]
  BY DEF Step
<1>2. Bound(m) \subseteq Keys
  BY DEF Bound
<1>3. ASSUME NEW x, IsClient(x)
      PROVE  /\ IsClient(Watched(x)) /\ Alike(Watched(x), x)
             /\ ~WatchesKeys(x) => Watched(x) = x
             /\ WatchesKeys(x) => /\ Watched(x).ever = x.ever \cup Bound(m)
                                  /\ Watched(x).always = x.always \cap Bound(m)
  <2>1. CASE ~WatchesKeys(x)
    BY <1>3, <2>1 DEF WatchesKeys, Alike
  <2>2. CASE WatchesKeys(x)
    <3> DEFINE y == [x EXCEPT !.ever = @ \cup Bound(m)]
               z == [y EXCEPT !.always = @ \cap Bound(m)]
    <3>1. IsClient(y) /\ Alike(y, x) /\ y.ever = x.ever \cup Bound(m) /\ y.always = x.always
      BY <1>2, <1>3 DEF IsClient, Alike
    <3>2. IsClient(z) /\ Alike(z, y) /\ z.ever = y.ever /\ z.always = y.always \cap Bound(m)
      <4> HIDE DEF y
      <4> QED
        BY <1>2, <3>1 DEF IsClient, Alike
    <3>3. Watched(x) = z
      BY <2>2 DEF WatchesKeys
    <3>4. Alike(z, x)
      <4> HIDE DEF y, z
      <4> QED
        BY <3>1, <3>2 DEF Alike
    <3> HIDE DEF y, z, Watched
    <3> QED
      BY <2>2, <3>1, <3>2, <3>3, <3>4
  <2> QED
    BY <2>1, <2>2
<1>4. \A d \in Clients : IsClient(IF d = c THEN new ELSE cl[d])
  BY DEF BaseInv
<1> HIDE DEF Watched
<1> QED
  BY <1>1, <1>3, <1>4

(* What is reachable stays in the heap.                                    *)
Kept(m, h, q) ==
    /\ mem' = m /\ queue' = q /\ job' = job /\ logged' = logged /\ dead' = dead /\ ~dead
    /\ heap' = [i \in ObjIds |-> heap'[i]]
    /\ \A i \in ObjIds : heap'[i] = h[i] \/ heap'[i] = NoObj
    /\ \A k \in Keys : m[k] \in ObjIds => heap'[m[k]] = h[m[k]]
    /\ \A d \in Clients : cl'[d].ptr \in ObjIds => heap'[cl'[d].ptr] = h[cl'[d].ptr]
    /\ \A i \in DOMAIN q : q[i].ptr \in ObjIds => heap'[q[i].ptr] = h[q[i].ptr]

LEMMA HeapFacts ==
    ASSUME NEW c \in Clients, NEW m, NEW h, NEW q, NEW new, Step(c, m, h, q, new)
    PROVE  Kept(m, h, q)
<1> DEFINE live(then) == {m[k] : k \in Keys} \cup {then[d].ptr : d \in Clients}
                            \cup {q[i].ptr : i \in DOMAIN q}
<1>1. heap' = [i \in ObjIds |-> IF i \in live(cl') THEN h[i] ELSE NoObj]
  BY DEF Step
<1>2. /\ \A k \in Keys : m[k] \in live(cl')
      /\ \A d \in Clients : cl'[d].ptr \in live(cl')
      /\ \A i \in DOMAIN q : q[i].ptr \in live(cl')
  OBVIOUS
<1>3. mem' = m /\ queue' = q /\ job' = job /\ logged' = logged /\ dead' = dead /\ ~dead
  BY DEF Step
<1> HIDE DEF live
<1> QED
  BY <1>1, <1>2, <1>3 DEF Kept

LEMMA StepKeeps ==
    ASSUME BaseInv, NEW c \in Clients, NEW m, NEW h, NEW q, NEW new,
           Step(c, m, h, q, new), StoreOK(m, h, q),
           IsClient(new), ClientOK(new), new.ptr # 0 => h[new.ptr] # NoObj,
           \A i \in ObjIds : heap[i] # NoObj => h[i] # NoObj
    PROVE  BaseInv'
<1>0. m \in [Keys -> Pointers]
  BY DEF StoreOK
<1>k. Kept(m, h, q)
  BY HeapFacts, Zenon
<1>1. /\ cl' = [d \in Clients |-> cl'[d]]
      /\ \A d \in Clients : IsClient(cl'[d]) /\ Alike(cl'[d], IF d = c THEN new ELSE cl[d])
  BY <1>0, ThenFacts
<1>2. ASSUME NEW d \in Clients PROVE ClientOK(cl'[d]) /\ (cl'[d].ptr # 0 => heap'[cl'[d].ptr] # NoObj)
  <2>1. PICK x : x = IF d = c THEN new ELSE cl[d]
    OBVIOUS
  <2>2. ClientOK(x) /\ x.ptr \in Pointers /\ (x.ptr # 0 => h[x.ptr] # NoObj)
    <3>1. CASE d = c
      BY <2>1, <3>1 DEF IsClient
    <3>2. CASE d # c
      BY <2>1, <3>2, PointerFacts DEF BaseInv, IsClient
    <3> QED
      BY <3>1, <3>2
  <2>3. Alike(cl'[d], x)
    BY <1>1, <2>1
  <2>4. ClientOK(cl'[d]) /\ cl'[d].ptr = x.ptr
    BY <2>2, <2>3, AlikeFacts DEF Alike
  <2> QED
    BY <1>k, <2>2, <2>4, PointerFacts DEF Kept
<1>3. StoreOK(mem', heap', queue')
  <2>1. \A k \in Keys : m[k] # 0 => heap'[m[k]] # NoObj
    BY <1>0, <1>k, PointerFacts DEF StoreOK, Kept
  <2>2. \A i \in DOMAIN q : QueuedOK(q[i]) /\ (q[i].ptr # 0 => heap'[q[i].ptr] # NoObj)
    BY <1>k, PointerFacts DEF StoreOK, QueuedOK, Kept
  <2>3. \A i \in ObjIds : heap'[i] = NoObj \/ IsObject(heap'[i])
    BY <1>k DEF StoreOK, Kept
  <2>4. heap' = [i \in ObjIds |-> heap'[i]] /\ mem' = m /\ queue' = q
    BY <1>k DEF Kept
  <2>5. IsSequence(q) /\ Len(q) <= QueueSize
    BY DEF StoreOK
  <2> QED
    BY <1>0, <2>1, <2>2, <2>3, <2>4, <2>5 DEF StoreOK
<1>4. job' \in Jobs /\ dead' \in BOOLEAN /\ DOMAIN logged' = Keys
  BY <1>k DEF BaseInv, Kept
<1> QED
  BY <1>1, <1>2, <1>3, <1>4 DEF BaseInv

-----------------------------------------------------------------------------
(* Every action keeps it.                                                  *)

LEMMA ThinkKeeps ==
    ASSUME BaseInv, NEW c \in Clients, NEW new, Think(c, new),
           IsClient(new), ClientOK(new), new.ptr # 0 => heap[new.ptr] # NoObj
    PROVE  BaseInv'
<1>1. Step(c, mem, heap, queue, new)
  BY DEF Think
<1>2. StoreOK(mem, heap, queue)
  BY DEF BaseInv
<1> QED
  BY <1>1, <1>2, StepKeeps, Zenon

IsEntry(e) == e \in [ptr : Pointers, obj : {e.obj}]

LoggingOK(new, x, entry, out) ==
    /\ IsClient(new) /\ ClientOK(new)
    /\ new.pc = "logging" /\ new.entry = entry /\ new.ptr = entry.ptr /\ new.out = out
    /\ new.op = x.op /\ new.key = x.key /\ new.args = x.args /\ new.todo = x.todo /\ new.acc = x.acc
    /\ new.ever = x.ever /\ new.always = x.always

LEMMA LoggingFacts ==
    ASSUME BaseInv, NEW c \in Clients, cl[c].pc # "idle", cl[c].op # "EXISTS",
           NEW entry, IsEntry(entry), NEW out
    PROVE  LoggingOK(Logging(c, entry, out), cl[c], entry, out)
<1>1. PICK x : x = cl[c]
  OBVIOUS
<1>2. IsClient(x) /\ ClientOK(x) /\ x.pc # "idle" /\ x.op # "EXISTS"
  BY <1>1 DEF BaseInv
<1>3. PICK x1 : x1 = [x EXCEPT !.pc = "logging"]
  OBVIOUS
<1>4. /\ IsClient(x1) /\ x1.pc = "logging" /\ x1.entry = x.entry /\ x1.ptr = x.ptr /\ x1.out = x.out
      /\ x1.op = x.op /\ x1.key = x.key /\ x1.args = x.args /\ x1.todo = x.todo /\ x1.acc = x.acc
      /\ x1.ever = x.ever /\ x1.always = x.always
  BY <1>2, <1>3 DEF IsClient, Pcs
<1>5. PICK x2 : x2 = [x1 EXCEPT !.entry = entry]
  OBVIOUS
<1>6. /\ IsClient(x2) /\ x2.pc = "logging" /\ x2.entry = entry /\ x2.ptr = x.ptr /\ x2.out = x.out
      /\ x2.op = x.op /\ x2.key = x.key /\ x2.args = x.args /\ x2.todo = x.todo /\ x2.acc = x.acc
      /\ x2.ever = x.ever /\ x2.always = x.always
  BY <1>4, <1>5 DEF IsClient, Pcs
<1>7. PICK x3 : x3 = [x2 EXCEPT !.ptr = entry.ptr]
  OBVIOUS
<1>8. /\ IsClient(x3) /\ x3.pc = "logging" /\ x3.entry = entry /\ x3.ptr = entry.ptr /\ x3.out = x.out
      /\ x3.op = x.op /\ x3.key = x.key /\ x3.args = x.args /\ x3.todo = x.todo /\ x3.acc = x.acc
      /\ x3.ever = x.ever /\ x3.always = x.always
  BY <1>6, <1>7 DEF IsClient, Pcs, IsEntry
<1>9. PICK x4 : x4 = [x3 EXCEPT !.out = out]
  OBVIOUS
<1>10. /\ IsClient(x4) /\ x4.pc = "logging" /\ x4.entry = entry /\ x4.ptr = entry.ptr /\ x4.out = out
       /\ x4.op = x.op /\ x4.key = x.key /\ x4.args = x.args /\ x4.todo = x.todo /\ x4.acc = x.acc
       /\ x4.ever = x.ever /\ x4.always = x.always
  BY <1>8, <1>9 DEF IsClient, Pcs
<1>11. Logging(c, entry, out) = x4
  BY <1>1, <1>3, <1>5, <1>7, <1>9 DEF Logging
<1>12. ClientOK(x4)
  BY <1>2, <1>10 DEF ClientOK, Asked, IsEntry
<1> QED
  BY <1>1, <1>10, <1>11, <1>12 DEF LoggingOK

LEMMA EntryFacts ==
    /\ \A v, kind : IsEntry(ByValue(v, kind)) /\ ByValue(v, kind).ptr = 0
    /\ \A i \in Pointers : IsEntry(ByPointer(i)) /\ ByPointer(i).ptr = i
    /\ IsEntry(Deletion) /\ Deletion.ptr = 0
BY DEF IsEntry, ByValue, ByPointer, Deletion, Pointers

LEMMA NewObjFacts ==
    ASSUME NEW v, NEW kind, Good(v, kind)
    PROVE  IsObject(NewObj(v, kind)) /\ NewObj(v, kind) # NoObj
BY DEF Good, IsObject, NewObj, NoObj

LEMMA FreshFacts ==
    ASSUME Room
    PROVE  Fresh \in ObjIds /\ heap[Fresh] = NoObj
BY DEF Room, Fresh

LEMMA BindKeeps ==
    ASSUME BaseInv, NEW c \in Clients, cl[c].pc # "idle", cl[c].op # "EXISTS",
           NEW v, NEW kind, Good(v, kind), NEW out, Bind(c, v, kind, out)
    PROVE  BaseInv'
<1>1. PICK f \in ObjIds : f = Fresh /\ heap[f] = NoObj
  BY FreshFacts DEF Bind
<1>2. PICK m : m = [mem EXCEPT ![cl[c].key] = f]
  OBVIOUS
<1>3. PICK h : h = [heap EXCEPT ![f] = NewObj(v, kind)]
  OBVIOUS
<1>4. PICK new : new = Logging(c, ByValue(v, kind), out)
  OBVIOUS
<1>5. Step(c, m, h, queue, new)
  BY <1>1, <1>2, <1>3, <1>4 DEF Bind
<1>6. IsClient(new) /\ ClientOK(new) /\ new.ptr = 0
  BY <1>4, EntryFacts, LoggingFacts DEF LoggingOK
<1>7. \A i \in ObjIds : heap[i] # NoObj => h[i] = heap[i]
  BY <1>1, <1>3 DEF BaseInv, StoreOK
<1>8. StoreOK(m, h, queue)
  <2>1. m \in [Keys -> Pointers] /\ h = [i \in ObjIds |-> h[i]]
    BY <1>2, <1>3 DEF BaseInv, StoreOK, Pointers
  <2>2. h[f] = NewObj(v, kind) /\ IsObject(h[f]) /\ h[f] # NoObj /\ \A i \in ObjIds \ {f} : h[i] = heap[i]
    BY <1>3, NewObjFacts DEF BaseInv, StoreOK
  <2>3. \A k \in Keys : m[k] # 0 => h[m[k]] # NoObj
    BY <1>2, <1>7, <2>2, PointerFacts DEF BaseInv, StoreOK
  <2>4. \A i \in DOMAIN queue : QueuedOK(queue[i]) /\ (queue[i].ptr # 0 => h[queue[i].ptr] # NoObj)
    BY <1>7, PointerFacts DEF BaseInv, StoreOK, QueuedOK
  <2> QED
    BY <2>1, <2>2, <2>3, <2>4 DEF BaseInv, StoreOK
<1> QED
  BY <1>5, <1>6, <1>7, <1>8, StepKeeps

(* Those that change what they have found.                                 *)
Finders == (Writers \cap OneLook) \ Blind

(* The client after a request has come in.                                 *)
Received(c, r) ==
    [Request(c, r) EXCEPT
        !.pc = IF r.op = "EXISTS" THEN "scan" ELSE "found",
        !.todo = IF r.op = "EXISTS" THEN <<r.key>> \o r.args ELSE <<>>,
        !.acc = Num(0),
        !.ptr = IF r.op \in Blind \cup {"EXISTS", "TTL.EXPIRE", "JSON.SETREF"} THEN 0 ELSE Lookup(r.key)]

LEMMA ReceivedFacts ==
    ASSUME BaseInv, NEW c \in Clients, NEW r, IsRequest(r), ~Refused(r)
    PROVE  LET x == Received(c, r) IN
           /\ IsClient(x) /\ ClientOK(x)
           /\ x.ptr \in {0, Lookup(r.key)}
           /\ r.op \in Finders => x.ptr = Lookup(r.key) /\ r.key \in Keys
           /\ x.pc = IF r.op = "EXISTS" THEN "scan" ELSE "found"
           /\ x.op = r.op /\ x.key = r.key /\ x.args = r.args
           /\ x.todo = IF r.op = "EXISTS" THEN <<r.key>> \o r.args ELSE <<>>
           /\ x.acc = Num(0) /\ x.ever = {} /\ x.always = Keys
<1>1. PICK p : p = IF r.op \in Blind \cup {"EXISTS", "TTL.EXPIRE", "JSON.SETREF"} THEN 0 ELSE Lookup(r.key)
  OBVIOUS
<1>2. PICK t : t = IF r.op = "EXISTS" THEN <<r.key>> \o r.args ELSE <<>>
  OBVIOUS
<1>3. PICK pc \in Pcs : pc = IF r.op = "EXISTS" THEN "scan" ELSE "found"
  BY DEF Pcs
<1>4. PICK x : x = [pc |-> pc, op |-> r.op, key |-> r.key, args |-> r.args, ptr |-> p, todo |-> t,
                    acc |-> Num(0), out |-> Empty, entry |-> NoObj, ever |-> {}, always |-> Keys]
  OBVIOUS
<1>5. PICK y : y = [pc |-> "idle", op |-> r.op, key |-> r.key, args |-> r.args, ptr |-> 0, todo |-> <<>>,
                    acc |-> Empty, out |-> Empty, entry |-> NoObj, ever |-> {}, always |-> Keys]
  OBVIOUS
<1>6. Request(c, r) = y
  <2>1. PICK op, key, args : op = r.op /\ key = r.key /\ args = r.args
    OBVIOUS
  <2>2. Request(c, r) = [IdleClient EXCEPT !.op = op, !.key = key, !.args = args, !.always = Keys]
    BY <2>1, Zenon DEF Request
  <2>3. y = [pc |-> "idle", op |-> op, key |-> key, args |-> args, ptr |-> 0, todo |-> <<>>,
             acc |-> Empty, out |-> Empty, entry |-> NoObj, ever |-> {}, always |-> Keys]
    BY <1>5, <2>1, Zenon
  <2> QED
    BY <2>2, <2>3 DEF IdleClient
<1>7. Received(c, r) = [y EXCEPT !.pc = pc, !.todo = t, !.acc = Num(0), !.ptr = p]
  BY <1>1, <1>2, <1>3, <1>6, Zenon DEF Received
<1>8. Received(c, r) = x
  BY <1>4, <1>5, <1>7
<1>9. p \in Pointers /\ p \in {0, Lookup(r.key)}
  BY <1>1 DEF Lookup, Pointers, BaseInv, StoreOK
<1>10. IsClient(x)
  BY <1>4, <1>9 DEF IsClient
<1>11. Asked(x) /\ (r.op \in Finders => x.ptr = Lookup(r.key) /\ r.key \in Keys)
  BY <1>1, <1>4 DEF Asked, IsRequest, Refused, Args, Finders, OneLook
<1>12. ClientOK(x)
  BY <1>3, <1>4, <1>11 DEF ClientOK
<1> QED
  BY <1>2, <1>3, <1>4, <1>8, <1>9, <1>10, <1>11, <1>12

LEMMA ReceiveKeeps ==
    ASSUME BaseInv, NEW c \in Clients, Invoke(c)
    PROVE  BaseInv'
<1>1. PICK r \in job.may[c] : Receive(c, r)
  BY DEF Invoke
<1>2. IsRequest(r)
  BY CommandsAssumption DEF BaseInv
<1>3. CASE Refused(r)
  <2>1. Think(c, IdleClient)
    BY <1>1, <1>3 DEF Receive
  <2> QED
    BY <2>1, IdleFacts, ThinkKeeps
<1>4. CASE ~Refused(r)
  <2>1. Think(c, Received(c, r))
    BY <1>1, <1>4 DEF Receive, Received
  <2>2. PICK x : x = Received(c, r)
    OBVIOUS
  <2>3. IsClient(x) /\ ClientOK(x) /\ x.ptr \in {0, Lookup(r.key)}
    BY <1>2, <1>4, <2>2, ReceivedFacts
  <2>4. x.ptr # 0 => heap[x.ptr] # NoObj
    BY <2>3 DEF Lookup, BaseInv, StoreOK
  <2> QED
    BY <2>1, <2>2, <2>3, <2>4, ThinkKeeps
<1> QED
  BY <1>3, <1>4

(* What a command decides is right for what it has found.                  *)
LEMMA FoundFacts ==
    ASSUME BaseInv, NEW c \in Clients, Plain(c)
    PROVE  /\ EffectOK(Effect(c), cl[c].op, Object(cl[c].ptr), cl[c].args)
           /\ cl[c].op \in OneLook /\ cl[c].key \in Keys /\ cl[c].pc = "found" /\ cl[c].op # "EXISTS"
           /\ Args(cl[c].op, cl[c].args)
           /\ cl[c].ptr \in Pointers
           /\ Object(cl[c].ptr) # NoObj => cl[c].ptr \in ObjIds /\ IsObject(heap[cl[c].ptr])
                                           /\ Object(cl[c].ptr) = heap[cl[c].ptr]
<1>1. PICK x : x = cl[c]
  OBVIOUS
<1>2. x.pc = "found" /\ IsClient(x) /\ ClientOK(x) /\ (x.ptr # 0 => heap[x.ptr] # NoObj)
  BY <1>1 DEF Plain, BaseInv
<1>3. x.op \in OneLook /\ x.key \in Keys /\ Args(x.op, x.args) /\ x.op # "EXISTS" /\ x.ptr \in Pointers
  BY <1>1, <1>2 DEF Plain, Scanning, OneLook, ClientOK, Asked, IsClient
<1>4. /\ Object(x.ptr) = NoObj \/ IsObject(Object(x.ptr))
      /\ Object(x.ptr) # NoObj => x.ptr \in ObjIds /\ IsObject(heap[x.ptr]) /\ Object(x.ptr) = heap[x.ptr]
  BY <1>3, PointerFacts DEF Object, BaseInv, StoreOK
<1>5. EffectOK(Execute(x.op, Object(x.ptr), x.args), x.op, Object(x.ptr), x.args)
  BY <1>3, <1>4, EffectFacts
<1> QED
  BY <1>1, <1>2, <1>3, <1>4, <1>5 DEF Effect

LEMMA RemoveKeeps ==
    ASSUME BaseInv, NEW c \in Clients, cl[c].key \in Keys, NEW new,
           Step(c, [mem EXCEPT ![cl[c].key] = 0], heap, queue, new),
           IsClient(new), ClientOK(new), new.ptr # 0 => heap[new.ptr] # NoObj
    PROVE  BaseInv'
<1>1. PICK m : m = [mem EXCEPT ![cl[c].key] = 0]
  OBVIOUS
<1>2. StoreOK(m, heap, queue)
  BY <1>1 DEF BaseInv, StoreOK, Pointers
<1> QED
  BY <1>1, <1>2, StepKeeps

(* A live object gets another value, or another deadline.                  *)
LEMMA AlterKeeps ==
    ASSUME BaseInv, NEW c \in Clients, NEW i \in ObjIds, heap[i] # NoObj, NEW o, IsObject(o),
           NEW new, Step(c, mem, [heap EXCEPT ![i] = o], queue, new),
           IsClient(new), ClientOK(new), new.ptr # 0 => heap[new.ptr] # NoObj
    PROVE  BaseInv'
<1>1. PICK h : h = [heap EXCEPT ![i] = o]
  OBVIOUS
<1>2. /\ h = [j \in ObjIds |-> h[j]] /\ h[i] = o /\ o # NoObj
      /\ \A j \in ObjIds \ {i} : h[j] = heap[j]
  BY <1>1, ObjectFacts DEF BaseInv, StoreOK
<1>3. \A j \in ObjIds : heap[j] # NoObj => h[j] # NoObj
  BY <1>2
<1>4. StoreOK(mem, h, queue)
  <2>1. \A k \in Keys : mem[k] # 0 => h[mem[k]] # NoObj
    BY <1>3, PointerFacts DEF BaseInv, StoreOK
  <2>2. \A j \in DOMAIN queue : QueuedOK(queue[j]) /\ (queue[j].ptr # 0 => h[queue[j].ptr] # NoObj)
    BY <1>3, PointerFacts DEF BaseInv, StoreOK, QueuedOK
  <2> QED
    BY <1>2, <2>1, <2>2 DEF BaseInv, StoreOK
<1>5. new.ptr # 0 => h[new.ptr] # NoObj
  BY <1>3, PointerFacts DEF IsClient
<1> QED
  BY <1>1, <1>3, <1>4, <1>5, StepKeeps

LEMMA ValFacts ==
    ASSUME NEW o, IsObject(o), NEW v, Good(v, o.kind)
    PROVE  IsObject([o EXCEPT !.val = v]) /\ [o EXCEPT !.val = v].val = v
           /\ [o EXCEPT !.val = v].kind = o.kind /\ [o EXCEPT !.val = v].exp = o.exp
BY DEF IsObject, Good

LEMMA DecideKeeps ==
    ASSUME BaseInv, NEW c \in Clients, Decide(c)
    PROVE  BaseInv'
<1>1. PICK e : e = Effect(c)
  OBVIOUS
<1>2. Plain(c)
  BY DEF Decide
<1>3. PICK i \in Pointers : i = cl[c].ptr
  BY <1>2, FoundFacts
<1>4. /\ EffectOK(e, cl[c].op, Object(i), cl[c].args)
      /\ cl[c].key \in Keys /\ cl[c].pc = "found" /\ cl[c].pc # "idle" /\ cl[c].op # "EXISTS"
      /\ Object(i) # NoObj => i \in ObjIds /\ IsObject(heap[i]) /\ Object(i) = heap[i] /\ heap[i] # NoObj
  BY <1>1, <1>2, <1>3, FoundFacts
<1>5. CASE Reply(c, e)
  BY <1>5, IdleFacts, ThinkKeeps DEF Reply
<1>6. CASE ChangeSet(c, e)
  BY <1>4, <1>6, BindKeeps DEF ChangeSet, EffectOK
<1>7. CASE ChangeDelete(c, e)
  <2>1. PICK new : new = Logging(c, Deletion, e.out)
    OBVIOUS
  <2>2. IsClient(new) /\ ClientOK(new) /\ new.ptr = 0
    BY <1>4, <2>1, EntryFacts, LoggingFacts DEF LoggingOK
  <2>3. Step(c, [mem EXCEPT ![cl[c].key] = 0], heap, queue, new)
    BY <1>7, <2>1 DEF ChangeDelete
  <2> QED
    BY <1>4, <2>2, <2>3, RemoveKeeps
<1>8. CASE ChangeInPlace(c, e)
  <2>1. PICK new : new = Logging(c, ByPointer(i), e.out)
    OBVIOUS
  <2>2. IsClient(new) /\ ClientOK(new) /\ new.ptr = i
    BY <1>4, <2>1, EntryFacts, LoggingFacts DEF LoggingOK
  <2>3. i \in ObjIds /\ IsObject(heap[i]) /\ heap[i] # NoObj /\ Good(e.val, heap[i].kind)
    BY <1>4, <1>8 DEF ChangeInPlace, EffectOK
  <2>4. PICK o : o = [heap[i] EXCEPT !.val = e.val]
    OBVIOUS
  <2>5. IsObject(o)
    BY <2>3, <2>4, ValFacts
  <2>6. Step(c, mem, [heap EXCEPT ![i] = o], queue, new)
    BY <1>3, <1>8, <2>1, <2>4 DEF ChangeInPlace
  <2> QED
    BY <2>2, <2>3, <2>5, <2>6, AlterKeeps
<1>9. CASE ChangeRegress(c, e)
  <2>1. PICK new : new = Logging(c, ByPointer(i), e.out)
    OBVIOUS
  <2>2. IsClient(new) /\ ClientOK(new) /\ new.ptr = i
    BY <1>4, <2>1, EntryFacts, LoggingFacts DEF LoggingOK
  <2>3. i \in ObjIds /\ IsObject(heap[i]) /\ heap[i] # NoObj /\ Good(e.val, heap[i].kind) /\ Good(e.val, e.kind)
    BY <1>4, <1>9 DEF ChangeRegress, EffectOK
  <2>4. PICK o : o = [heap[i] EXCEPT !.val = e.val]
    OBVIOUS
  <2>5. IsObject(o) /\ o # NoObj
    BY <2>3, <2>4, ValFacts, ObjectFacts
  <2>6. PICK f \in ObjIds : f = Fresh /\ heap[f] = NoObj
    BY <1>9, FreshFacts DEF ChangeRegress
  <2>7. PICK m : m = [mem EXCEPT ![cl[c].key] = f]
    OBVIOUS
  <2>8. PICK n : n = NewObj(e.val, e.kind)
    OBVIOUS
  <2>9. IsObject(n) /\ n # NoObj
    BY <2>3, <2>8, NewObjFacts
  <2>10. PICK h : h = [heap EXCEPT ![f] = n, ![i].val = e.val]
    OBVIOUS
  <2>11. h = [j \in ObjIds |-> IF j = f THEN n ELSE IF j = i THEN o ELSE heap[j]]
    BY <2>3, <2>4, <2>6, <2>10 DEF BaseInv, StoreOK
  <2>12. Step(c, m, h, queue, new)
    BY <1>3, <1>9, <2>1, <2>6, <2>7, <2>8, <2>10 DEF ChangeRegress
  <2>13. \A j \in ObjIds : heap[j] # NoObj => h[j] # NoObj
    BY <2>3, <2>5, <2>6, <2>9, <2>11
  <2>14. StoreOK(m, h, queue)
    <3>1. m \in [Keys -> Pointers]
      BY <2>7 DEF BaseInv, StoreOK, Pointers
    <3>2. h = [j \in ObjIds |-> h[j]] /\ \A j \in ObjIds : h[j] = NoObj \/ IsObject(h[j])
      BY <2>5, <2>9, <2>11 DEF BaseInv, StoreOK
    <3>3. h[f] # NoObj
      BY <2>9, <2>11
    <3>4. \A k \in Keys : m[k] # 0 => h[m[k]] # NoObj
      BY <2>7, <2>13, <3>3, PointerFacts DEF BaseInv, StoreOK
    <3>5. \A j \in DOMAIN queue : QueuedOK(queue[j]) /\ (queue[j].ptr # 0 => h[queue[j].ptr] # NoObj)
      BY <2>13, PointerFacts DEF BaseInv, StoreOK, QueuedOK
    <3> QED
      BY <3>1, <3>2, <3>4, <3>5 DEF BaseInv, StoreOK
  <2> QED
    BY <2>2, <2>3, <2>12, <2>13, <2>14, StepKeeps
<1>10. CASE Panic(e)
  BY <1>10 DEF Panic, End, BaseInv, StoreOK
<1> QED
  BY <1>1, <1>5, <1>6, <1>7, <1>8, <1>9, <1>10 DEF Decide

LEMMA EndKeeps == ASSUME BaseInv, End PROVE BaseInv'
BY DEF End, BaseInv, StoreOK

LEMMA DeleteKeeps ==
    ASSUME BaseInv, NEW c \in Clients, DeleteKey(c)
    PROVE  BaseInv'
<1>1. cl[c].pc # "idle" /\ cl[c].op # "EXISTS" /\ cl[c].key \in Keys
  BY DEF DeleteKey, BaseInv, ClientOK, Asked
<1>2. PICK new : new = IF mem[cl[c].key] = 0 THEN IdleClient ELSE Logging(c, Deletion, Empty)
  OBVIOUS
<1>3. IsClient(new) /\ ClientOK(new) /\ new.ptr = 0
  BY <1>1, <1>2, IdleFacts, EntryFacts, LoggingFacts DEF LoggingOK
<1> QED
  BY <1>1, <1>2, <1>3, RemoveKeeps DEF DeleteKey

(* y is x, but for what is said here.                                      *)
Moved(x, y, pc, ptr, todo, acc) ==
    /\ IsClient(y)
    /\ y.pc = pc /\ y.ptr = ptr /\ y.todo = todo /\ y.acc = acc
    /\ y.op = x.op /\ y.key = x.key /\ y.args = x.args /\ y.out = x.out /\ y.entry = x.entry
    /\ y.ever = x.ever /\ y.always = x.always

LEMMA MovedFacts ==
    ASSUME NEW x, IsClient(x), NEW pc \in Pcs, NEW ptr \in Pointers, NEW todo, NEW acc
    PROVE  /\ Moved(x, [x EXCEPT !.pc = pc], pc, x.ptr, x.todo, x.acc)
           /\ Moved(x, [x EXCEPT !.todo = todo], x.pc, x.ptr, todo, x.acc)
           /\ Moved(x, [x EXCEPT !.todo = todo, !.acc = acc], x.pc, x.ptr, todo, acc)
           /\ Moved(x, [x EXCEPT !.pc = pc, !.todo = todo, !.acc = acc], pc, x.ptr, todo, acc)
           /\ Moved(x, [x EXCEPT !.pc = pc, !.ptr = ptr, !.acc = acc, !.todo = todo], pc, ptr, todo, acc)
<1>1. \A y : \A p \in Pcs : IsClient(y) => Moved(y, [y EXCEPT !.pc = p], p, y.ptr, y.todo, y.acc)
  BY DEF Moved, IsClient
<1>2. \A y, t : IsClient(y) => Moved(y, [y EXCEPT !.todo = t], y.pc, y.ptr, t, y.acc)
  BY DEF Moved, IsClient
<1>3. \A y, a : IsClient(y) => Moved(y, [y EXCEPT !.acc = a], y.pc, y.ptr, y.todo, a)
  BY DEF Moved, IsClient
<1>4. \A y : \A p \in Pointers : IsClient(y) => Moved(y, [y EXCEPT !.ptr = p], y.pc, p, y.todo, y.acc)
  BY DEF Moved, IsClient
<1>5. PICK x1 : x1 = [x EXCEPT !.todo = todo]
  OBVIOUS
<1>6. PICK x2 : x2 = [x1 EXCEPT !.acc = acc]
  OBVIOUS
<1>7. PICK x3 : x3 = [x2 EXCEPT !.pc = pc]
  OBVIOUS
<1>8. PICK x4 : x4 = [x3 EXCEPT !.ptr = ptr]
  OBVIOUS
<1>9. [x EXCEPT !.todo = todo, !.acc = acc] = x2
  BY <1>5, <1>6 DEF IsClient
<1>10. [x EXCEPT !.pc = pc, !.todo = todo, !.acc = acc] = x3
  BY <1>5, <1>6, <1>7 DEF IsClient
<1>11. [x EXCEPT !.pc = pc, !.ptr = ptr, !.acc = acc, !.todo = todo] = x4
  BY <1>5, <1>6, <1>7, <1>8 DEF IsClient
<1>12. Moved(x, x1, x.pc, x.ptr, todo, x.acc)
  BY <1>2, <1>5
<1>13. Moved(x, x2, x.pc, x.ptr, todo, acc)
  BY <1>3, <1>6, <1>12 DEF Moved
<1>14. Moved(x, x3, pc, x.ptr, todo, acc)
  BY <1>1, <1>7, <1>13 DEF Moved
<1>15. Moved(x, x4, pc, ptr, todo, acc)
  BY <1>4, <1>8, <1>14 DEF Moved
<1> QED
  BY <1>1, <1>5, <1>9, <1>10, <1>11, <1>12, <1>13, <1>14, <1>15

LEMMA CSetKeeps ==
    ASSUME BaseInv, NEW c \in Clients
    PROVE  /\ CSetClear(c) => BaseInv'
           /\ CSetFill(c) => BaseInv'
<1>1. PICK x : x = cl[c]
  OBVIOUS
<1>2. IsClient(x) /\ ClientOK(x)
  BY <1>1 DEF BaseInv
<1>3. ASSUME CSetFill(c) PROVE BaseInv'
  <2>1. x.pc = "emptied" /\ x.op = "MAP.CSET" /\ Asked(x)
    BY <1>1, <1>2, <1>3 DEF CSetFill, ClientOK
  <2>2. PICK v : v = AddNestedKey(Null, x.args[1].path, EnsureUnmarshal(x.args[2]))
    OBVIOUS
  <2>3. Bind(c, v, "Map", Empty)
    BY <1>1, <1>3, <2>2 DEF CSetFill
  <2>4. Good(v, "Map")
    <3>1. IsSequence(x.args[1].path) /\ x.args[1].path # <<>>
      BY <2>1, ArgFacts DEF Asked, IsPath
    <3>2. \E f : v = Obj(f) /\ DOMAIN f # {}
      BY <2>2, <3>1, AddFacts
    <3> QED
      BY <3>2, MadeFacts DEF Good, Shaped, Kinds
  <2> QED
    BY <1>1, <2>1, <2>3, <2>4, BindKeeps
<1>4. ASSUME CSetClear(c) PROVE BaseInv'
  <2>1. x.pc = "found" /\ x.op = "MAP.CSET" /\ Asked(x) /\ x.key \in Keys
    BY <1>1, <1>2, <1>4 DEF CSetClear, ClientOK, Asked
  <2>2. CASE NoField(x.args[1].path)
    BY <1>1, <1>4, <2>2, EndKeeps DEF CSetClear
  <2>3. CASE ~NoField(x.args[1].path)
    <3>1. PICK new : new = [x EXCEPT !.pc = "emptied"]
      OBVIOUS
    <3>2. Step(c, [mem EXCEPT ![cl[c].key] = 0], heap, queue, new)
      BY <1>1, <1>4, <2>3, <3>1 DEF CSetClear
    <3>3. Moved(x, new, "emptied", x.ptr, x.todo, x.acc)
      BY <1>2, <3>1, MovedFacts DEF Pcs, IsClient
    <3>4. IsClient(new) /\ ClientOK(new) /\ new.ptr = x.ptr
      BY <2>1, <3>3 DEF Moved, ClientOK, Asked
    <3> QED
      BY <1>1, <2>1, <3>2, <3>4, RemoveKeeps DEF BaseInv
  <2> QED
    BY <2>2, <2>3
<1> QED
  BY <1>3, <1>4

LEMMA ExpireKeeps ==
    ASSUME BaseInv, NEW c \in Clients
    PROVE  /\ ExpireDate(c) => BaseInv'
           /\ ExpireFetch(c) => BaseInv'
<1>1. PICK x : x = cl[c]
  OBVIOUS
<1>2. IsClient(x) /\ ClientOK(x) /\ (x.ptr # 0 => heap[x.ptr] # NoObj)
  BY <1>1 DEF BaseInv
<1>3. PICK i : i = mem[x.key]
  OBVIOUS
<1>4. ASSUME x.key \in Keys PROVE i \in Pointers /\ (i # 0 => i \in ObjIds /\ heap[i] # NoObj /\ IsObject(heap[i]))
  BY <1>3, <1>4, PointerFacts DEF BaseInv, StoreOK
<1>5. Think(c, IdleClient) => BaseInv'
  BY IdleFacts, ThinkKeeps
<1>6. ASSUME ExpireDate(c) PROVE BaseInv'
  <2>1. x.pc = "found" /\ x.op = "TTL.EXPIRE" /\ Asked(x) /\ x.key \in Keys
    BY <1>1, <1>2, <1>6 DEF ExpireDate, ClientOK, Asked
  <2>2. PICK d \in {0, 1} : d = IF x.args[1].num > 0 THEN 1 ELSE 0
    OBVIOUS
  <2>3. CASE ~Is(x.args[1], "num") \/ i = 0
    BY <1>1, <1>3, <1>5, <1>6, <2>3 DEF ExpireDate
  <2>4. CASE Is(x.args[1], "num") /\ i # 0
    <3>1. PICK new : new = [x EXCEPT !.pc = "dated"]
      OBVIOUS
    <3>2. PICK o : o = [heap[i] EXCEPT !.exp = d]
      OBVIOUS
    <3>3. Step(c, mem, [heap EXCEPT ![i] = o], queue, new)
      BY <1>1, <1>3, <1>6, <2>2, <2>4, <3>1, <3>2 DEF ExpireDate
    <3>4. IsObject(o)
      BY <1>4, <2>1, <2>4, <3>2 DEF IsObject
    <3>5. Moved(x, new, "dated", x.ptr, x.todo, x.acc)
      BY <1>2, <3>1, MovedFacts DEF Pcs, IsClient
    <3>6. IsClient(new) /\ ClientOK(new) /\ new.ptr = x.ptr
      BY <2>1, <3>5 DEF Moved, ClientOK, Asked
    <3> QED
      BY <1>2, <1>4, <2>1, <2>4, <3>3, <3>4, <3>6, AlterKeeps
  <2> QED
    BY <2>3, <2>4
<1>7. ASSUME ExpireFetch(c) PROVE BaseInv'
  <2>1. x.pc = "dated" /\ x.op = "TTL.EXPIRE" /\ x.key \in Keys
    BY <1>1, <1>2, <1>7 DEF ExpireFetch, ClientOK, Asked
  <2>2. CASE i = 0
    BY <1>1, <1>3, <1>5, <1>7, <2>2 DEF ExpireFetch
  <2>3. CASE i # 0
    <3>1. PICK new : new = Logging(c, ByPointer(i), Num(1))
      OBVIOUS
    <3>2. Think(c, new)
      BY <1>1, <1>3, <1>7, <2>3, <3>1 DEF ExpireFetch
    <3>3. IsClient(new) /\ ClientOK(new) /\ new.ptr = i
      BY <1>1, <1>4, <2>1, <3>1, EntryFacts, LoggingFacts DEF LoggingOK
    <3> QED
      BY <1>4, <2>1, <3>2, <3>3, ThinkKeeps
  <2> QED
    BY <2>2, <2>3
<1> QED
  BY <1>6, <1>7

LEMMA ScanKeeps ==
    ASSUME BaseInv, NEW c \in Clients
    PROVE  /\ ExistsStep(c) => BaseInv'
           /\ ScanEnd(c) => BaseInv'
           /\ RefsStart(c) => BaseInv'
           /\ RefsStep(c) => BaseInv'
           /\ RefsStore(c) => BaseInv'
<1>1. PICK x : x = cl[c]
  OBVIOUS
<1>2. IsClient(x) /\ ClientOK(x) /\ x.ptr \in Pointers /\ (x.ptr # 0 => heap[x.ptr] # NoObj)
  BY <1>1 DEF BaseInv, IsClient
<1>3. Think(c, IdleClient) => BaseInv'
  BY IdleFacts, ThinkKeeps
<1>4. ASSUME ExistsStep(c) PROVE BaseInv'
  <2>1. x.pc = "scan" /\ x.op = "EXISTS" /\ Asked(x)
    BY <1>1, <1>2, <1>4 DEF ExistsStep, ClientOK
  <2>2. PICK todo : todo = Tail(x.todo)
    OBVIOUS
  <2>3. PICK acc : acc = Num(Wrap(x.acc.num + (IF Lookup(Head(x.todo)) = 0 THEN 0 ELSE 1)))
    OBVIOUS
  <2>4. PICK new : new = [x EXCEPT !.todo = todo, !.acc = acc]
    OBVIOUS
  <2>5. Think(c, new)
    BY <1>1, <1>4, <2>2, <2>3, <2>4 DEF ExistsStep
  <2>6. Moved(x, new, x.pc, x.ptr, todo, acc)
    BY <1>2, <2>4, MovedFacts DEF Pcs, IsClient
  <2>7. IsClient(new) /\ ClientOK(new) /\ new.ptr = x.ptr
    BY <2>1, <2>6 DEF Moved, ClientOK, Asked
  <2> QED
    BY <1>2, <2>5, <2>7, ThinkKeeps
<1>5. ASSUME ScanEnd(c) PROVE BaseInv'
  BY <1>3, <1>5 DEF ScanEnd
<1>6. ASSUME RefsStart(c) PROVE BaseInv'
  <2>1. x.pc = "found" /\ x.op = "JSON.SETREF" /\ Asked(x)
    BY <1>1, <1>2, <1>6 DEF RefsStart, ClientOK
  <2>2. CASE ~IsMap(x.args[1]) \/ ~Is(x.args[2], "refs")
    BY <1>1, <1>3, <1>6, <2>2 DEF RefsStart
  <2>3. CASE IsMap(x.args[1]) /\ Is(x.args[2], "refs")
    <3>1. PICK refs : refs = x.args[2].refs /\ IsFiniteSet(refs)
      BY <2>1, ArgFacts, <2>3 DEF Asked, AreRefs
    <3>2. PICK todo \in SetToSeqs(refs) : Think(c, [x EXCEPT !.pc = "scan", !.todo = todo, !.acc = x.args[1]])
      BY <1>1, <1>6, <2>3, <3>1 DEF RefsStart
    <3>3. todo \in Seq(refs)
      BY <3>1, FS_CardinalityType DEF SetToSeqs
    <3>4. PICK acc : acc = x.args[1]
      OBVIOUS
    <3>5. PICK new : new = [x EXCEPT !.pc = "scan", !.todo = todo, !.acc = acc]
      OBVIOUS
    <3>6. Think(c, new)
      BY <3>2, <3>4, <3>5
    <3>7. Moved(x, new, "scan", x.ptr, todo, acc)
      BY <1>2, <3>5, MovedFacts DEF Pcs, IsClient
    <3>8. IsValue(acc) /\ IsJson(acc)
      BY <2>1, <2>3, <3>4, ArgFacts, ValueFacts DEF Asked, IsMap, IsJson
    <3>9. IsClient(new) /\ ClientOK(new) /\ new.ptr = x.ptr
      BY <2>1, <2>3, <3>1, <3>3, <3>7, <3>8 DEF Moved, ClientOK, Asked
    <3> QED
      BY <1>2, <3>6, <3>9, ThinkKeeps
  <2> QED
    BY <2>2, <2>3
<1>7. ASSUME RefsStep(c) PROVE BaseInv'
  <2>1. x.pc = "scan" /\ x.op = "JSON.SETREF" /\ Asked(x) /\ IsValue(x.acc) /\ IsJson(x.acc)
        /\ Is(x.args[2], "refs") /\ x.todo \in Seq(x.args[2].refs) /\ x.todo # <<>>
    BY <1>1, <1>2, <1>7 DEF RefsStep, ClientOK
  <2>2. PICK r : r = Head(x.todo)
    OBVIOUS
  <2>3. CASE job.strict /\ Lookup(r.key) = 0
    BY <1>1, <1>3, <1>7, <2>2, <2>3 DEF RefsStep
  <2>4. CASE ~(job.strict /\ Lookup(r.key) = 0)
    <3>1. PICK todo : todo = Tail(x.todo)
      OBVIOUS
    <3>2. PICK acc : acc = IF Is(x.acc, "null") \/ Blocked(x.acc, r.path) THEN x.acc
                           ELSE AddNestedKey(x.acc, r.path, Ref(r.key))
      OBVIOUS
    <3>3. PICK new : new = [x EXCEPT !.todo = todo, !.acc = acc]
      OBVIOUS
    <3>4. Think(c, new)
      BY <1>1, <1>7, <2>2, <2>4, <3>1, <3>2, <3>3 DEF RefsStep
    <3>5. Moved(x, new, x.pc, x.ptr, todo, acc)
      BY <1>2, <3>3, MovedFacts DEF Pcs, IsClient
    <3>6. IsValue(acc) /\ IsJson(acc)
      <4>1. IsSequence(r.path) /\ r.path # <<>>
        BY <2>1, <2>2, ArgFacts DEF Asked, AreRefs, IsPath
      <4>2. \E f : AddNestedKey(x.acc, r.path, Ref(r.key)) = Obj(f)
        BY <4>1, AddFacts
      <4> QED
        BY <2>1, <3>2, <4>2, MadeFacts
    <3>7. todo \in Seq(x.args[2].refs)
      <4>1. \A S : \A t \in Seq(S) : t # <<>> => Tail(t) \in Seq(S)
        OBVIOUS
      <4> QED
        BY <2>1, <3>1, <4>1
    <3>8. IsClient(new) /\ ClientOK(new) /\ new.ptr = x.ptr
      BY <2>1, <3>5, <3>6, <3>7 DEF Moved, ClientOK, Asked
    <3> QED
      BY <1>2, <3>4, <3>8, ThinkKeeps
  <2> QED
    BY <2>3, <2>4
<1>8. ASSUME RefsStore(c) PROVE BaseInv'
  <2>1. x.pc = "scan" /\ x.op = "JSON.SETREF" /\ IsValue(x.acc) /\ IsJson(x.acc)
    BY <1>1, <1>2, <1>8 DEF RefsStore, ClientOK
  <2>2. Good(x.acc, "JSON")
    BY <2>1 DEF Good, Shaped, Kinds
  <2> QED
    BY <1>1, <1>8, <2>1, <2>2, BindKeeps DEF RefsStore
<1> QED
  BY <1>4, <1>5, <1>6, <1>7, <1>8

LEMMA GetRefsKeeps ==
    ASSUME BaseInv, NEW c \in Clients
    PROVE  /\ GetRefsStart(c) => BaseInv'
           /\ GetRefsStep(c) => BaseInv'
<1>1. PICK x : x = cl[c]
  OBVIOUS
<1>2. IsClient(x) /\ ClientOK(x) /\ x.ptr \in Pointers /\ (x.ptr # 0 => heap[x.ptr] # NoObj)
  BY <1>1 DEF BaseInv, IsClient
<1>3. Think(c, IdleClient) => BaseInv'
  BY IdleFacts, ThinkKeeps
<1>4. ASSUME GetRefsStart(c) PROVE BaseInv'
  <2>1. x.pc = "found" /\ x.op = "JSON.GET" /\ Asked(x)
    BY <1>1, <1>2, <1>4 DEF GetRefsStart, ClientOK
  <2>2. PICK todo, acc : todo = Tail(x.args) /\ acc = Object(x.ptr).val
    OBVIOUS
  <2>3. PICK new : new = [x EXCEPT !.pc = "scan", !.ptr = 0, !.acc = acc, !.todo = todo]
    OBVIOUS
  <2>4. Think(c, IdleClient) \/ Think(c, new)
    BY <1>1, <1>4, <2>2, <2>3 DEF GetRefsStart
  <2>5. Moved(x, new, "scan", 0, todo, acc)
    BY <1>2, <2>3, MovedFacts DEF Pcs, Pointers
  <2>6. IsClient(new) /\ ClientOK(new) /\ new.ptr = 0
    BY <2>1, <2>5 DEF Moved, ClientOK, Asked
  <2> QED
    BY <1>3, <2>4, <2>6, ThinkKeeps
<1>5. ASSUME GetRefsStep(c) PROVE BaseInv'
  <2>1. x.pc = "scan" /\ x.op = "JSON.GET" /\ Asked(x)
    BY <1>1, <1>2, <1>5 DEF GetRefsStep, ClientOK
  <2>2. PICK v : v = Resolved(x.acc, Head(x.todo).path)
    OBVIOUS
  <2>3. PICK todo : todo = Tail(x.todo)
    OBVIOUS
  <2>4. PICK new : new = IF Is(v, "missing") THEN [x EXCEPT !.todo = <<>>]
                         ELSE [x EXCEPT !.todo = todo, !.acc = v]
    OBVIOUS
  <2>5. Think(c, new)
    BY <1>1, <1>5, <2>2, <2>3, <2>4 DEF GetRefsStep
  <2>6. \E t, a : Moved(x, new, x.pc, x.ptr, t, a)
    BY <1>2, <2>4, MovedFacts DEF Pcs, IsClient
  <2>7. IsClient(new) /\ ClientOK(new) /\ new.ptr = x.ptr
    BY <2>1, <2>6 DEF Moved, ClientOK, Asked
  <2> QED
    BY <1>2, <2>5, <2>7, ThinkKeeps
<1> QED
  BY <1>4, <1>5

LEMMA AppendFacts ==
    ASSUME NEW s, IsSequence(s), NEW x
    PROVE  /\ IsSequence(Append(s, x)) /\ Len(Append(s, x)) = Len(s) + 1
           /\ Append(s, x)[Len(s) + 1] = x
           /\ \A i \in DOMAIN s : Append(s, x)[i] = s[i]
           /\ \A i \in DOMAIN Append(s, x) : i \in DOMAIN s \/ i = Len(s) + 1
           /\ \A i \in DOMAIN Append(s, x) : Append(s, x)[i] = x \/ \E j \in DOMAIN s : Append(s, x)[i] = s[j]
<1>1. PICK S : S = Range(s) \cup {x}
  OBVIOUS
<1>2. s \in Seq(S) /\ x \in S
  BY <1>1 DEF IsSequence
<1>3. PICK t : t = Append(s, x)
  OBVIOUS
<1>4. /\ t \in Seq(S) /\ Len(t) = Len(s) + 1 /\ Len(s) \in Nat
      /\ DOMAIN t = 1 .. Len(s) + 1 /\ DOMAIN s = 1 .. Len(s)
      /\ \A i \in 1 .. Len(s) : t[i] = s[i]
      /\ t[Len(s) + 1] = x
  BY <1>2, <1>3
<1>5. IsSequence(t)
  BY <1>4, SequenceFacts
<1>6. \A i \in DOMAIN t : i \in DOMAIN s \/ i = Len(s) + 1
  BY <1>4
<1> QED
  BY <1>3, <1>4, <1>5, <1>6

LEMMA TailFacts ==
    ASSUME NEW s, IsSequence(s), s # <<>>
    PROVE  /\ IsSequence(Tail(s)) /\ Len(Tail(s)) = Len(s) - 1
           /\ \A i \in DOMAIN Tail(s) : i + 1 \in DOMAIN s /\ Tail(s)[i] = s[i + 1]
           /\ \A i \in DOMAIN Tail(s) : \E j \in DOMAIN s : Tail(s)[i] = s[j]
           /\ Head(s) = s[1] /\ 1 \in DOMAIN s
<1>1. PICK S : s \in Seq(S)
  BY DEF IsSequence
<1>2. PICK t : t = Tail(s)
  OBVIOUS
<1>3. /\ t \in Seq(S) /\ Len(t) = Len(s) - 1 /\ Len(s) \in Nat \ {0}
      /\ DOMAIN t = 1 .. Len(s) - 1 /\ DOMAIN s = 1 .. Len(s)
      /\ \A i \in 1 .. Len(s) - 1 : t[i] = s[i + 1]
      /\ Head(s) = s[1]
  BY <1>1, <1>2
<1>4. IsSequence(t)
  BY <1>3, SequenceFacts
<1>5. \A i \in DOMAIN t : i + 1 \in DOMAIN s
  BY <1>3
<1> QED
  BY <1>2, <1>3, <1>4, <1>5

LEMMA LogKeeps ==
    ASSUME BaseInv
    PROVE  /\ \A c \in Clients : LogPut(c) => BaseInv'
           /\ LogTake => BaseInv'
           /\ \A c \in Clients : LogRefused(c) \/ LogTakeTorn(c) \/ LogDrop(c) => BaseInv'
<1>1. IsSequence(queue) /\ Len(queue) <= QueueSize /\ Len(queue) \in Nat
  BY SequenceFacts DEF BaseInv, StoreOK
<1>2. ASSUME NEW c \in Clients, LogPut(c) PROVE BaseInv'
  <2>1. PICK x : x = cl[c]
    OBVIOUS
  <2>2. x.pc = "logging" /\ IsClient(x) /\ ClientOK(x) /\ (x.ptr # 0 => heap[x.ptr] # NoObj)
    BY <1>2, <2>1 DEF LogPut, BaseInv
  <2>3. x.key \in Keys /\ IsEntry(x.entry) /\ x.entry.ptr = x.ptr
    BY <2>2 DEF ClientOK, Asked, IsEntry
  <2>4. PICK e : e = Queued(x.key, x.entry)
    OBVIOUS
  <2>5. QueuedOK(e) /\ e.ptr = x.ptr
    BY <2>2, <2>3, <2>4 DEF QueuedOK, IsClient, Queued
  <2>6. PICK q : q = Append(queue, e)
    OBVIOUS
  <2>7. Step(c, mem, heap, q, IdleClient) /\ Len(queue) < QueueSize
    BY <1>2, <2>1, <2>4, <2>6 DEF LogPut
  <2>8. /\ IsSequence(q) /\ Len(q) = Len(queue) + 1
        /\ \A i \in DOMAIN q : q[i] = e \/ \E j \in DOMAIN queue : q[i] = queue[j]
    BY <1>1, <2>6, AppendFacts
  <2>9. Len(q) <= QueueSize
    BY <1>1, <2>7, <2>8, CommandsAssumption
  <2>10. StoreOK(mem, heap, q)
    <3>1. StoreOK(mem, heap, queue)
      BY DEF BaseInv
    <3>2. ASSUME NEW i \in DOMAIN q
          PROVE  QueuedOK(q[i]) /\ (q[i].ptr # 0 => heap[q[i].ptr] # NoObj)
      BY <2>2, <2>5, <2>8, <3>1 DEF StoreOK
    <3> QED
      BY <2>8, <2>9, <3>1, <3>2 DEF StoreOK
  <2> QED
    BY <2>7, <2>10, IdleFacts, StepKeeps
<1>3. ASSUME LogTake \/ \E c \in Clients : LogTakeTorn(c) \/ LogDrop(c) PROVE BaseInv'
  <2>1. /\ queue # <<>> /\ queue' = Tail(queue) /\ UNCHANGED <<job, mem, heap, cl, dead>>
        /\ DOMAIN logged' = DOMAIN logged
    BY <1>3 DEF LogTake, LogTakeTorn, LogDrop
  <2>2. PICK q : q = Tail(queue)
    OBVIOUS
  <2>3. /\ IsSequence(q) /\ Len(q) = Len(queue) - 1
        /\ \A i \in DOMAIN q : \E j \in DOMAIN queue : q[i] = queue[j]
    BY <1>1, <2>1, <2>2, TailFacts
  <2>4. Len(q) <= QueueSize
    BY <1>1, <2>3, CommandsAssumption
  <2>5. StoreOK(mem, heap, q)
    <3>1. StoreOK(mem, heap, queue)
      BY DEF BaseInv
    <3>2. \A j \in DOMAIN queue : QueuedOK(queue[j]) /\ (queue[j].ptr # 0 => heap[queue[j].ptr] # NoObj)
      BY <3>1 DEF StoreOK
    <3>3. ASSUME NEW i \in DOMAIN q
          PROVE  QueuedOK(q[i]) /\ (q[i].ptr # 0 => heap[q[i].ptr] # NoObj)
      <4>1. PICK j \in DOMAIN queue : q[i] = queue[j]
        BY <2>3
      <4> QED
        BY <3>2, <4>1
    <3> QED
      BY <2>3, <2>4, <3>1, <3>3 DEF StoreOK
  <2> QED
    BY <2>1, <2>2, <2>5 DEF BaseInv, StoreOK
<1>4. ASSUME NEW c \in Clients, LogRefused(c) PROVE BaseInv'
  BY <1>4, IdleFacts, ThinkKeeps DEF LogRefused
<1> QED
  BY <1>2, <1>3, <1>4

LEMMA MoveKeeps ==
    ASSUME BaseInv, NEW c \in Clients, Move(c)
    PROVE  BaseInv'
<1>1. CASE Decide(c)
  BY <1>1, DecideKeeps
<1>2. CASE DeleteKey(c)
  BY <1>2, DeleteKeeps
<1>3. CASE CSetClear(c) \/ CSetFill(c)
  BY <1>3, CSetKeeps
<1>4. CASE ExpireDate(c) \/ ExpireFetch(c)
  BY <1>4, ExpireKeeps
<1>5. CASE ExistsStep(c) \/ ScanEnd(c) \/ RefsStart(c) \/ RefsStep(c) \/ RefsStore(c)
  BY <1>5, ScanKeeps
<1>6. CASE GetRefsStart(c) \/ GetRefsStep(c)
  BY <1>6, GetRefsKeeps
<1>7. CASE LogPut(c) \/ LogRefused(c)
  BY <1>7, LogKeeps
<1> QED
  BY <1>1, <1>2, <1>3, <1>4, <1>5, <1>6, <1>7 DEF Move

LEMMA InitBase == Init => BaseInv
<1> SUFFICES ASSUME Init PROVE BaseInv
  OBVIOUS
<1>1. StoreOK(mem, heap, queue)
  BY CommandsAssumption, SequenceFacts DEF Init, StoreOK, Pointers
<1>2. \A c \in Clients : cl[c] = IdleClient
  BY DEF Init
<1> QED
  BY <1>1, <1>2, IdleFacts DEF Init, BaseInv

LEMMA NextBase == BaseInv /\ [Next]_vars => BaseInv'
<1> SUFFICES ASSUME BaseInv, [Next]_vars PROVE BaseInv'
  OBVIOUS
<1>1. CASE LogTake
  BY <1>1, LogKeeps
<1>2. ASSUME NEW c \in Clients, Invoke(c) PROVE BaseInv'
  BY <1>2, ReceiveKeeps
<1>3. ASSUME NEW c \in Clients, Move(c) PROVE BaseInv'
  BY <1>3, MoveKeeps
<1>4. ASSUME NEW c \in Clients, LogTakeTorn(c) \/ LogDrop(c) PROVE BaseInv'
  BY <1>4, LogKeeps
<1>5. CASE UNCHANGED vars
  BY <1>5 DEF vars, BaseInv, StoreOK
<1> QED
  BY <1>1, <1>2, <1>3, <1>4, <1>5 DEF Next

(* No sequence of commands leaves a value its kind does not allow.         *)
THEOREM ShapesHold == Spec => []KindsHoldTheirShape
<1>1. BaseInv => KindsHoldTheirShape
  <2> SUFFICES ASSUME BaseInv PROVE KindsHoldTheirShape
    OBVIOUS
  <2>1. \A i \in ObjIds : heap[i] = NoObj \/ (heap[i].kind \in Kinds /\ heap[i].exp \in {0, 1} /\ Shaped(heap[i].val, heap[i].kind))
    BY ObjectFacts DEF BaseInv, StoreOK
  <2>2. \A i \in DOMAIN queue : queue[i].key \in Keys /\ (queue[i].ptr = 0 \/ heap[queue[i].ptr] # NoObj)
    BY DEF BaseInv, StoreOK, QueuedOK
  <2>3. \A c \in Clients : cl[c].pc \in Pcs
    BY DEF BaseInv, IsClient
  <2>4. TypeOK
    BY <2>1, <2>2, <2>3 DEF BaseInv, StoreOK, TypeOK, Pointers, Pcs
  <2>5. \A k \in Keys : mem[k] # 0 => mem[k] \in ObjIds /\ heap[mem[k]] # NoObj
    BY PointerFacts DEF BaseInv, StoreOK
  <2> QED
    BY <2>1, <2>4, <2>5 DEF KindsHoldTheirShape
<1> QED
  BY <1>1, InitBase, NextBase, PTL DEF Spec

-----------------------------------------------------------------------------
(* The process ends only where the code forgets a case: the client that    *)
(* made it end stays as it was when it did.                                *)
Lapse(c) == Forgotten(cl[c].op, Object(cl[c].ptr), cl[c].args)

LEMMA EndsByLapse ==
    ASSUME BaseInv, [Next]_vars, dead'
    PROVE  UNCHANGED <<cl, heap>> /\ (dead \/ \E c \in Clients : Lapse(c))
<1>1. \A c \in Clients : \A new : Think(c, new) => ~dead'
  BY DEF Think, Step, BaseInv
<1>2. ASSUME NEW c \in Clients, Decide(c) PROVE UNCHANGED <<cl, heap>> /\ Lapse(c)
  <2>1. PICK e : e = Effect(c)
    OBVIOUS
  <2>2. Plain(c)
    BY <1>2 DEF Decide
  <2>3. Panic(e)
    BY <1>1, <1>2, <2>1 DEF Decide, Reply, ChangeSet, Bind, ChangeDelete, ChangeInPlace, ChangeRegress, Step
  <2>4. EffectOK(e, cl[c].op, Object(cl[c].ptr), cl[c].args)
    BY <2>1, <2>2, FoundFacts
  <2> QED
    BY <2>3, <2>4 DEF Panic, End, EffectOK, Lapse
<1>3. ASSUME NEW c \in Clients, CSetClear(c) PROVE UNCHANGED <<cl, heap>> /\ Lapse(c)
  <2>1. NoField(cl[c].args[1].path) /\ End
    BY <1>3 DEF CSetClear, Step
  <2>2. cl[c].op = "MAP.CSET" /\ cl[c].args # <<>>
    BY <1>3, ArgFacts DEF CSetClear, BaseInv, ClientOK, Asked
  <2> QED
    BY <2>1, <2>2 DEF End, Lapse, Forgotten
<1>4. ASSUME NEW c \in Clients,
             \/ DeleteKey(c) \/ CSetFill(c) \/ ExpireDate(c) \/ ExpireFetch(c)
             \/ ExistsStep(c) \/ ScanEnd(c) \/ RefsStart(c) \/ RefsStep(c) \/ RefsStore(c)
             \/ GetRefsStart(c) \/ GetRefsStep(c) \/ LogPut(c) \/ LogRefused(c)
             \/ LogTakeTorn(c) \/ LogDrop(c) \/ Invoke(c)
      PROVE  FALSE
  <2>1. CASE DeleteKey(c) \/ CSetFill(c) \/ ExpireDate(c) \/ RefsStore(c) \/ LogPut(c)
    BY <1>1, <2>1 DEF DeleteKey, CSetFill, ExpireDate, RefsStore, LogPut, Bind, Step
  <2>4. CASE LogRefused(c) \/ LogTakeTorn(c) \/ LogDrop(c)
    BY <1>1, <2>4 DEF LogRefused, LogTakeTorn, LogDrop
  <2>2. CASE ExpireFetch(c) \/ ExistsStep(c) \/ ScanEnd(c) \/ RefsStart(c) \/ RefsStep(c)
    BY <1>1, <2>2 DEF ExpireFetch, ExistsStep, ScanEnd, RefsStart, RefsStep
  <2>3. CASE GetRefsStart(c) \/ GetRefsStep(c) \/ Invoke(c)
    BY <1>1, <2>3 DEF GetRefsStart, GetRefsStep, Invoke, Receive
  <2> QED
    BY <1>4, <2>1, <2>2, <2>3, <2>4
<1>5. CASE LogTake
  BY <1>5 DEF LogTake
<1>6. CASE UNCHANGED vars
  BY <1>6 DEF vars
<1> QED
  BY <1>2, <1>3, <1>4, <1>5, <1>6 DEF Next, Move

THEOREM PanicsKnown == Spec => []PanicsAreKnown
<1> DEFINE Inv == BaseInv /\ (dead => \E c \in Clients : Lapse(c))
<1>1. Init => Inv
  BY InitBase DEF Init
<1>2. Inv /\ [Next]_vars => Inv'
  <2> SUFFICES ASSUME Inv, [Next]_vars PROVE Inv'
    OBVIOUS
  <2>1. BaseInv'
    BY NextBase
  <2>2. ASSUME dead' PROVE \E c \in Clients : Lapse(c)'
    <3>1. UNCHANGED <<cl, heap>> /\ \E c \in Clients : Lapse(c)
      BY <2>2, EndsByLapse
    <3> QED
      BY <3>1 DEF Lapse, Object
  <2> QED
    BY <2>1, <2>2
<1>3. Inv => PanicsAreKnown
  <2> SUFFICES ASSUME Inv, dead PROVE PanicsAreKnown
    BY DEF PanicsAreKnown
  <2>1. PICK c \in Clients : Lapse(c)
    OBVIOUS
  <2>2. Object(cl[c].ptr) = NoObj <=> cl[c].ptr = 0
    BY DEF Object, BaseInv
  <2> QED
    BY <2>1, <2>2 DEF PanicsAreKnown, Lapse, Forgotten
<1> QED
  BY <1>1, <1>2, <1>3, PTL DEF Spec

-----------------------------------------------------------------------------
(* Scans.  Counting, and counting in a few bits.                           *)

Width == 2 ^ CountBits

LEMMA DivFacts ==
    ASSUME NEW a \in Int, NEW w \in Nat \ {0}
    PROVE  a = w * (a \div w) + (a % w) /\ a % w \in 0 .. w - 1 /\ a \div w \in Int
OBVIOUS

LEMMA MultipleFacts ==
    ASSUME NEW j \in Int, NEW w \in Nat \ {0}
    PROVE  (j * w) % w = 0
<1>1. PICK a \in Int : a = j * w
  OBVIOUS
<1>2. PICK q \in Int, r \in 0 .. w - 1 : a = w * q + r /\ r = a % w
  BY DivFacts
<1>3. PICK d \in Int : d = j - q
  OBVIOUS
<1>4. r = w * d
  BY <1>1, <1>2, <1>3
<1>5. d <= 0
  <2> SUFFICES ASSUME d >= 1 PROVE FALSE
    OBVIOUS
  <2>1. w * d >= w
    OBVIOUS
  <2> QED
    BY <1>4, <2>1
<1>6. d >= 0
  <2> SUFFICES ASSUME d <= -1 PROVE FALSE
    OBVIOUS
  <2>1. w * d <= -w
    OBVIOUS
  <2> QED
    BY <1>4, <2>1
<1> QED
  BY <1>1, <1>2, <1>4, <1>5, <1>6

(* n and k are the same number, as far as the counter tells.               *)
SameCount(n, k) == \E j \in Int : n - k = j * Width

LEMMA WrapFacts ==
    ASSUME NEW n \in Int
    PROVE  Wrap(n) \in Int /\ SameCount(n, Wrap(n))
<1>1. PICK w \in Nat \ {0} : w = Width
  BY CommandsAssumption DEF Width
<1>2. PICK h \in Int : h = w \div 2
  OBVIOUS
<1>3. Wrap(n) = ((n + h) % w) - h
  BY <1>1, <1>2 DEF Wrap, Width
<1>4. PICK a \in Int : a = n + h
  OBVIOUS
<1>5. PICK q \in Int, r \in Int : a = w * q + r /\ r = a % w
  <2>1. a \div w \in Int /\ a % w \in Int /\ a = w * (a \div w) + (a % w)
    BY DivFacts
  <2> QED
    BY <2>1
<1>6. Wrap(n) = r - h
  BY <1>3, <1>4, <1>5
<1>7. n - (r - h) = q * w
  BY <1>4, <1>5
<1> QED
  BY <1>1, <1>6, <1>7 DEF SameCount

LEMMA SameCountFacts ==
    ASSUME NEW n \in Int, NEW k \in Int, SameCount(n, k)
    PROVE  /\ (n - k) % Width = 0
           /\ \A b \in Int : SameCount(n + b, Wrap(k + b))
<1>1. PICK w \in Nat \ {0} : w = Width
  BY CommandsAssumption DEF Width
<1>2. PICK j \in Int : n - k = j * w
  BY <1>1 DEF SameCount
<1>3. (n - k) % w = 0
  BY <1>2, MultipleFacts
<1>4. ASSUME NEW b \in Int PROVE SameCount(n + b, Wrap(k + b))
  <2>1. PICK m \in Int : m = k + b
    OBVIOUS
  <2>2. PICK v \in Int : v = Wrap(m) /\ SameCount(m, v)
    BY WrapFacts
  <2>3. PICK i \in Int : m - v = i * w
    BY <1>1, <2>2 DEF SameCount
  <2>4. PICK t \in Int : t = j + i
    OBVIOUS
  <2>5. n + b - v = j * w + i * w
    BY <1>2, <2>1, <2>3
  <2>6. j * w + i * w = t * w
    BY <2>4
  <2>7. SameCount(n + b, v)
    BY <1>1, <2>5, <2>6 DEF SameCount
  <2> QED
    BY <2>1, <2>2, <2>7
<1> QED
  BY <1>1, <1>3, <1>4

(* How many of the first n elements of s are in S.                         *)
Among(s, n, S) == Cardinality({i \in 1 .. n : s[i] \in S})
CountsOn(s, n, S) == Among(s, n + 1, S) = IF s[n + 1] \in S THEN Among(s, n, S) + 1 ELSE Among(s, n, S)

LEMMA AmongFacts ==
    ASSUME NEW s, NEW n \in Nat, NEW S
    PROVE  /\ Among(s, n, S) \in Nat
           /\ Among(s, 0, S) = 0
           /\ \A T : S \subseteq T => Among(s, n, S) <= Among(s, n, T)
           /\ CountsOn(s, n, S)
<1> DEFINE In(m, T) == {i \in 1 .. m : s[i] \in T}
<1>1. \A T : IsFiniteSet(In(n, T)) /\ Cardinality(In(n, T)) \in Nat
  <2> TAKE T
  <2>1. IsFiniteSet(1 .. n) /\ In(n, T) \in SUBSET (1 .. n)
    BY FS_Interval
  <2> QED
    BY <2>1, FS_Subset, FS_CardinalityType
<1>2. In(0, S) = {}
  OBVIOUS
<1>3. ASSUME NEW T, S \subseteq T PROVE Cardinality(In(n, S)) <= Cardinality(In(n, T))
  <2>1. In(n, S) \in SUBSET In(n, T)
    BY <1>3
  <2> QED
    BY <1>1, <2>1, FS_Subset
<1>4. Cardinality(In(n + 1, S)) = IF s[n + 1] \in S THEN Cardinality(In(n, S)) + 1 ELSE Cardinality(In(n, S))
  <2>1. CASE s[n + 1] \in S
    <3>1. In(n + 1, S) = In(n, S) \cup {n + 1} /\ n + 1 \notin In(n, S)
      BY <2>1
    <3> QED
      BY <1>1, <2>1, <3>1, FS_AddElement
  <2>2. CASE s[n + 1] \notin S
    <3>1. In(n + 1, S) = In(n, S)
      BY <2>2
    <3> QED
      BY <2>2, <3>1
  <2> QED
    BY <2>1, <2>2
<1> QED
  BY <1>1, <1>2, <1>3, <1>4, FS_EmptySet DEF Among, CountsOn

LEMMA AmongNext ==
    ASSUME NEW s, NEW n \in Nat, NEW S
    PROVE  CountsOn(s, n, S)
BY AmongFacts, Zenon

(* EXISTS has looked at the first n keys it was asked for, and its count   *)
(* lies, but for the width, between those always and those ever there.     *)
Queried(x) == <<x.key>> \o x.args

Counted(x, s, n) ==
    /\ IsSequence(s) /\ s = Queried(x)
    /\ IsSequence(x.todo) /\ Len(x.todo) = Len(s) - n
    /\ \A i \in 1 .. Len(s) - n : x.todo[i] = s[n + i]
    /\ x.acc.num \in Int
    /\ \E m \in Nat : /\ Among(s, n, x.always) <= m /\ m <= Among(s, n, x.ever)
                      /\ SameCount(m, x.acc.num)

(* In strict mode, what JSON.SETREF still has to look at is in todo.       *)
Seen(strict, x) ==
    /\ x.pc = "scan" /\ x.op = "EXISTS" => \E s : \E n \in 0 .. Len(s) : Counted(x, s, n)
    /\ strict /\ x.pc = "scan" /\ x.op = "JSON.SETREF" =>
          \A r \in x.args[2].refs : (\E i \in DOMAIN x.todo : x.todo[i] = r) \/ r.key \in x.ever
    /\ strict /\ x.pc = "logging" /\ x.op = "JSON.SETREF" => \A r \in x.args[2].refs : r.key \in x.ever

UpToDate(x, m) == WatchesKeys(x) => x.always \subseteq Bound(m) /\ Bound(m) \subseteq x.ever

ScanInv ==
    /\ BaseInv
    /\ \A c \in Clients : UpToDate(cl[c], mem) /\ Seen(job.strict, cl[c])

LEMMA SeenGrows ==
    ASSUME NEW strict, NEW x, NEW y, Alike(y, x), x.ever \subseteq y.ever, y.always \subseteq x.always,
           Seen(strict, x)
    PROVE  Seen(strict, y)
<1>1. ASSUME NEW s, NEW n \in 0 .. Len(s), Counted(x, s, n) PROVE Counted(y, s, n)
  <2>1. Len(s) \in Nat /\ n \in Nat
    BY <1>1, SequenceFacts DEF Counted
  <2>2. /\ Among(s, n, y.always) \in Nat /\ Among(s, n, x.always) \in Nat
        /\ Among(s, n, y.ever) \in Nat /\ Among(s, n, x.ever) \in Nat
        /\ Among(s, n, y.always) <= Among(s, n, x.always) /\ Among(s, n, x.ever) <= Among(s, n, y.ever)
    BY <2>1, AmongFacts
  <2>3. PICK m \in Nat : Among(s, n, x.always) <= m /\ m <= Among(s, n, x.ever) /\ SameCount(m, x.acc.num)
    BY <1>1 DEF Counted
  <2>4. Among(s, n, y.always) <= m /\ m <= Among(s, n, y.ever)
    BY <2>2, <2>3
  <2>5. SameCount(m, y.acc.num)
    BY <2>3 DEF Alike
  <2> QED
    BY <1>1, <2>3, <2>4, <2>5 DEF Counted, Alike, Queried
<1> QED
  BY <1>1 DEF Seen, Alike

(* What a step makes of every client, once more, from what holds after it. *)
LEMMA NowFacts ==
    ASSUME BaseInv', NEW c \in Clients, NEW m, NEW h, NEW q, NEW new, Step(c, m, h, q, new), NEW d \in Clients
    PROVE  LET x == IF d = c THEN new ELSE cl[d] IN
           /\ Alike(cl'[d], x)
           /\ ~WatchesKeys(x) => cl'[d] = x
           /\ WatchesKeys(x) => cl'[d].ever = x.ever \cup Bound(m) /\ cl'[d].always = x.always \cap Bound(m)
<1>1. PICK x : x = IF d = c THEN new ELSE cl[d]
  OBVIOUS
<1>2. cl'[d] = IF x.op \in {"EXISTS", "JSON.SETREF"}
               THEN [x EXCEPT !.ever = @ \cup Bound(m), !.always = @ \cap Bound(m)] ELSE x
  BY <1>1 DEF Step
<1>3. PICK y : y = cl'[d]
  OBVIOUS
<1>4. IsClient(y)
  BY <1>3 DEF BaseInv
<1>5. CASE ~WatchesKeys(x)
  BY <1>1, <1>2, <1>5 DEF WatchesKeys, Alike
<1>6. CASE WatchesKeys(x)
  <2>1. PICK e, a : e = x.ever \cup Bound(m) /\ a = x.always \cap Bound(m)
    OBVIOUS
  <2>2. PICK z : z = [x EXCEPT !.ever = e]
    OBVIOUS
  <2>3. y = [z EXCEPT !.always = a]
    BY <1>2, <1>3, <1>6, <2>1, <2>2 DEF WatchesKeys
  <2>4. DOMAIN y = DOMAIN z /\ DOMAIN z = DOMAIN x
    BY <2>2, <2>3
  <2>5. DOMAIN y = {"pc", "op", "key", "args", "ptr", "todo", "acc", "out", "entry", "ever", "always"}
    BY <1>4 DEF IsClient
  <2>6. y.always = a /\ y.ever = e
    BY <2>2, <2>3, <2>4, <2>5
  <2>7. Alike(y, x)
    BY <2>2, <2>3, <2>4, <2>5 DEF Alike
  <2> QED
    BY <1>1, <1>3, <1>6, <2>1, <2>6, <2>7
<1> QED
  BY <1>5, <1>6

LEMMA StepSees ==
    ASSUME ScanInv, BaseInv', NEW c \in Clients, NEW m, NEW h, NEW q, NEW new,
           Step(c, m, h, q, new), Seen(job.strict, new)
    PROVE  ScanInv'
<1>1. mem' = m /\ job' = job
  BY DEF Step
<1>2. ASSUME NEW d \in Clients PROVE UpToDate(cl'[d], m) /\ Seen(job.strict, cl'[d])
  <2>1. PICK x : x = IF d = c THEN new ELSE cl[d]
    OBVIOUS
  <2>2. Seen(job.strict, x)
    BY <2>1 DEF ScanInv
  <2>3. /\ Alike(cl'[d], x)
        /\ ~WatchesKeys(x) => cl'[d] = x
        /\ WatchesKeys(x) => cl'[d].ever = x.ever \cup Bound(m) /\ cl'[d].always = x.always \cap Bound(m)
    BY <2>1, NowFacts
  <2>4. x.ever \subseteq cl'[d].ever /\ cl'[d].always \subseteq x.always
    BY <2>3
  <2>5. Seen(job.strict, cl'[d])
    BY <2>2, <2>3, <2>4, SeenGrows
  <2>6. UpToDate(cl'[d], m)
    BY <2>3 DEF UpToDate, WatchesKeys, Alike
  <2> QED
    BY <2>5, <2>6
<1> QED
  BY <1>1, <1>2 DEF ScanInv

LEMMA QuietStep ==
    ASSUME ScanInv, BaseInv', NEW c \in Clients, NEW m, NEW h, NEW q, NEW new,
           Step(c, m, h, q, new), ~WatchesKeys(new)
    PROVE  ScanInv'
<1>1. Seen(job.strict, new)
  BY DEF Seen, WatchesKeys
<1> QED
  BY <1>1, StepSees

LEMMA QuietThought ==
    ASSUME ScanInv, BaseInv', NEW c \in Clients, NEW new, Think(c, new), ~WatchesKeys(new)
    PROVE  ScanInv'
BY QuietStep DEF Think

LEMMA SameOp ==
    ASSUME BaseInv, NEW c \in Clients
    PROVE  /\ \A e, out : Logging(c, e, out).op = cl[c].op
           /\ \A pc : [cl[c] EXCEPT !.pc = pc].op = cl[c].op
           /\ ~WatchesKeys(IdleClient)
<1>1. PICK x : x = cl[c] /\ IsClient(x)
  BY DEF BaseInv
<1>2. ASSUME NEW e, NEW out PROVE Logging(c, e, out).op = x.op
  <2>1. PICK p : p = e.ptr
    OBVIOUS
  <2>2. Logging(c, e, out) = [x EXCEPT !.pc = "logging", !.entry = e, !.ptr = p, !.out = out]
    BY <1>1, <2>1 DEF Logging
  <2> QED
    BY <1>1, <2>2 DEF IsClient
<1>3. \A pc : [x EXCEPT !.pc = pc].op = x.op
  BY <1>1 DEF IsClient
<1> QED
  BY <1>1, <1>2, <1>3 DEF WatchesKeys, IdleClient

LEMMA UnseenEnd == ASSUME ScanInv, BaseInv', UNCHANGED <<job, mem, cl>> PROVE ScanInv'
BY DEF ScanInv, UpToDate, Bound

LEMMA QuietMoves ==
    ASSUME ScanInv, BaseInv', NEW c \in Clients,
           \/ Decide(c) \/ DeleteKey(c) \/ CSetClear(c) \/ CSetFill(c) \/ ExpireDate(c) \/ ExpireFetch(c)
           \/ ScanEnd(c) \/ LogPut(c) \/ LogRefused(c)
    PROVE  ScanInv'
<1>0. BaseInv
  BY DEF ScanInv
<1>1. CASE Decide(c)
  <2>1. ~WatchesKeys(cl[c])
    BY <1>1 DEF Decide, Plain, Scanning, WatchesKeys
  <2>2. \A e, out : ~WatchesKeys(Logging(c, e, out))
    BY <1>0, <2>1, SameOp DEF WatchesKeys
  <2>3. PICK e : \/ Reply(c, e) \/ ChangeSet(c, e) \/ ChangeDelete(c, e)
                 \/ ChangeInPlace(c, e) \/ ChangeRegress(c, e) \/ Panic(e)
    BY <1>1 DEF Decide
  <2>4. CASE Reply(c, e)
    BY <1>0, <2>4, SameOp, QuietThought DEF Reply
  <2>5. CASE Panic(e)
    BY <2>5, UnseenEnd DEF Panic, End
  <2>6. CASE ChangeSet(c, e) \/ ChangeDelete(c, e) \/ ChangeInPlace(c, e) \/ ChangeRegress(c, e)
    <3>1. PICK m, h, entry : Step(c, m, h, queue, Logging(c, entry, e.out))
      BY <2>6 DEF ChangeSet, Bind, ChangeDelete, ChangeInPlace, ChangeRegress
    <3> QED
      BY <2>2, <3>1, QuietStep
  <2> QED
    BY <2>3, <2>4, <2>5, <2>6
<1>2. CASE DeleteKey(c)
  <2>1. ~WatchesKeys(Logging(c, Deletion, Empty))
    BY <1>0, <1>2, SameOp DEF DeleteKey, WatchesKeys
  <2>2. PICK m, new : Step(c, m, heap, queue, new) /\ (new = IdleClient \/ new = Logging(c, Deletion, Empty))
    BY <1>2 DEF DeleteKey
  <2> QED
    BY <1>0, <2>1, <2>2, SameOp, QuietStep
<1>3. CASE CSetClear(c)
  <2>1. ~WatchesKeys([cl[c] EXCEPT !.pc = "emptied"])
    BY <1>0, <1>3, SameOp DEF CSetClear, WatchesKeys
  <2>2. End \/ \E m : Step(c, m, heap, queue, [cl[c] EXCEPT !.pc = "emptied"])
    BY <1>3 DEF CSetClear
  <2>3. CASE End
    BY <2>3, UnseenEnd DEF End
  <2> QED
    BY <2>1, <2>2, <2>3, QuietStep
<1>4. CASE CSetFill(c)
  <2>1. cl[c].op = "MAP.CSET"
    BY <1>0, <1>4 DEF CSetFill, BaseInv, ClientOK
  <2>2. PICK m, h, entry, out : Step(c, m, h, queue, Logging(c, entry, out))
    BY <1>4 DEF CSetFill, Bind
  <2>3. ~WatchesKeys(Logging(c, entry, out))
    BY <1>0, <2>1, SameOp DEF WatchesKeys
  <2> QED
    BY <2>2, <2>3, QuietStep
<1>5. CASE ExpireDate(c)
  <2>1. ~WatchesKeys([cl[c] EXCEPT !.pc = "dated"])
    BY <1>0, <1>5, SameOp DEF ExpireDate, WatchesKeys
  <2>2. PICK h, new : Step(c, mem, h, queue, new) /\ (new = IdleClient \/ new = [cl[c] EXCEPT !.pc = "dated"])
    BY <1>5 DEF ExpireDate, Think
  <2> QED
    BY <1>0, <2>1, <2>2, SameOp, QuietStep
<1>6. CASE ExpireFetch(c)
  <2>1. cl[c].op = "TTL.EXPIRE"
    BY <1>0, <1>6 DEF ExpireFetch, BaseInv, ClientOK
  <2>2. \A e, out : ~WatchesKeys(Logging(c, e, out))
    BY <1>0, <2>1, SameOp DEF WatchesKeys
  <2>3. Think(c, IdleClient) \/ \E e, out : Think(c, Logging(c, e, out))
    BY <1>6 DEF ExpireFetch
  <2> QED
    BY <1>0, <2>2, <2>3, SameOp, QuietThought
<1>7. CASE ScanEnd(c) \/ LogPut(c) \/ LogRefused(c)
  <2>1. \E q : Step(c, mem, heap, q, IdleClient)
    BY <1>7 DEF ScanEnd, LogPut, LogRefused, Think
  <2> QED
    BY <1>0, <2>1, SameOp, QuietStep
<1> QED
  BY <1>1, <1>2, <1>3, <1>4, <1>5, <1>6, <1>7

LEMMA InvokeSees ==
    ASSUME ScanInv, BaseInv', NEW c \in Clients, Invoke(c)
    PROVE  ScanInv'
<1>0. BaseInv
  BY DEF ScanInv
<1>1. PICK r \in job.may[c] : Receive(c, r)
  BY DEF Invoke
<1>2. IsRequest(r)
  BY <1>0, CommandsAssumption DEF BaseInv
<1>3. CASE Refused(r)
  BY <1>0, <1>1, <1>3, SameOp, QuietThought DEF Receive
<1>4. CASE ~Refused(r)
  <2>1. PICK x : x = Received(c, r)
    OBVIOUS
  <2>2. Think(c, x)
    BY <1>1, <1>4, <2>1 DEF Receive, Received
  <2>3. /\ x.pc = IF r.op = "EXISTS" THEN "scan" ELSE "found"
        /\ x.op = r.op /\ x.key = r.key /\ x.args = r.args
        /\ x.todo = IF r.op = "EXISTS" THEN <<r.key>> \o r.args ELSE <<>>
        /\ x.acc = Num(0) /\ x.ever = {} /\ x.always = Keys
    BY <1>0, <1>2, <1>4, <2>1, ReceivedFacts
  <2>4. ASSUME x.op = "EXISTS" PROVE \E s : \E n \in 0 .. Len(s) : Counted(x, s, n)
    <3>1. PICK s : s = Queried(x)
      OBVIOUS
    <3>2. IsSequence(s) /\ Len(s) \in Nat /\ x.todo = s
      BY <1>2, <2>3, <2>4, <3>1, SequenceFacts DEF IsRequest, Queried
    <3>3. x.acc.num = 0
      BY <2>3 DEF Num
    <3>4. Among(s, 0, x.always) = 0 /\ Among(s, 0, x.ever) = 0
      BY AmongFacts
    <3>5. SameCount(0, 0)
      <4>1. PICK w \in Nat \ {0} : w = Width
        BY CommandsAssumption DEF Width
      <4>2. 0 - 0 = 0 * w
        OBVIOUS
      <4> QED
        BY <4>1, <4>2 DEF SameCount
    <3>6. Counted(x, s, 0)
      BY <3>1, <3>2, <3>3, <3>4, <3>5 DEF Counted
    <3> QED
      BY <3>2, <3>6
  <2>5. Seen(job.strict, x)
    BY <2>3, <2>4 DEF Seen
  <2> QED
    BY <2>2, <2>5, StepSees DEF Think
<1> QED
  BY <1>3, <1>4

LEMMA ExistsSees ==
    ASSUME ScanInv, BaseInv', NEW c \in Clients, ExistsStep(c)
    PROVE  ScanInv'
<1>1. PICK x : x = cl[c]
  OBVIOUS
<1>2. x.pc = "scan" /\ x.op = "EXISTS" /\ x.todo # <<>> /\ IsClient(x) /\ Seen(job.strict, x) /\ UpToDate(x, mem)
  BY <1>1 DEF ExistsStep, ScanInv, BaseInv
<1>3. PICK s : \E n \in 0 .. Len(s) : Counted(x, s, n)
  BY <1>2 DEF Seen
<1>4. PICK n \in 0 .. Len(s) : Counted(x, s, n)
  BY <1>3
<1>5. Len(s) \in Nat /\ n \in Nat /\ IsSequence(s) /\ IsSequence(x.todo)
  BY <1>4, SequenceFacts DEF Counted
<1>6. PICK k : k = Head(x.todo)
  OBVIOUS
<1>7. n < Len(s) /\ k = s[n + 1]
  <2>1. Len(x.todo) = Len(s) - n /\ 1 \in DOMAIN x.todo /\ DOMAIN x.todo = 1 .. Len(x.todo) /\ k = x.todo[1]
    BY <1>2, <1>4, <1>5, <1>6, TailFacts, SequenceFacts DEF Counted
  <2>2. n < Len(s) /\ 1 \in 1 .. Len(s) - n
    BY <1>5, <2>1
  <2> QED
    BY <1>4, <2>1, <2>2 DEF Counted
<1>8. PICK b \in {0, 1} : b = IF Lookup(k) = 0 THEN 0 ELSE 1
  OBVIOUS
<1>9. (b = 1) <=> k \in Bound(mem)
  BY <1>8 DEF Lookup, Bound, ScanInv, BaseInv, StoreOK
<1>10. PICK a \in Int : a = x.acc.num
  BY <1>4 DEF Counted
<1>11. PICK todo, acc : todo = Tail(x.todo) /\ acc = Num(Wrap(a + b))
  OBVIOUS
<1>12. PICK new : new = [x EXCEPT !.todo = todo, !.acc = acc]
  OBVIOUS
<1>13. Think(c, new)
  BY <1>1, <1>6, <1>8, <1>10, <1>11, <1>12 DEF ExistsStep
<1>14. Moved(x, new, x.pc, x.ptr, todo, acc)
  BY <1>2, <1>12, MovedFacts DEF IsClient
<1>15. PICK p \in Nat : p = n + 1
  BY <1>5
<1>16. /\ IsSequence(todo) /\ Len(todo) = Len(s) - p
       /\ \A i \in 1 .. Len(s) - p : todo[i] = s[p + i]
  <2>1. /\ IsSequence(todo) /\ Len(todo) = Len(x.todo) - 1 /\ DOMAIN todo = 1 .. Len(todo)
        /\ \A i \in DOMAIN todo : todo[i] = x.todo[i + 1]
    BY <1>2, <1>5, <1>11, TailFacts, SequenceFacts
  <2>2. Len(x.todo) = Len(s) - n /\ \A i \in 1 .. Len(s) - n : x.todo[i] = s[n + i]
    BY <1>4 DEF Counted
  <2>3. Len(todo) = Len(s) - p
    BY <1>5, <1>15, <2>1, <2>2
  <2>4. ASSUME NEW i \in 1 .. Len(s) - p PROVE todo[i] = s[p + i]
    <3>1. i + 1 \in 1 .. Len(s) - n /\ n + (i + 1) = p + i /\ i \in DOMAIN todo
      BY <1>5, <1>15, <2>1, <2>3
    <3> QED
      BY <2>1, <2>2, <3>1
  <2> QED
    BY <2>1, <2>3, <2>4
<1>17. \E m \in Nat : /\ Among(s, p, x.always) <= m /\ m <= Among(s, p, x.ever)
                      /\ SameCount(m, Wrap(a + b))
  <2>1. PICK m \in Nat : Among(s, n, x.always) <= m /\ m <= Among(s, n, x.ever) /\ SameCount(m, a)
    BY <1>4, <1>10 DEF Counted
  <2>2. PICK l \in Nat, u \in Nat : l = Among(s, n, x.always) /\ u = Among(s, n, x.ever)
    BY <1>5, AmongFacts
  <2>3. /\ Among(s, p, x.always) = IF k \in x.always THEN l + 1 ELSE l
        /\ Among(s, p, x.ever) = IF k \in x.ever THEN u + 1 ELSE u
    <3>1. CountsOn(s, n, x.always) /\ CountsOn(s, n, x.ever)
      BY <1>5, AmongNext, Zenon
    <3> QED
      BY <1>7, <1>15, <2>2, <3>1 DEF CountsOn
  <2>4. (k \in x.always => b = 1) /\ (b = 1 => k \in x.ever)
    BY <1>2, <1>9 DEF UpToDate, WatchesKeys
  <2>5. Among(s, p, x.always) <= m + b /\ m + b <= Among(s, p, x.ever) /\ m + b \in Nat
    BY <2>1, <2>2, <2>3, <2>4
  <2>6. SameCount(m + b, Wrap(a + b))
    <3>1. m \in Int /\ b \in Int /\ SameCount(m, a)
      BY <2>1
    <3> QED
      BY <3>1, SameCountFacts, Zenon
  <2> QED
    BY <2>5, <2>6
<1>18. acc.num = Wrap(a + b) /\ Wrap(a + b) \in Int
  BY <1>11, WrapFacts DEF Num
<1>19. Counted(new, s, p) /\ p \in 0 .. Len(s)
  BY <1>4, <1>5, <1>7, <1>14, <1>15, <1>16, <1>17, <1>18 DEF Counted, Moved, Queried
<1>20. Seen(job.strict, new)
  BY <1>2, <1>14, <1>19 DEF Seen, Moved
<1> QED
  BY <1>13, <1>20, StepSees DEF Think

(* A sequence with every element of a finite set once misses none.         *)
LEMMA AllInSequence ==
    ASSUME NEW S, IsFiniteSet(S), NEW s \in SetToSeqs(S), NEW x \in S
    PROVE  \E i \in DOMAIN s : s[i] = x
<1>1. PICK n \in Nat : n = Cardinality(S)
  BY FS_CardinalityType
<1>2. s \in [1 .. n -> S] /\ \A i, j \in 1 .. n : i # j => s[i] # s[j]
  BY <1>1 DEF SetToSeqs
<1>3. s \in Injection(1 .. n, S)
  BY <1>2 DEF Injection, IsInjective
<1>4. Cardinality(1 .. n) = n
  BY FS_Interval
<1>5. s \in Surjection(1 .. n, S)
  BY <1>1, <1>3, <1>4, FS_Injection
<1> QED
  BY <1>2, <1>5 DEF Surjection

LEMMA RestFacts ==
    ASSUME NEW s, IsSequence(s), s # <<>>, NEW i \in DOMAIN s
    PROVE  s[i] = Head(s) \/ \E j \in DOMAIN Tail(s) : Tail(s)[j] = s[i]
<1>1. PICK t : t = Tail(s)
  OBVIOUS
<1>2. /\ Len(t) = Len(s) - 1 /\ DOMAIN t = 1 .. Len(t) /\ DOMAIN s = 1 .. Len(s) /\ Len(s) \in Nat
      /\ Head(s) = s[1] /\ \A j \in DOMAIN t : t[j] = s[j + 1]
  BY <1>1, TailFacts, SequenceFacts
<1>3. i = 1 \/ (i - 1 \in DOMAIN t /\ (i - 1) + 1 = i)
  BY <1>2
<1> QED
  BY <1>1, <1>2, <1>3

LEMMA RefsSee ==
    ASSUME ScanInv, BaseInv', NEW c \in Clients
    PROVE  /\ RefsStart(c) => ScanInv'
           /\ RefsStep(c) => ScanInv'
           /\ RefsStore(c) => ScanInv'
<1>1. PICK x : x = cl[c]
  OBVIOUS
<1>2. BaseInv /\ IsClient(x) /\ ClientOK(x) /\ Seen(job.strict, x) /\ UpToDate(x, mem)
  BY <1>1 DEF ScanInv, BaseInv
<1>3. Think(c, IdleClient) => ScanInv'
  BY <1>2, SameOp, QuietThought
<1>4. ASSUME RefsStart(c) PROVE ScanInv'
  <2>1. x.pc = "found" /\ x.op = "JSON.SETREF" /\ Asked(x)
    BY <1>1, <1>2, <1>4 DEF RefsStart, ClientOK
  <2>2. CASE ~IsMap(x.args[1]) \/ ~Is(x.args[2], "refs")
    BY <1>1, <1>3, <1>4, <2>2 DEF RefsStart
  <2>3. CASE IsMap(x.args[1]) /\ Is(x.args[2], "refs")
    <3>1. PICK refs : refs = x.args[2].refs /\ IsFiniteSet(refs)
      BY <2>1, <2>3, ArgFacts DEF Asked, AreRefs
    <3>2. PICK todo \in SetToSeqs(refs) : Think(c, [x EXCEPT !.pc = "scan", !.todo = todo, !.acc = x.args[1]])
      BY <1>1, <1>4, <2>3, <3>1 DEF RefsStart
    <3>3. PICK acc : acc = x.args[1]
      OBVIOUS
    <3>4. PICK new : new = [x EXCEPT !.pc = "scan", !.todo = todo, !.acc = acc]
      OBVIOUS
    <3>5. Think(c, new)
      BY <3>2, <3>3, <3>4
    <3>6. Moved(x, new, "scan", x.ptr, todo, acc)
      BY <1>2, <3>4, MovedFacts DEF Pcs, IsClient
    <3>7. \A r \in refs : \E i \in DOMAIN todo : todo[i] = r
      BY <3>1, AllInSequence
    <3>8. Seen(job.strict, new)
      BY <2>1, <3>1, <3>6, <3>7 DEF Seen, Moved
    <3> QED
      BY <3>5, <3>8, StepSees DEF Think
  <2> QED
    BY <2>2, <2>3
<1>5. ASSUME RefsStep(c) PROVE ScanInv'
  <2>1. /\ x.pc = "scan" /\ x.op = "JSON.SETREF" /\ x.todo # <<>> /\ IsSequence(x.todo)
        /\ Is(x.args[2], "refs")
    BY <1>1, <1>2, <1>5, SequenceFacts DEF RefsStep, ClientOK
  <2>2. PICK r : r = Head(x.todo)
    OBVIOUS
  <2>3. CASE job.strict /\ Lookup(r.key) = 0
    BY <1>1, <1>3, <1>5, <2>2, <2>3 DEF RefsStep
  <2>4. CASE ~(job.strict /\ Lookup(r.key) = 0)
    <3>1. PICK todo : todo = Tail(x.todo)
      OBVIOUS
    <3>2. PICK acc : acc = IF Is(x.acc, "null") \/ Blocked(x.acc, r.path) THEN x.acc
                           ELSE AddNestedKey(x.acc, r.path, Ref(r.key))
      OBVIOUS
    <3>3. PICK new : new = [x EXCEPT !.todo = todo, !.acc = acc]
      OBVIOUS
    <3>4. Think(c, new)
      BY <1>1, <1>5, <2>2, <2>4, <3>1, <3>2, <3>3 DEF RefsStep
    <3>5. Moved(x, new, x.pc, x.ptr, todo, acc)
      BY <1>2, <3>3, MovedFacts DEF Pcs, IsClient
    <3>6. job.strict => r.key \in x.ever
      BY <1>2, <2>1, <2>4 DEF Lookup, Bound, UpToDate, WatchesKeys, BaseInv, StoreOK
    <3>7. \A i \in DOMAIN x.todo : x.todo[i] = r \/ \E j \in DOMAIN todo : todo[j] = x.todo[i]
      BY <2>1, <2>2, <3>1, RestFacts
    <3>8. ASSUME job.strict, NEW t \in x.args[2].refs
          PROVE  (\E i \in DOMAIN todo : todo[i] = t) \/ t.key \in x.ever
      <4>1. (\E i \in DOMAIN x.todo : x.todo[i] = t) \/ t.key \in x.ever
        BY <1>2, <2>1, <3>8 DEF Seen
      <4> QED
        BY <3>6, <3>7, <3>8, <4>1
    <3>9. Seen(job.strict, new)
      BY <2>1, <3>5, <3>8 DEF Seen, Moved
    <3> QED
      BY <3>4, <3>9, StepSees DEF Think
  <2> QED
    BY <2>3, <2>4
<1>6. ASSUME RefsStore(c) PROVE ScanInv'
  <2>1. x.pc = "scan" /\ x.op = "JSON.SETREF" /\ x.todo = <<>>
    BY <1>1, <1>6 DEF RefsStore
  <2>2. PICK m, h, entry, out : /\ Step(c, m, h, queue, Logging(c, entry, out))
                                /\ entry = ByValue(x.acc, "JSON")
    BY <1>1, <1>6 DEF RefsStore, Bind
  <2>3. PICK new : new = Logging(c, entry, out)
    OBVIOUS
  <2>4. LoggingOK(new, x, entry, out)
    <3>1. cl[c].pc # "idle" /\ cl[c].op # "EXISTS" /\ IsEntry(entry)
      BY <1>1, <2>1, <2>2, EntryFacts
    <3> QED
      BY <1>1, <1>2, <2>3, <3>1, LoggingFacts
  <2>5. Seen(job.strict, new)
    BY <1>2, <2>1, <2>4 DEF Seen, LoggingOK
  <2> QED
    BY <2>2, <2>3, <2>5, StepSees
<1> QED
  BY <1>4, <1>5, <1>6

LEMMA GetRefsSee ==
    ASSUME ScanInv, BaseInv', NEW c \in Clients, GetRefsStart(c) \/ GetRefsStep(c)
    PROVE  ScanInv'
<1>1. PICK x : x = cl[c]
  OBVIOUS
<1>2. IsClient(x) /\ x.op = "JSON.GET"
  BY <1>1 DEF GetRefsStart, GetRefsStep, ScanInv, BaseInv
<1>3. ~WatchesKeys(IdleClient)
  BY SameOp DEF ScanInv
<1>4. PICK new : Think(c, new) /\ (new = IdleClient \/ \E pc, ptr, todo, acc : Moved(x, new, pc, ptr, todo, acc))
  <2>1. CASE GetRefsStart(c)
    <3>1. PICK todo, acc : todo = Tail(x.args) /\ acc = Object(x.ptr).val
      OBVIOUS
    <3>2. PICK new : new = [x EXCEPT !.pc = "scan", !.ptr = 0, !.acc = acc, !.todo = todo]
      OBVIOUS
    <3>3. Think(c, IdleClient) \/ Think(c, new)
      BY <1>1, <2>1, <3>1, <3>2 DEF GetRefsStart
    <3>4. Moved(x, new, "scan", 0, todo, acc)
      BY <1>2, <3>2, MovedFacts DEF Pcs, Pointers
    <3> QED
      BY <3>3, <3>4
  <2>2. CASE GetRefsStep(c)
    <3>1. PICK v, todo : v = Resolved(x.acc, Head(x.todo).path) /\ todo = Tail(x.todo)
      OBVIOUS
    <3>2. PICK new : new = IF Is(v, "missing") THEN [x EXCEPT !.todo = <<>>] ELSE [x EXCEPT !.todo = todo, !.acc = v]
      OBVIOUS
    <3>3. Think(c, new)
      BY <1>1, <2>2, <3>1, <3>2 DEF GetRefsStep
    <3>4. \E t, a : Moved(x, new, x.pc, x.ptr, t, a)
      BY <1>2, <3>2, MovedFacts DEF Pcs, IsClient
    <3> QED
      BY <3>3, <3>4
  <2> QED
    BY <2>1, <2>2
<1>5. ~WatchesKeys(new)
  BY <1>2, <1>3, <1>4 DEF Moved, WatchesKeys
<1> QED
  BY <1>4, <1>5, QuietThought

LEMMA NextScan == ScanInv /\ [Next]_vars => ScanInv'
<1> SUFFICES ASSUME ScanInv, [Next]_vars PROVE ScanInv'
  OBVIOUS
<1>1. BaseInv'
  BY NextBase DEF ScanInv
<1>2. CASE LogTake \/ \E c \in Clients : LogTakeTorn(c) \/ LogDrop(c)
  BY <1>1, <1>2, UnseenEnd DEF LogTake, LogTakeTorn, LogDrop
<1>3. ASSUME NEW c \in Clients, Invoke(c) PROVE ScanInv'
  BY <1>1, <1>3, InvokeSees
<1>4. ASSUME NEW c \in Clients, Move(c) PROVE ScanInv'
  BY <1>1, <1>4, QuietMoves, ExistsSees, RefsSee, GetRefsSee DEF Move
<1>5. CASE UNCHANGED vars
  BY <1>1, <1>5, UnseenEnd DEF vars
<1> QED
  BY <1>2, <1>3, <1>4, <1>5 DEF Next

(* What a scan answers was true at some time while it went on.             *)
THEOREM ScansHonest == Spec => []ScansAreHonest
<1>1. Init => ScanInv
  <2> SUFFICES ASSUME Init PROVE ScanInv
    OBVIOUS
  <2>1. \A c \in Clients : cl[c] = IdleClient
    BY DEF Init
  <2> QED
    BY <2>1, InitBase DEF ScanInv, UpToDate, WatchesKeys, Seen, IdleClient
<1>2. ScanInv => ScansAreHonest
  <2> SUFFICES ASSUME ScanInv, NEW c \in Clients
               PROVE  /\ cl[c].pc = "scan" /\ cl[c].op = "EXISTS" /\ cl[c].todo = <<>> =>
                            LET asked == <<cl[c].key>> \o cl[c].args
                                Number(S) == Cardinality({i \in DOMAIN asked : asked[i] \in S})
                            IN \E n \in Number(cl[c].always) .. Number(cl[c].ever) :
                                  (n - cl[c].acc.num) % 2 ^ CountBits = 0
                      /\ job.strict /\ cl[c].pc = "logging" /\ cl[c].op = "JSON.SETREF" =>
                            \A r \in cl[c].args[2].refs : r.key \in cl[c].ever
    BY Zenon DEF ScansAreHonest
  <2>1. PICK x : x = cl[c] /\ Seen(job.strict, x)
    BY DEF ScanInv
  <2>2. ASSUME x.pc = "scan", x.op = "EXISTS", x.todo = <<>>
        PROVE  LET asked == <<x.key>> \o x.args
                   Number(S) == Cardinality({i \in DOMAIN asked : asked[i] \in S})
               IN \E n \in Number(x.always) .. Number(x.ever) : (n - x.acc.num) % 2 ^ CountBits = 0
    <3>1. PICK s : \E n \in 0 .. Len(s) : Counted(x, s, n)
      BY <2>1, <2>2 DEF Seen
    <3>2. PICK n \in 0 .. Len(s) : Counted(x, s, n)
      BY <3>1
    <3>3. IsSequence(s) /\ Len(s) \in Nat /\ n = Len(s) /\ DOMAIN s = 1 .. n
      BY <2>2, <3>2, SequenceFacts DEF Counted
    <3>4. PICK m \in Nat, a \in Int : /\ Among(s, n, x.always) <= m /\ m <= Among(s, n, x.ever)
                                      /\ SameCount(m, a) /\ a = x.acc.num
      BY <3>2 DEF Counted
    <3>5. (m - a) % Width = 0
      BY <3>4, SameCountFacts
    <3>6. Among(s, n, x.always) \in Nat /\ Among(s, n, x.ever) \in Nat
      BY <3>3, AmongFacts
    <3>7. s = <<x.key>> \o x.args
      BY <3>2 DEF Counted, Queried
    <3>8. m \in Among(s, n, x.always) .. Among(s, n, x.ever)
      BY <3>4, <3>6
    <3> QED
      BY <3>3, <3>4, <3>5, <3>7, <3>8 DEF Among, Width
  <2> QED
    BY <2>1, <2>2 DEF Seen
<1> QED
  BY <1>1, <1>2, NextScan, PTL DEF Spec

-----------------------------------------------------------------------------
(* One writer per key.  Object and log entry agree, but for a deadline.    *)

Agree(o, l) == o = l \/ (o # NoObj /\ o.kind = "List" /\ o.exp = 0 /\ l = [o EXCEPT !.exp = 1])

Saved(e, h) == IF e.ptr = 0 THEN e.obj ELSE h[e.ptr]
ObjectIn(i, h) == IF i = 0 THEN NoObj ELSE h[i]

(* The log will say l of k: its last entry in the queue, or what it said.  *)
Says(k, q, h, lg, l) ==
    \/ (\A i \in DOMAIN q : q[i].key # k) /\ l = lg[k]
    \/ \E i \in DOMAIN q : /\ q[i].key = k /\ l = Saved(q[i], h)
                           /\ \A j \in DOMAIN q : q[j].key = k => j <= i

(* Somebody gets at object i by key k.                                     *)
Refers(i, k) ==
    \/ k \in Keys /\ mem[k] = i
    \/ \E c \in Clients : cl[c].ptr = i /\ cl[c].key = k
    \/ \E j \in DOMAIN queue : queue[j].ptr = i /\ queue[j].key = k

OneKey == \A i \in ObjIds : \A k, l : Refers(i, k) /\ Refers(i, l) => k = l

Busy == {"emptied", "dated", "logging"}

ClientKeeps(c) ==
    LET x == cl[c] IN
    /\ x.pc # "idle" => \E r \in job.may[c] : r.op = x.op /\ r.key = x.key
    /\ x.pc = "found" /\ x.op \in Finders => x.ptr = mem[x.key]
    /\ x.pc \in Busy => x.op \in Writers
    /\ x.pc = "dated" => mem[x.key] # 0
    /\ x.pc = "logging" => Agree(Object(mem[x.key]), Saved(x.entry, heap))

UpToLog(k) == \E l : Says(k, queue, heap, logged, l) /\ Agree(Object(mem[k]), l)

LogInv ==
    /\ BaseInv /\ OneKey
    /\ \A c \in Clients : ClientKeeps(c)
    /\ \A k \in Keys \ missed : (\A c \in Clients : ~Writing(c, k)) => UpToLog(k)

LEMMA SoleWriter ==
    ASSUME OneWriter, LogInv, NEW c \in Clients, NEW d \in Clients, c # d,
           cl[c].pc # "idle", cl[c].op \in Writers, cl[d].pc # "idle", cl[d].op \in Writers
    PROVE  cl[c].key # cl[d].key
BY DEF OneWriter, LogInv, BaseInv, ClientKeeps

(* Nothing happens to k: neither to its object nor to those on their way.  *)
Still(k) ==
    /\ mem'[k] = mem[k] /\ logged'[k] = logged[k]
    /\ \A i \in ObjIds : Refers(i, k) /\ Refers(i, k)' => heap'[i] = heap[i]

LEMMA StillWriting ==
    ASSUME BaseInv, NEW d \in Clients, Alike(cl'[d], cl[d]), NEW k, Still(k), Writing(d, k)
    PROVE  Writing(d, k)'
<1>1. cl[d].key = k /\ cl'[d].key = k
  BY DEF Writing, Alike
<1>2. cl[d].ptr = cl'[d].ptr /\ (cl[d].ptr # 0 => cl[d].ptr \in ObjIds)
  BY PointerFacts DEF Alike, BaseInv, IsClient
<1>3. Object(cl[d].ptr)' = Object(cl[d].ptr)
  <2>1. cl[d].ptr # 0 => Refers(cl[d].ptr, k) /\ Refers(cl[d].ptr, k)'
    BY <1>1, <1>2 DEF Refers
  <2> QED
    BY <1>2, <2>1 DEF Object, Still
<1>4. Effect(d)' = Effect(d)
  BY <1>2, <1>3 DEF Effect, Alike
<1>5. Plain(d) => Plain(d)'
  BY DEF Plain, Scanning, Alike
<1> QED
  BY <1>1, <1>4, <1>5 DEF Writing, Alike

LEMMA StillObject ==
    ASSUME BaseInv, BaseInv', NEW k \in Keys, Still(k)
    PROVE  Object(mem[k])' = Object(mem[k])
<1>1. mem[k] # 0 => mem[k] \in ObjIds
  BY PointerFacts DEF BaseInv, StoreOK
<1>2. mem[k] # 0 => Refers(mem[k], k) /\ Refers(mem[k], k)'
  BY DEF Refers, Still
<1> QED
  BY <1>1, <1>2 DEF Object, Still

LEMMA StillSays ==
    ASSUME BaseInv, BaseInv', NEW k \in Keys, Still(k), UNCHANGED queue, UpToLog(k)
    PROVE  UpToLog(k)'
<1>1. PICK l : Says(k, queue, heap, logged, l) /\ Agree(Object(mem[k]), l)
  BY DEF UpToLog
<1>2. ASSUME NEW i \in DOMAIN queue, queue[i].key = k PROVE Saved(queue[i], heap)' = Saved(queue[i], heap)
  <2>1. queue[i].ptr # 0 => queue[i].ptr \in ObjIds
    BY PointerFacts DEF BaseInv, StoreOK, QueuedOK
  <2>2. queue[i].ptr # 0 => Refers(queue[i].ptr, k) /\ Refers(queue[i].ptr, k)'
    BY <1>2 DEF Refers
  <2> QED
    BY <2>1, <2>2 DEF Saved, Still
<1>3. Says(k, queue, heap, logged, l)'
  BY <1>1, <1>2 DEF Says, Still
<1>4. Agree(Object(mem[k]), l)'
  BY <1>1, StillObject
<1> QED
  BY <1>3, <1>4 DEF UpToLog

LEMMA ReferredLives ==
    ASSUME BaseInv, NEW i \in ObjIds, NEW k, Refers(i, k)
    PROVE  heap[i] # NoObj
BY PointerFacts DEF Refers, BaseInv, StoreOK

LEMMA OneKeyKept ==
    ASSUME LogInv, BaseInv', NEW c \in Clients, NEW m, NEW h, NEW q, NEW new, Step(c, m, h, q, new), NEW k0,
           \A k \in Keys : m[k] \in ObjIds => Refers(m[k], k) \/ (k = k0 /\ heap[m[k]] = NoObj),
           new.ptr \in ObjIds => Refers(new.ptr, new.key),
           \A j \in DOMAIN q : q[j].ptr \in ObjIds => Refers(q[j].ptr, q[j].key)
    PROVE  OneKey'
<1>1. ASSUME NEW i \in ObjIds, NEW k, Refers(i, k)' PROVE Refers(i, k) \/ (k = k0 /\ heap[i] = NoObj)
  <2>1. mem' = m /\ queue' = q
    BY DEF Step
  <2>2. CASE k \in Keys /\ mem'[k] = i
    BY <2>1, <2>2
  <2>3. ASSUME NEW d \in Clients, cl'[d].ptr = i, cl'[d].key = k PROVE Refers(i, k)
    <3>1. PICK x : x = IF d = c THEN new ELSE cl[d]
      OBVIOUS
    <3>2. Alike(cl'[d], x)
      BY <3>1, NowFacts
    <3>3. x.ptr = i /\ x.key = k
      BY <2>3, <3>2 DEF Alike
    <3> QED
      BY <3>1, <3>3 DEF Refers
  <2>4. CASE \E j \in DOMAIN queue' : queue'[j].ptr = i /\ queue'[j].key = k
    BY <2>1, <2>4
  <2> QED
    BY <1>1, <2>2, <2>3, <2>4 DEF Refers
<1>2. \A i \in ObjIds : \A k : Refers(i, k) => heap[i] # NoObj
  BY ReferredLives DEF LogInv
<1>3. OneKey
  BY DEF LogInv
<1> HIDE DEF Refers
<1>4. ASSUME NEW i \in ObjIds, NEW k, NEW l, Refers(i, k)', Refers(i, l)' PROVE k = l
  BY <1>1, <1>2, <1>3, <1>4 DEF OneKey
<1> QED
  BY <1>4 DEF OneKey

(* A client keeps what it has while nothing happens to the key it writes.  *)
LEMMA OthersKeep ==
    ASSUME LogInv, BaseInv', NEW d \in Clients, Alike(cl'[d], cl[d]), UNCHANGED job,
           cl[d].pc # "idle" /\ cl[d].op \in Writers => Still(cl[d].key)
    PROVE  ClientKeeps(d)'
<1>1. BaseInv /\ ClientKeeps(d) /\ IsClient(cl[d]) /\ ClientOK(cl[d])
  BY DEF LogInv, BaseInv
<1>2. ASSUME cl[d].pc # "idle", cl[d].op \in Writers
      PROVE  cl[d].key \in Keys /\ mem'[cl[d].key] = mem[cl[d].key]
  BY <1>1, <1>2 DEF ClientOK, Asked, Writers, Still
<1>3. ASSUME cl[d].pc = "logging" PROVE Agree(Object(mem[cl[d].key]), Saved(cl[d].entry, heap))'
  <2>1. PICK k \in Keys : k = cl[d].key /\ Still(k)
    BY <1>1, <1>2, <1>3 DEF ClientKeeps, Busy
  <2>2. Object(mem[k])' = Object(mem[k])
    BY <1>1, <2>1, StillObject
  <2>3. cl'[d].entry = cl[d].entry /\ cl'[d].ptr = cl[d].ptr /\ cl[d].entry.ptr = cl[d].ptr /\ cl'[d].key = k
    BY <1>1, <1>3, <2>1 DEF ClientOK, Alike
  <2>4. cl[d].ptr # 0 => cl[d].ptr \in ObjIds /\ Refers(cl[d].ptr, k) /\ Refers(cl[d].ptr, k)'
    BY <1>1, <2>1, <2>3, PointerFacts DEF Refers, IsClient
  <2>5. Saved(cl[d].entry, heap)' = Saved(cl[d].entry, heap)
    BY <2>1, <2>3, <2>4 DEF Saved, Still
  <2> QED
    BY <1>1, <1>3, <2>1, <2>2, <2>3, <2>5 DEF ClientKeeps
<1> QED
  BY <1>1, <1>2, <1>3 DEF ClientKeeps, Alike, Busy, Finders

(* A step that changes neither the memory nor the log, by a client that is *)
(* not writing, or is refused by the log, and does not begin to write.     *)
LEMMA CalmStep ==
    ASSUME LogInv, BaseInv', NEW c \in Clients, NEW new, Think(c, new),
           \A k \in Keys \ missed' : ~Writing(c, k),
           new.pc \notin Busy,
           new.pc # "idle" => \E r \in job.may[c] : r.op = new.op /\ r.key = new.key,
           new.ptr \in ObjIds => Refers(new.ptr, new.key),
           new.pc = "found" /\ new.op \in Finders => new.ptr = mem[new.key]
    PROVE  LogInv'
<1>0. BaseInv /\ Step(c, mem, heap, queue, new)
  BY DEF LogInv, Think
<1>1. Kept(mem, heap, queue)
  BY <1>0, HeapFacts
<1>2. ASSUME NEW k PROVE Still(k)
  <2>1. ASSUME NEW i \in ObjIds, Refers(i, k)' PROVE heap'[i] = heap[i]
    BY <1>1, <2>1 DEF Kept, Refers
  <2> QED
    BY <1>1, <2>1 DEF Still, Kept
<1>3. OneKey'
  <2>1. /\ \A k \in Keys : mem[k] \in ObjIds => Refers(mem[k], k)
        /\ \A j \in DOMAIN queue : queue[j].ptr \in ObjIds => Refers(queue[j].ptr, queue[j].key)
    BY DEF Refers
  <2> QED
    BY <1>0, <2>1, OneKeyKept
<1>4. \A d \in Clients : Alike(cl'[d], IF d = c THEN new ELSE cl[d])
  BY <1>0, NowFacts
<1>5. ASSUME NEW d \in Clients PROVE ClientKeeps(d)'
  <2>1. CASE d = c
    BY <1>1, <1>4, <2>1 DEF ClientKeeps, Alike, Busy, Kept
  <2>2. CASE d # c
    BY <1>1, <1>2, <1>4, <2>2, OthersKeep DEF Kept
  <2> QED
    BY <2>1, <2>2
<1>6. ASSUME NEW k \in Keys \ missed', \A d \in Clients : ~Writing(d, k)' PROVE UpToLog(k)'
  <2>1. \A d \in Clients : ~Writing(d, k)
    <3>1. \A d \in Clients : d # c => ~Writing(d, k)
      BY <1>0, <1>2, <1>4, <1>6, StillWriting
    <3> QED
      BY <3>1
  <2>2. k \in Keys \ missed
    BY <1>0 DEF Step, Missed
  <2>3. UpToLog(k) /\ queue' = queue
    BY <1>1, <2>1, <2>2 DEF LogInv, Kept
  <2> QED
    BY <1>0, <1>2, <2>3, StillSays
<1> QED
  BY <1>3, <1>5, <1>6 DEF LogInv

(* A step of a command that writes, towards its log entry: it touches no   *)
(* object of another key.                                                  *)
LEMMA WriteStep ==
    ASSUME OneWriter, LogInv, BaseInv', NEW c \in Clients, cl[c].pc # "idle", cl[c].op \in Writers,
           NEW m, NEW h, NEW new, Step(c, m, h, queue, new),
           new.pc \in Busy, new.op = cl[c].op, new.key = cl[c].key,
           \A k \in Keys : k # cl[c].key => m[k] = mem[k],
           m[cl[c].key] \in ObjIds => Refers(m[cl[c].key], cl[c].key) \/ heap[m[cl[c].key]] = NoObj,
           \A i \in ObjIds : heap[i] # NoObj /\ ~Refers(i, cl[c].key) => h[i] = heap[i],
           new.ptr \in ObjIds => Refers(new.ptr, cl[c].key),
           new.pc = "dated" => m[cl[c].key] # 0,
           new.pc = "logging" => Agree(ObjectIn(m[cl[c].key], h), Saved(new.entry, h))
    PROVE  LogInv'
<1>0. BaseInv
  BY DEF LogInv
<1>1. Kept(m, h, queue)
  BY HeapFacts
<1>2. PICK k0 : k0 = cl[c].key
  OBVIOUS
<1>3. ASSUME NEW k, k # k0, k \in Keys PROVE Still(k)
  <2>1. ASSUME NEW i \in ObjIds, Refers(i, k), Refers(i, k)' PROVE heap'[i] = heap[i]
    <3>1. heap[i] # NoObj /\ ~Refers(i, k0)
      BY <1>0, <1>3, <2>1, ReferredLives DEF LogInv, OneKey
    <3>2. heap'[i] = h[i]
      BY <1>1, <2>1 DEF Kept, Refers
    <3> QED
      BY <1>2, <3>1, <3>2
  <2> QED
    BY <1>1, <1>2, <1>3, <2>1 DEF Still, Kept
<1>4. OneKey'
  <2>1. \A k \in Keys : m[k] \in ObjIds => Refers(m[k], k) \/ (k = k0 /\ heap[m[k]] = NoObj)
    BY <1>2 DEF Refers
  <2>2. \A j \in DOMAIN queue : queue[j].ptr \in ObjIds => Refers(queue[j].ptr, queue[j].key)
    BY DEF Refers
  <2> HIDE DEF Refers
  <2> QED
    BY <1>2, <2>1, <2>2, OneKeyKept
<1>5. \A d \in Clients : Alike(cl'[d], IF d = c THEN new ELSE cl[d])
  BY NowFacts
<1>6. ASSUME NEW d \in Clients PROVE ClientKeeps(d)'
  <2>1. CASE d = c
    <3>1. PICK y : y = cl'[c] /\ Alike(y, new) /\ ClientOK(y) /\ IsClient(y)
      BY <1>5, <2>1 DEF BaseInv
    <3>2. \E r \in job.may[c] : r.op = new.op /\ r.key = new.key
      BY DEF LogInv, ClientKeeps
    <3>3. ASSUME new.pc = "logging" PROVE Agree(Object(mem[y.key])', Saved(y.entry, heap'))
      <4>1. y.entry = new.entry /\ y.ptr = new.ptr /\ y.entry.ptr = y.ptr /\ y.key = k0 /\ k0 \in Keys
        BY <1>2, <3>1, <3>3 DEF Alike, ClientOK, Asked
      <4>2. y.ptr \in Pointers /\ (y.ptr # 0 => y.ptr \in ObjIds)
        BY <3>1, PointerFacts DEF IsClient
      <4>3. Saved(y.entry, heap') = Saved(new.entry, h)
        BY <1>1, <3>1, <4>1, <4>2 DEF Kept, Saved
      <4>4. Object(mem[k0])' = ObjectIn(m[k0], h)
        <5>1. m[k0] # 0 => m[k0] \in ObjIds
          BY <1>1, <4>1, PointerFacts DEF BaseInv, StoreOK, Kept
        <5> QED
          BY <1>1, <4>1, <5>1 DEF Kept, Object, ObjectIn
      <4> QED
        BY <1>2, <3>3, <4>1, <4>3, <4>4
    <3> QED
      BY <1>1, <1>2, <2>1, <3>1, <3>2, <3>3 DEF ClientKeeps, Alike, Busy, Kept
  <2>2. CASE d # c
    <3>1. Alike(cl'[d], cl[d]) /\ job' = job
      BY <1>1, <1>5, <2>2 DEF Kept
    <3>2. ASSUME cl[d].pc # "idle", cl[d].op \in Writers PROVE Still(cl[d].key)
      <4>1. cl[d].key # k0
        BY <1>2, <2>2, <3>2, SoleWriter
      <4>2. cl[d].key \in Keys
        BY <1>0, <3>2 DEF BaseInv, ClientOK, Asked, Writers
      <4> QED
        BY <1>3, <4>1, <4>2
    <3> QED
      BY <3>1, <3>2, OthersKeep
  <2> QED
    BY <2>1, <2>2
<1>7. ASSUME NEW k \in Keys \ missed', \A d \in Clients : ~Writing(d, k)' PROVE UpToLog(k)'
  <2>0. k \in Keys \ missed
    BY DEF Step, Missed
  <2>1. k # k0
    BY <1>2, <1>5, <1>7 DEF Writing, Alike, Busy
  <2>2. \A d \in Clients : d # c => ~Writing(d, k)
    BY <1>0, <1>3, <1>5, <1>7, <2>1, StillWriting
  <2>3. ~Writing(c, k)
    BY <1>2, <2>1 DEF Writing
  <2>4. UpToLog(k) /\ queue' = queue
    BY <1>1, <2>0, <2>2, <2>3 DEF LogInv, Kept
  <2> QED
    BY <1>0, <1>3, <2>1, <2>4, StillSays
<1> QED
  BY <1>4, <1>6, <1>7 DEF LogInv

LEMMA PutStep ==
    ASSUME LogInv, BaseInv', NEW c \in Clients, LogPut(c)
    PROVE  LogInv'
<1>1. PICK x : x = cl[c] /\ x.pc = "logging" /\ IsClient(x) /\ ClientOK(x) /\ ClientKeeps(c)
  BY DEF LogPut, LogInv, BaseInv
<1>2. PICK k0 \in Keys : k0 = x.key
  BY <1>1 DEF ClientOK, Asked
<1>3. PICK e : e = Queued(k0, x.entry)
  OBVIOUS
<1>4. e.key = k0 /\ e.ptr = x.ptr /\ x.entry.ptr = x.ptr /\ e.obj = x.entry.obj
  BY <1>1, <1>3 DEF Queued, ClientOK
<1>5. PICK q : q = Append(queue, e)
  OBVIOUS
<1>6. Step(c, mem, heap, q, IdleClient)
  BY <1>1, <1>2, <1>3, <1>5 DEF LogPut
<1>7. Kept(mem, heap, q) /\ BaseInv
  BY <1>6, HeapFacts DEF LogInv
<1>8. /\ Len(queue) + 1 \in DOMAIN q /\ q[Len(queue) + 1] = e
      /\ \A j \in DOMAIN queue : j \in DOMAIN q /\ q[j] = queue[j] /\ j <= Len(queue) + 1
      /\ \A j \in DOMAIN q : j \in DOMAIN queue \/ j = Len(queue) + 1
  <2>1. IsSequence(queue) /\ Len(queue) \in Nat /\ DOMAIN queue = 1 .. Len(queue)
    BY <1>7, SequenceFacts DEF BaseInv, StoreOK
  <2>2. IsSequence(q) /\ Len(q) = Len(queue) + 1 /\ DOMAIN q = 1 .. Len(q)
    BY <1>5, <2>1, AppendFacts, SequenceFacts
  <2>3. q[Len(queue) + 1] = e /\ \A j \in DOMAIN queue : q[j] = queue[j]
    BY <1>5, <2>1, AppendFacts
  <2> QED
    BY <2>1, <2>2, <2>3
<1>9. ASSUME NEW k PROVE Still(k)
  <2>1. ASSUME NEW i \in ObjIds, Refers(i, k)' PROVE heap'[i] = heap[i]
    BY <1>7, <2>1 DEF Kept, Refers
  <2> QED
    BY <1>7, <2>1 DEF Still, Kept
<1>10. OneKey'
  <2>1. \A k \in Keys : mem[k] \in ObjIds => Refers(mem[k], k)
    BY DEF Refers
  <2>2. \A j \in DOMAIN q : q[j].ptr \in ObjIds => Refers(q[j].ptr, q[j].key)
    BY <1>1, <1>2, <1>4, <1>8 DEF Refers
  <2>3. IdleClient.ptr \notin ObjIds
    BY IdleFacts, PointerFacts
  <2> HIDE DEF Refers
  <2> QED
    BY <1>6, <2>1, <2>2, <2>3, OneKeyKept
<1>11. \A d \in Clients : Alike(cl'[d], IF d = c THEN IdleClient ELSE cl[d])
  BY <1>6, NowFacts
<1>12. ASSUME NEW d \in Clients PROVE ClientKeeps(d)'
  <2>1. CASE d = c
    BY <1>11, <2>1, IdleFacts DEF ClientKeeps, Alike, Busy
  <2>2. CASE d # c
    BY <1>7, <1>9, <1>11, <2>2, OthersKeep DEF Kept
  <2> QED
    BY <2>1, <2>2
<1>13. ASSUME NEW k \in Keys \ missed', \A d \in Clients : ~Writing(d, k)' PROVE UpToLog(k)'
  <2>1. Object(mem[k])' = Object(mem[k])
    BY <1>7, <1>9, StillObject
  <2>2. queue' = q /\ logged' = logged
    BY <1>7 DEF Kept
  <2>3. CASE k = k0
    <3>1. PICK l : l = Saved(x.entry, heap) /\ Agree(Object(mem[k]), l)
      BY <1>1, <1>2, <2>3 DEF ClientKeeps
    <3>2. l = Saved(e, heap')
      <4>1. x.ptr # 0 => x.ptr \in ObjIds
        BY <1>1, PointerFacts DEF IsClient
      <4>2. x.ptr # 0 => heap'[x.ptr] = heap[x.ptr]
        BY <1>4, <1>7, <1>8, <4>1 DEF Kept
      <4> QED
        BY <1>4, <3>1, <4>2 DEF Saved
    <3>3. Says(k, q, heap', logged', l)
      BY <1>4, <1>8, <2>3, <3>2 DEF Says
    <3> QED
      BY <2>1, <2>2, <3>1, <3>3 DEF UpToLog, Agree
  <2>4. CASE k # k0
    <3>1. \A d \in Clients : d # c => ~Writing(d, k)
      BY <1>7, <1>9, <1>11, <1>13, StillWriting
    <3>2. ~Writing(c, k)
      BY <1>1, <1>2, <2>4 DEF Writing
    <3>6. k \in Keys \ missed
      BY <1>1, <1>2, <1>6, <2>4 DEF Step, Missed
    <3>3. PICK l : Says(k, queue, heap, logged, l) /\ Agree(Object(mem[k]), l)
      BY <3>1, <3>2, <3>6 DEF LogInv, UpToLog
    <3>4. ASSUME NEW j \in DOMAIN queue PROVE Saved(queue[j], heap') = Saved(queue[j], heap)
      BY <1>7, <1>8, PointerFacts DEF Kept, Saved, BaseInv, StoreOK, QueuedOK
    <3>5. Says(k, q, heap', logged', l)
      <4>1. CASE (\A i \in DOMAIN queue : queue[i].key # k) /\ l = logged[k]
        BY <1>4, <1>8, <2>2, <2>4, <4>1 DEF Says
      <4>2. ASSUME NEW i \in DOMAIN queue, queue[i].key = k, l = Saved(queue[i], heap),
                   \A j \in DOMAIN queue : queue[j].key = k => j <= i
            PROVE  Says(k, q, heap', logged', l)
        BY <1>4, <1>8, <2>4, <3>4, <4>2 DEF Says
      <4> QED
        BY <3>3, <4>1, <4>2 DEF Says
    <3> QED
      BY <2>1, <2>2, <3>3, <3>5 DEF UpToLog, Agree
  <2> QED
    BY <2>3, <2>4
<1> QED
  BY <1>7, <1>10, <1>12, <1>13 DEF LogInv

(* The log goroutine takes an entry, and writes it or drops it.            *)
LEMMA TakeStep ==
    ASSUME LogInv, BaseInv', LogTake \/ \E c \in Clients : LogTakeTorn(c) \/ LogDrop(c)
    PROVE  LogInv'
<1>1. PICK e : e = Head(queue)
  OBVIOUS
<1>2. /\ UNCHANGED <<job, mem, heap, cl>> /\ queue # <<>> /\ queue' = Tail(queue) /\ BaseInv
      /\ missed \subseteq missed'
  BY <1>1 DEF LogTake, LogTakeTorn, LogDrop, LogInv
<1>3. PICK v : /\ \A k \in Keys : logged'[k] = IF k = e.key THEN v ELSE logged[k]
               /\ \/ v = Saved(e, heap)
                  \/ \E c \in Clients : Writing(c, e.key)
                  \/ \E i \in 2 .. Len(queue) : queue[i].key = e.key
                  \/ e.key \in missed'
  <2>1. CASE LogTake
    BY <1>1, <1>2, <2>1 DEF LogTake, Marshalled, Saved, BaseInv
  <2>2. ASSUME NEW c \in Clients, LogTakeTorn(c) PROVE Writing(c, e.key)
    <3>1. e.ptr # 0 /\ e.ptr = cl[c].ptr /\ Plain(c) /\ Effect(c).do \in {"inplace", "regress"}
      BY <1>1, <2>2 DEF LogTakeTorn, Assigns
    <3>2. e.ptr \in ObjIds
      BY <1>2, <3>1, PointerFacts DEF BaseInv, IsClient
    <3>3. IsSequence(queue)
      BY <1>2 DEF BaseInv, StoreOK
    <3>4. Refers(e.ptr, e.key)
      BY <1>1, <1>2, <3>3, TailFacts DEF Refers
    <3>5. Refers(e.ptr, cl[c].key)
      BY <3>1 DEF Refers
    <3>6. e.key = cl[c].key
      BY <3>2, <3>4, <3>5 DEF LogInv, OneKey
    <3> QED
      BY <3>1, <3>6 DEF Writing
  <2>3. ASSUME NEW c \in Clients, LogTakeTorn(c)
        PROVE  \E v : (\A k \in Keys : logged'[k] = IF k = e.key THEN v ELSE logged[k]) /\ Writing(c, e.key)
    BY <1>1, <1>2, <2>2, <2>3 DEF LogTakeTorn, BaseInv
  <2>4. CASE \E c \in Clients : LogDrop(c)
    <3>1. logged' = logged /\ ((\E i \in 2 .. Len(queue) : queue[i].key = e.key) \/ e.key \in missed')
      BY <1>1, <2>4 DEF LogDrop
    <3>2. \A k \in Keys : logged'[k] = IF k = e.key THEN logged[e.key] ELSE logged[k]
      BY <3>1
    <3> QED
      BY <3>1, <3>2
  <2> QED
    BY <2>1, <2>3, <2>4
<1>4. /\ e = queue[1] /\ 1 \in DOMAIN queue /\ DOMAIN queue \subseteq Nat \ {0}
      /\ \A i \in DOMAIN queue' : i + 1 \in DOMAIN queue /\ queue'[i] = queue[i + 1] /\ i \in Nat \ {0}
      /\ \A i \in DOMAIN queue : i # 1 => i - 1 \in DOMAIN queue' /\ queue'[i - 1] = queue[i]
  <2>1. IsSequence(queue) /\ Len(queue) \in Nat /\ DOMAIN queue = 1 .. Len(queue)
    BY <1>2, SequenceFacts DEF BaseInv, StoreOK
  <2>2. /\ IsSequence(queue') /\ Len(queue') = Len(queue) - 1 /\ DOMAIN queue' = 1 .. Len(queue')
        /\ \A i \in DOMAIN queue' : queue'[i] = queue[i + 1]
        /\ e = queue[1] /\ 1 \in DOMAIN queue
    BY <1>1, <1>2, <2>1, TailFacts, SequenceFacts
  <2>3. \A i \in DOMAIN queue : i # 1 => i - 1 \in DOMAIN queue' /\ (i - 1) + 1 = i
    BY <2>1, <2>2
  <2> QED
    BY <2>1, <2>2, <2>3
<1>5. OneKey'
  <2>1. \A i, k : Refers(i, k)' => Refers(i, k)
    BY <1>2, <1>4 DEF Refers
  <2> QED
    BY <2>1 DEF LogInv, OneKey
<1>6. \A c \in Clients : ClientKeeps(c)'
  BY <1>2 DEF LogInv, ClientKeeps, Object, Saved
<1>7. ASSUME NEW k \in Keys \ missed', \A c \in Clients : ~Writing(c, k)' PROVE UpToLog(k)'
  <2>1. \A c \in Clients : Writing(c, k)' <=> Writing(c, k)
    BY <1>2 DEF Writing, Plain, Scanning, Effect, Object
  <2>2. PICK l : Says(k, queue, heap, logged, l) /\ Agree(Object(mem[k]), l)
    BY <1>2, <1>7, <2>1 DEF LogInv, UpToLog
  <2>3. e.key = k => logged'[k] = Saved(e, heap) \/ \E i \in 2 .. Len(queue) : queue[i].key = k
    BY <1>2, <1>3, <1>7, <2>1 DEF BaseInv
  <2>6. \A i \in 2 .. Len(queue) : i \in DOMAIN queue /\ i > 1
    BY <1>2, SequenceFacts DEF BaseInv, StoreOK
  <2>4. e.key # k => logged'[k] = logged[k]
    BY <1>2, <1>3 DEF BaseInv
  <2>5. Says(k, queue', heap, logged', l)
    <3>1. CASE (\A i \in DOMAIN queue : queue[i].key # k) /\ l = logged[k]
      BY <1>4, <2>4, <3>1 DEF Says
    <3>2. ASSUME NEW i \in DOMAIN queue, queue[i].key = k, l = Saved(queue[i], heap),
                 \A j \in DOMAIN queue : queue[j].key = k => j <= i
          PROVE  Says(k, queue', heap, logged', l)
      <4>1. CASE i = 1
        <5>1. \A j \in DOMAIN queue' : queue'[j].key # k
          BY <1>4, <3>2, <4>1
        <5>2. \A j \in 2 .. Len(queue) : queue[j].key # k
          BY <2>6, <3>2, <4>1
        <5> QED
          BY <1>4, <2>3, <3>2, <4>1, <5>1, <5>2 DEF Says
      <4>2. CASE i # 1
        <5>1. PICK n : n = i - 1
          OBVIOUS
        <5>2. n \in DOMAIN queue' /\ queue'[n] = queue[i]
          BY <1>4, <4>2, <5>1
        <5>3. \A j \in DOMAIN queue' : queue'[j].key = k => j <= n
          BY <1>4, <3>2, <5>1
        <5> QED
          BY <3>2, <5>2, <5>3 DEF Says
      <4> QED
        BY <4>1, <4>2
    <3> QED
      BY <2>2, <3>1, <3>2 DEF Says
  <2> QED
    BY <1>2, <2>2, <2>5 DEF UpToLog, Object
<1> QED
  BY <1>5, <1>6, <1>7 DEF LogInv

LEMMA IdleLog ==
    ASSUME LogInv, BaseInv', UNCHANGED <<job, mem, heap, queue, logged, missed, cl>>
    PROVE  LogInv'
<1>1. \A i, k : Refers(i, k)' <=> Refers(i, k)
  BY DEF Refers
<1>2. \A c \in Clients : ClientKeeps(c)'
  BY DEF LogInv, ClientKeeps, Object, Saved
<1>3. \A c \in Clients, k \in Keys : Writing(c, k)' <=> Writing(c, k)
  BY DEF Writing, Plain, Scanning, Effect, Object
<1>4. \A k \in Keys : UpToLog(k) => UpToLog(k)'
  BY DEF UpToLog, Says, Object, Saved
<1>5. OneKey'
  BY <1>1 DEF LogInv, OneKey
<1> QED
  BY <1>2, <1>3, <1>4, <1>5 DEF LogInv

LEMMA RefusedStep ==
    ASSUME LogInv, BaseInv', NEW c \in Clients, LogRefused(c)
    PROVE  LogInv'
<1>1. cl[c].pc = "logging" /\ Think(c, IdleClient)
  BY DEF LogRefused
<1>2. missed' = missed \cup {cl[c].key}
  BY <1>1 DEF Think, Step, Missed
<1>3. \A k \in Keys \ missed' : ~Writing(c, k)
  BY <1>2 DEF Writing
<1> QED
  BY <1>1, <1>3, IdleFacts, PointerFacts, CalmStep DEF Busy

(* Requests, and the steps of those that only look.                        *)
LEMMA ReceiveLog ==
    ASSUME LogInv, BaseInv', NEW c \in Clients, Invoke(c)
    PROVE  LogInv'
<1>0. BaseInv
  BY DEF LogInv
<1>1. PICK r \in job.may[c] : Receive(c, r)
  BY DEF Invoke
<1>2. IsRequest(r) /\ \A k : ~Writing(c, k)
  BY <1>0, <1>1, CommandsAssumption DEF BaseInv, Receive, Writing, Plain
<1>3. CASE Refused(r)
  <2>1. Think(c, IdleClient)
    BY <1>1, <1>3 DEF Receive
  <2> QED
    BY <1>2, <2>1, IdleFacts, PointerFacts, CalmStep DEF Busy
<1>4. CASE ~Refused(r)
  <2>1. PICK x : x = Received(c, r)
    OBVIOUS
  <2>2. Think(c, x)
    BY <1>1, <1>4, <2>1 DEF Receive, Received
  <2>3. /\ x.ptr \in {0, Lookup(r.key)}
        /\ r.op \in Finders => x.ptr = Lookup(r.key) /\ r.key \in Keys
        /\ x.pc = IF r.op = "EXISTS" THEN "scan" ELSE "found"
        /\ x.op = r.op /\ x.key = r.key
    BY <1>0, <1>2, <1>4, <2>1, ReceivedFacts
  <2>4. x.ptr \in ObjIds => Refers(x.ptr, x.key)
    BY <2>3, PointerFacts DEF Lookup, Refers
  <2>5. x.pc \notin Busy
    BY <2>3 DEF Busy
  <2>6. x.op \in Finders => x.ptr = mem[x.key]
    BY <2>3 DEF Lookup
  <2> QED
    BY <1>2, <2>2, <2>3, <2>4, <2>5, <2>6, CalmStep
<1> QED
  BY <1>3, <1>4

LEMMA CalmMove ==
    ASSUME LogInv, BaseInv', NEW c \in Clients, NEW new, Think(c, new), \A k : ~Writing(c, k),
           \/ new = IdleClient
           \/ cl[c].pc # "idle" /\ \E t, a : \E p \in {0, cl[c].ptr} : Moved(cl[c], new, "scan", p, t, a)
    PROVE  LogInv'
<1>1. CASE new = IdleClient
  BY <1>1, IdleFacts, PointerFacts, CalmStep DEF Busy
<1>2. CASE cl[c].pc # "idle" /\ \E t, a : \E p \in {0, cl[c].ptr} : Moved(cl[c], new, "scan", p, t, a)
  <2>1. new.pc = "scan" /\ new.op = cl[c].op /\ new.key = cl[c].key /\ new.ptr \in {0, cl[c].ptr}
    BY <1>2 DEF Moved
  <2>2. new.ptr \in ObjIds => Refers(new.ptr, new.key)
    BY <2>1, PointerFacts DEF Refers
  <2>3. \E r \in job.may[c] : r.op = new.op /\ r.key = new.key
    BY <1>2, <2>1 DEF LogInv, ClientKeeps
  <2> QED
    BY <2>1, <2>2, <2>3, CalmStep DEF Busy
<1> QED
  BY <1>1, <1>2

LEMMA LooksLog ==
    ASSUME LogInv, BaseInv', NEW c \in Clients,
           \/ ExistsStep(c) \/ ScanEnd(c) \/ RefsStart(c) \/ RefsStep(c)
           \/ GetRefsStart(c) \/ GetRefsStep(c)
    PROVE  LogInv'
<1>1. PICK x : x = cl[c]
  OBVIOUS
<1>2. IsClient(x) /\ x.ptr \in Pointers /\ 0 \in Pointers
  BY <1>1 DEF LogInv, BaseInv, IsClient, Pointers
<1>3. (\A k : ~Writing(c, k)) /\ cl[c].pc # "idle"
  BY DEF Writing, Plain, Scanning, ExistsStep, ScanEnd, RefsStart, RefsStep, GetRefsStart, GetRefsStep
<1>4. CASE ExistsStep(c)
  <2>1. PICK todo, acc : todo = Tail(x.todo)
                         /\ acc = Num(Wrap(x.acc.num + (IF Lookup(Head(x.todo)) = 0 THEN 0 ELSE 1)))
    OBVIOUS
  <2>2. PICK new : new = [x EXCEPT !.todo = todo, !.acc = acc]
    OBVIOUS
  <2>3. Think(c, new) /\ x.pc = "scan"
    BY <1>1, <1>4, <2>1, <2>2 DEF ExistsStep
  <2>4. Moved(x, new, "scan", x.ptr, todo, acc)
    BY <1>2, <2>2, <2>3, MovedFacts DEF Pcs
  <2> QED
    BY <1>1, <1>3, <2>3, <2>4, CalmMove
<1>5. CASE ScanEnd(c)
  BY <1>3, <1>5, CalmMove DEF ScanEnd
<1>6. CASE RefsStart(c)
  <2>1. CASE Think(c, IdleClient)
    BY <1>3, <2>1, CalmMove
  <2>2. CASE \E todo : Think(c, [x EXCEPT !.pc = "scan", !.todo = todo, !.acc = x.args[1]])
    <3>1. PICK todo, acc : acc = x.args[1] /\ Think(c, [x EXCEPT !.pc = "scan", !.todo = todo, !.acc = x.args[1]])
      BY <2>2
    <3>2. PICK new : new = [x EXCEPT !.pc = "scan", !.todo = todo, !.acc = acc]
      OBVIOUS
    <3>3. Think(c, new) /\ Moved(x, new, "scan", x.ptr, todo, acc)
      BY <1>2, <3>1, <3>2, MovedFacts DEF Pcs
    <3> QED
      BY <1>1, <1>3, <3>3, CalmMove
  <2> QED
    BY <1>1, <1>6, <2>1, <2>2 DEF RefsStart
<1>7. CASE RefsStep(c)
  <2>1. PICK r : r = Head(x.todo)
    OBVIOUS
  <2>2. PICK todo, acc : todo = Tail(x.todo)
            /\ acc = IF Is(x.acc, "null") \/ Blocked(x.acc, r.path) THEN x.acc
                     ELSE AddNestedKey(x.acc, r.path, Ref(r.key))
    OBVIOUS
  <2>3. PICK new : new = [x EXCEPT !.todo = todo, !.acc = acc]
    OBVIOUS
  <2>4. x.pc = "scan" /\ (Think(c, IdleClient) \/ Think(c, new))
    BY <1>1, <1>7, <2>1, <2>2, <2>3 DEF RefsStep
  <2>5. Moved(x, new, "scan", x.ptr, todo, acc)
    BY <1>2, <2>3, <2>4, MovedFacts DEF Pcs
  <2> QED
    BY <1>1, <1>3, <2>4, <2>5, CalmMove
<1>8. CASE GetRefsStart(c)
  <2>1. PICK todo, acc : todo = Tail(x.args) /\ acc = Object(x.ptr).val
    OBVIOUS
  <2>2. PICK new : new = [x EXCEPT !.pc = "scan", !.ptr = 0, !.acc = acc, !.todo = todo]
    OBVIOUS
  <2>3. Think(c, IdleClient) \/ Think(c, new)
    BY <1>1, <1>8, <2>1, <2>2 DEF GetRefsStart
  <2>4. Moved(x, new, "scan", 0, todo, acc)
    BY <1>2, <2>2, MovedFacts DEF Pcs
  <2> QED
    BY <1>1, <1>3, <2>3, <2>4, CalmMove
<1>9. CASE GetRefsStep(c)
  <2>1. PICK v : v = Resolved(x.acc, Head(x.todo).path)
    OBVIOUS
  <2>2. PICK todo : todo = Tail(x.todo)
    OBVIOUS
  <2>3. PICK new : new = IF Is(v, "missing") THEN [x EXCEPT !.todo = <<>>]
                         ELSE [x EXCEPT !.todo = todo, !.acc = v]
    OBVIOUS
  <2>4. Think(c, new) /\ x.pc = "scan"
    BY <1>1, <1>9, <2>1, <2>2, <2>3 DEF GetRefsStep
  <2>5. PICK t, a : t = (IF Is(v, "missing") THEN <<>> ELSE todo)
                    /\ a = IF Is(v, "missing") THEN x.acc ELSE v
    OBVIOUS
  <2>6. Moved(x, new, "scan", x.ptr, t, a)
    <3>1. x.pc \in Pcs
      BY <2>4 DEF Pcs
    <3>2. CASE Is(v, "missing")
      BY <1>2, <2>3, <2>4, <2>5, <3>1, <3>2, MovedFacts
    <3>3. CASE ~Is(v, "missing")
      BY <1>2, <2>3, <2>4, <2>5, <3>1, <3>3, MovedFacts
    <3> QED
      BY <3>2, <3>3
  <2> QED
    BY <1>1, <1>3, <2>4, <2>6, CalmMove
<1> QED
  BY <1>4, <1>5, <1>6, <1>7, <1>8, <1>9

(* Only commands that write change anything.                               *)
LEMMA WhoChanges ==
    ASSUME NEW op \in OneLook, NEW o, NEW a
    PROVE  /\ Execute(op, o, a).do \notin {"none", "die"} => op \in Writers
           /\ Execute(op, o, a).do \in {"inplace", "regress"} => op \in {"MAP.DEL", "LIST.GPOP"}
<1>1. ASSUME op \notin Writers PROVE Execute(op, o, a).do \in {"none", "die"}
  <2>1. CASE op \in {"GET", "STR.GET", "STR.LENGTH", "STR.RANGE", "NUM.GET"}
    BY <2>1 DEF Execute, GetKey, StrGet, StrLength, StrRange, NumGet, Answer, Fail, Die
  <2>2. CASE op \in {"LIST.GET", "LIST.LEN", "LIST.FIND"}
    BY <2>2 DEF Execute, ListGet, ListLen, ListFind, OfList, Answer, Fail
  <2>3. CASE op \in {"MAP.GET", "JSON.GET", "JSON.PGET", "TTL"}
    BY <2>3 DEF Execute, MapGet, JsonPGet, OfDocument, Answer, Fail, Die
  <2> QED
    BY <1>1, <2>1, <2>2, <2>3 DEF OneLook, Readers
<1>2. ASSUME op \in Writers, op \notin {"MAP.DEL", "LIST.GPOP"}
      PROVE  Execute(op, o, a).do \notin {"inplace", "regress"}
  <2>1. CASE op \in {"SET", "STR.SET", "STR.APPEND", "NUM.SET", "NUM.INCR", "NUM.DECR"}
    BY <2>1 DEF Execute, SetKey, StrSet, StrAppend, NumSet, NumAdd, Set, Fail, Answer
  <2>2. CASE op \in {"LIST.PUSH", "LIST.SET", "LIST.ISET", "LIST.POP"}
    BY <2>2 DEF Execute, ListPush, ListSet, ListISet, ListPop, OfList, Set, Fail, Answer, Delete
  <2>3. CASE op \in {"MAP.SET", "JSON.SET", "JSON.ADD", "JSON.MERGE", "JSON.REMOVE"}
    BY <2>3 DEF Execute, MapSet, JsonSet, JsonAdd, JsonMerge, JsonRemove, SetDocument, Set, Fail, Answer, Delete, Die
  <2> QED
    BY <1>2, <2>1, <2>2, <2>3 DEF OneLook, Writers
<1> QED
  BY <1>1, <1>2

(* Key k0 gets a fresh object, and its log entry says the same.            *)
LEMMA BindLog ==
    ASSUME OneWriter, LogInv, BaseInv', NEW c \in Clients, cl[c].pc # "idle", cl[c].op \in Writers,
           NEW v, NEW kind, NEW out, Bind(c, v, kind, out)
    PROVE  LogInv'
<1>0. BaseInv /\ cl[c].op # "EXISTS" /\ cl[c].key \in Keys
  BY DEF LogInv, BaseInv, ClientOK, Asked, Writers
<1>1. PICK f \in ObjIds : f = Fresh /\ heap[f] = NoObj
  BY FreshFacts DEF Bind
<1>2. PICK m : m = [mem EXCEPT ![cl[c].key] = f]
  OBVIOUS
<1>3. PICK h : h = [heap EXCEPT ![f] = NewObj(v, kind)]
  OBVIOUS
<1>4. PICK new : new = Logging(c, ByValue(v, kind), out)
  OBVIOUS
<1>5. Step(c, m, h, queue, new)
  BY <1>1, <1>2, <1>3, <1>4 DEF Bind
<1>6. LoggingOK(new, cl[c], ByValue(v, kind), out) /\ ByValue(v, kind).ptr = 0
  BY <1>0, <1>4, EntryFacts, LoggingFacts
<1>7. m[cl[c].key] = f /\ \A k \in Keys : k # cl[c].key => m[k] = mem[k]
  BY <1>0, <1>2 DEF BaseInv, StoreOK
<1>8. h[f] = NewObj(v, kind) /\ \A i \in ObjIds : heap[i] # NoObj => h[i] = heap[i]
  BY <1>0, <1>1, <1>3 DEF BaseInv, StoreOK
<1>9. Agree(ObjectIn(m[cl[c].key], h), Saved(new.entry, h))
  <2>1. ObjectIn(m[cl[c].key], h) = NewObj(v, kind)
    BY <1>1, <1>7, <1>8, PointerFacts DEF ObjectIn
  <2>2. Saved(new.entry, h) = NewObj(v, kind)
    BY <1>6 DEF LoggingOK, Saved, ByValue
  <2> QED
    BY <2>1, <2>2 DEF Agree
<1>10. /\ new.pc = "logging" /\ new.pc \in Busy /\ new.pc # "dated" /\ new.op = cl[c].op /\ new.key = cl[c].key
       /\ new.ptr \notin ObjIds
  BY <1>6, PointerFacts DEF LoggingOK, Busy
<1> QED
  BY <1>1, <1>5, <1>7, <1>8, <1>9, <1>10, WriteStep

LEMMA RemoveLog ==
    ASSUME OneWriter, LogInv, BaseInv', NEW c \in Clients, cl[c].pc # "idle", cl[c].op \in Writers,
           NEW new, Step(c, [mem EXCEPT ![cl[c].key] = 0], heap, queue, new),
           new.op = cl[c].op, new.key = cl[c].key,
           \/ new.pc = "logging" /\ new.entry = Deletion /\ new.ptr = 0
           \/ new.pc = "emptied" /\ new.ptr = cl[c].ptr
    PROVE  LogInv'
<1>0. BaseInv /\ cl[c].key \in Keys
  BY DEF LogInv, BaseInv, ClientOK, Asked, Writers
<1>1. PICK m : m = [mem EXCEPT ![cl[c].key] = 0]
  OBVIOUS
<1>2. m[cl[c].key] = 0 /\ \A k \in Keys : k # cl[c].key => m[k] = mem[k]
  BY <1>0, <1>1 DEF BaseInv, StoreOK
<1>3. new.pc = "logging" => Agree(ObjectIn(m[cl[c].key], heap), Saved(new.entry, heap))
  BY <1>2 DEF Agree, ObjectIn, Saved, Deletion
<1>4. new.pc \in Busy /\ new.pc # "dated" /\ (new.ptr \in ObjIds => Refers(new.ptr, cl[c].key))
  BY PointerFacts DEF Busy, Refers
<1>5. Step(c, m, heap, queue, new) /\ m[cl[c].key] \notin ObjIds
  BY <1>1, <1>2, PointerFacts
<1>6. PICK h : h = heap
  OBVIOUS
<1>7. Step(c, m, h, queue, new)
  BY <1>5, <1>6
<1>8. \A i \in ObjIds : h[i] = heap[i]
  BY <1>6
<1> QED
  BY <1>2, <1>3, <1>4, <1>5, <1>6, <1>7, <1>8, WriteStep

LEMMA DecideLog ==
    ASSUME OneWriter, LogInv, BaseInv', NEW c \in Clients, Decide(c)
    PROVE  LogInv'
<1>0. BaseInv /\ Plain(c) /\ ClientKeeps(c)
  BY DEF Decide, LogInv
<1>1. PICK e : e = Effect(c)
  OBVIOUS
<1>2. PICK i \in Pointers : i = cl[c].ptr
  BY <1>0, FoundFacts
<1>3. /\ EffectOK(e, cl[c].op, Object(i), cl[c].args)
      /\ cl[c].op \in OneLook /\ cl[c].key \in Keys /\ cl[c].pc = "found" /\ cl[c].op # "EXISTS"
      /\ Object(i) # NoObj => i \in ObjIds /\ IsObject(heap[i]) /\ Object(i) = heap[i]
  BY <1>0, <1>1, <1>2, FoundFacts
<1>4. /\ e.do \notin {"none", "die"} => cl[c].op \in Writers
      /\ e.do \in {"inplace", "regress"} => cl[c].op \in {"MAP.DEL", "LIST.GPOP"}
  BY <1>1, <1>3, WhoChanges DEF Effect
<1>5. e.do \in {"inplace", "regress"} => mem[cl[c].key] = i
  BY <1>0, <1>2, <1>3, <1>4 DEF ClientKeeps, Finders, OneLook, Writers, Blind
<1>6. CASE Reply(c, e)
  <2>1. \A k : ~Writing(c, k)
    BY <1>1, <1>3, <1>6 DEF Reply, Writing
  <2> QED
    BY <1>6, <2>1, CalmMove DEF Reply
<1>7. CASE ChangeSet(c, e)
  BY <1>3, <1>4, <1>7, BindLog DEF ChangeSet
<1>8. CASE ChangeDelete(c, e)
  <2>1. PICK new : new = Logging(c, Deletion, e.out)
    OBVIOUS
  <2>2. LoggingOK(new, cl[c], Deletion, e.out)
    BY <1>0, <1>3, <2>1, EntryFacts, LoggingFacts
  <2>3. Step(c, [mem EXCEPT ![cl[c].key] = 0], heap, queue, new)
    BY <1>8, <2>1 DEF ChangeDelete
  <2>4. cl[c].op \in Writers
    BY <1>4, <1>8 DEF ChangeDelete
  <2> QED
    BY <1>3, <2>2, <2>3, <2>4, EntryFacts, RemoveLog DEF LoggingOK
<1>9. CASE ChangeInPlace(c, e)
  <2>1. PICK new : new = Logging(c, ByPointer(i), e.out)
    OBVIOUS
  <2>2. LoggingOK(new, cl[c], ByPointer(i), e.out) /\ ByPointer(i).ptr = i
    BY <1>0, <1>3, <2>1, EntryFacts, LoggingFacts
  <2>3. i \in ObjIds /\ mem[cl[c].key] = i /\ Refers(i, cl[c].key) /\ cl[c].op \in Writers
    BY <1>3, <1>4, <1>5, <1>9 DEF ChangeInPlace, EffectOK, Refers
  <2>4. PICK o : o = [heap[i] EXCEPT !.val = e.val]
    OBVIOUS
  <2>5. PICK h : h = [heap EXCEPT ![i] = o]
    OBVIOUS
  <2>6. Step(c, mem, h, queue, new)
    BY <1>2, <1>9, <2>1, <2>4, <2>5 DEF ChangeInPlace
  <2>7. \A j \in ObjIds : ~Refers(j, cl[c].key) => h[j] = heap[j]
    BY <1>0, <2>3, <2>5 DEF BaseInv, StoreOK
  <2>8. Agree(ObjectIn(mem[cl[c].key], h), Saved(new.entry, h))
    BY <2>2, <2>3, PointerFacts DEF LoggingOK, Agree, ObjectIn, Saved
  <2>9. /\ new.pc = "logging" /\ new.pc \in Busy /\ new.pc # "dated" /\ new.op = cl[c].op /\ new.key = cl[c].key
        /\ new.ptr = i
    BY <2>2 DEF LoggingOK, Busy
  <2> QED
    BY <1>3, <2>3, <2>6, <2>7, <2>8, <2>9, WriteStep
<1>10. CASE ChangeRegress(c, e)
  <2>1. PICK new : new = Logging(c, ByPointer(i), e.out)
    OBVIOUS
  <2>2. LoggingOK(new, cl[c], ByPointer(i), e.out) /\ ByPointer(i).ptr = i
    BY <1>0, <1>3, <2>1, EntryFacts, LoggingFacts
  <2>3. /\ i \in ObjIds /\ mem[cl[c].key] = i /\ Refers(i, cl[c].key) /\ cl[c].op \in Writers
        /\ IsObject(heap[i]) /\ heap[i] # NoObj /\ heap[i].kind = "List" /\ e.kind = "List" /\ Good(e.val, "List")
    BY <1>3, <1>4, <1>5, <1>10 DEF ChangeRegress, EffectOK, Refers
  <2>4. PICK f \in ObjIds : f = Fresh /\ heap[f] = NoObj
    BY <1>10, FreshFacts DEF ChangeRegress
  <2>5. PICK n : n = NewObj(e.val, e.kind)
    OBVIOUS
  <2>6. PICK o : o = [heap[i] EXCEPT !.val = e.val]
    OBVIOUS
  <2>7. PICK m : m = [mem EXCEPT ![cl[c].key] = f]
    OBVIOUS
  <2>8. PICK h : h = [heap EXCEPT ![f] = n, ![i].val = e.val]
    OBVIOUS
  <2>9. h = [j \in ObjIds |-> IF j = f THEN n ELSE IF j = i THEN o ELSE heap[j]]
    BY <1>0, <2>3, <2>4, <2>6, <2>8 DEF BaseInv, StoreOK
  <2>10. Step(c, m, h, queue, new)
    BY <1>2, <1>10, <2>1, <2>4, <2>5, <2>7, <2>8 DEF ChangeRegress
  <2>11. m[cl[c].key] = f /\ \A k \in Keys : k # cl[c].key => m[k] = mem[k]
    BY <1>0, <1>3, <2>7 DEF BaseInv, StoreOK
  <2>12. h[f] = n /\ h[i] = o /\ \A j \in ObjIds : heap[j] # NoObj /\ ~Refers(j, cl[c].key) => h[j] = heap[j]
    BY <2>3, <2>4, <2>9
  <2>13. Agree(n, o)
    <3>1. /\ o = [val |-> e.val, kind |-> "List", exp |-> heap[i].exp] /\ heap[i].exp \in {0, 1}
          /\ n = [val |-> e.val, kind |-> "List", exp |-> 0] /\ n # NoObj
      BY <2>3, <2>5, <2>6, NewObjFacts DEF IsObject, NewObj
    <3>2. CASE heap[i].exp = 0
      BY <3>1, <3>2 DEF Agree
    <3>3. CASE heap[i].exp = 1
      BY <3>1, <3>3 DEF Agree
    <3> QED
      BY <3>1, <3>2, <3>3
  <2>14. Agree(ObjectIn(m[cl[c].key], h), Saved(new.entry, h))
    BY <2>2, <2>3, <2>4, <2>11, <2>12, <2>13, PointerFacts DEF LoggingOK, ObjectIn, Saved
  <2>15. /\ new.pc = "logging" /\ new.pc \in Busy /\ new.pc # "dated" /\ new.op = cl[c].op /\ new.key = cl[c].key
         /\ new.ptr = i
    BY <2>2 DEF LoggingOK, Busy
  <2> QED
    BY <1>3, <2>3, <2>4, <2>10, <2>11, <2>12, <2>14, <2>15, WriteStep
<1>11. CASE Panic(e)
  BY <1>11, IdleLog DEF Panic, End
<1> QED
  BY <1>1, <1>6, <1>7, <1>8, <1>9, <1>10, <1>11 DEF Decide

LEMMA WritesLog ==
    ASSUME OneWriter, LogInv, BaseInv', NEW c \in Clients,
           \/ DeleteKey(c) \/ CSetClear(c) \/ CSetFill(c) \/ ExpireDate(c) \/ ExpireFetch(c) \/ RefsStore(c)
    PROVE  LogInv'
<1>1. PICK x : x = cl[c]
  OBVIOUS
<1>2. BaseInv /\ IsClient(x) /\ ClientOK(x) /\ ClientKeeps(c)
  BY <1>1 DEF LogInv, BaseInv
<1>3. x.op \in {"DELETE", "MAP.CSET", "TTL.EXPIRE", "JSON.SETREF"} /\ x.pc # "idle"
  BY <1>1, <1>2 DEF ClientOK, DeleteKey, CSetClear, CSetFill, ExpireDate, ExpireFetch, RefsStore
<1>4. x.op \in Writers /\ x.key \in Keys /\ x.op # "EXISTS"
  BY <1>2, <1>3 DEF Writers, ClientOK, Asked
<1>5. PICK i : i = mem[x.key]
  OBVIOUS
<1>6. i \in Pointers /\ (i # 0 => i \in ObjIds /\ heap[i] # NoObj /\ Refers(i, x.key))
  BY <1>2, <1>4, <1>5, PointerFacts DEF BaseInv, StoreOK, Refers
<1>7. ASSUME x.pc = "found" PROVE \A k : ~Writing(c, k)
  BY <1>1, <1>3, <1>7 DEF Writing, Plain, Scanning
<1>8. CASE DeleteKey(c)
  <2>1. CASE i = 0
    <3>1. [mem EXCEPT ![x.key] = 0] = mem
      BY <1>2, <1>4, <1>5, <2>1 DEF BaseInv, StoreOK
    <3>2. Think(c, IdleClient) /\ x.pc = "found"
      BY <1>1, <1>5, <1>8, <2>1, <3>1 DEF DeleteKey, Think
    <3> QED
      BY <1>7, <3>2, CalmMove
  <2>2. CASE i # 0
    <3>1. PICK new : new = Logging(c, Deletion, Empty)
      OBVIOUS
    <3>2. LoggingOK(new, x, Deletion, Empty)
      BY <1>1, <1>2, <1>3, <1>4, <3>1, EntryFacts, LoggingFacts
    <3>3. Step(c, [mem EXCEPT ![cl[c].key] = 0], heap, queue, new)
      BY <1>1, <1>5, <1>8, <2>2, <3>1 DEF DeleteKey
    <3> QED
      BY <1>1, <1>3, <1>4, <3>2, <3>3, EntryFacts, RemoveLog DEF LoggingOK
  <2> QED
    BY <2>1, <2>2
<1>9. CASE CSetClear(c)
  <2>1. PICK new : new = [x EXCEPT !.pc = "emptied"]
    OBVIOUS
  <2>2. Moved(x, new, "emptied", x.ptr, x.todo, x.acc)
    BY <1>2, <2>1, MovedFacts DEF Pcs, IsClient
  <2>3. CASE End
    BY <2>3, IdleLog DEF End
  <2>4. CASE Step(c, [mem EXCEPT ![cl[c].key] = 0], heap, queue, new)
    BY <1>1, <1>3, <1>4, <2>2, <2>4, RemoveLog DEF Moved
  <2> QED
    BY <1>1, <1>9, <2>1, <2>3, <2>4 DEF CSetClear
<1>10. CASE CSetFill(c) \/ RefsStore(c)
  <2>1. PICK v, kind, out : Bind(c, v, kind, out)
    BY <1>10 DEF CSetFill, RefsStore
  <2> QED
    BY <1>1, <1>3, <1>4, <2>1, BindLog
<1>11. CASE ExpireDate(c)
  <2>1. PICK d : d = IF x.args[1].num > 0 THEN 1 ELSE 0
    OBVIOUS
  <2>2. PICK o : o = [heap[i] EXCEPT !.exp = d]
    OBVIOUS
  <2>3. PICK h : h = [heap EXCEPT ![i] = o]
    OBVIOUS
  <2>4. PICK new : new = [x EXCEPT !.pc = "dated"]
    OBVIOUS
  <2>5. Moved(x, new, "dated", x.ptr, x.todo, x.acc)
    BY <1>2, <2>4, MovedFacts DEF Pcs, IsClient
  <2>6. x.pc = "found" /\ (Think(c, IdleClient) \/ (i # 0 /\ Step(c, mem, h, queue, new)))
    BY <1>1, <1>5, <1>11, <2>1, <2>2, <2>3, <2>4 DEF ExpireDate
  <2>7. CASE Think(c, IdleClient)
    BY <1>7, <2>6, <2>7, CalmMove
  <2>8. CASE i # 0 /\ Step(c, mem, h, queue, new)
    <3>1. \A j \in ObjIds : heap[j] # NoObj /\ ~Refers(j, cl[c].key) => h[j] = heap[j]
      BY <1>1, <1>2, <1>6, <2>3, <2>8 DEF BaseInv, StoreOK
    <3>2. /\ new.pc = "dated" /\ new.pc \in Busy /\ new.pc # "logging" /\ new.op = cl[c].op /\ new.key = cl[c].key
          /\ new.ptr = cl[c].ptr
      BY <1>1, <2>5 DEF Moved, Busy
    <3>3. new.ptr \in ObjIds => Refers(new.ptr, cl[c].key)
      BY <3>2 DEF Refers
    <3>4. mem[cl[c].key] # 0 /\ Refers(mem[cl[c].key], cl[c].key)
      BY <1>1, <1>5, <1>6, <2>8
    <3> QED
      BY <1>1, <1>3, <1>4, <2>8, <3>1, <3>2, <3>3, <3>4, WriteStep
  <2> QED
    BY <2>6, <2>7, <2>8
<1>12. CASE ExpireFetch(c)
  <2>1. PICK new : new = Logging(c, ByPointer(i), Num(1))
    OBVIOUS
  <2>2. i # 0
    BY <1>1, <1>2, <1>5, <1>12 DEF ExpireFetch, ClientKeeps
  <2>3. PICK m, h : m = mem /\ h = heap
    OBVIOUS
  <2>4. Step(c, m, h, queue, new)
    BY <1>1, <1>5, <1>12, <2>1, <2>2, <2>3 DEF ExpireFetch, Think
  <2>5. LoggingOK(new, x, ByPointer(i), Num(1)) /\ ByPointer(i).ptr = i
    BY <1>1, <1>2, <1>3, <1>4, <1>6, <2>1, EntryFacts, LoggingFacts
  <2>6. Agree(ObjectIn(m[cl[c].key], h), Saved(new.entry, h))
    BY <1>1, <1>5, <2>2, <2>3, <2>5 DEF LoggingOK, Agree, ObjectIn, Saved
  <2>7. /\ new.pc = "logging" /\ new.pc \in Busy /\ new.pc # "dated" /\ new.op = cl[c].op /\ new.key = cl[c].key
        /\ new.ptr = i
    BY <1>1, <2>5 DEF LoggingOK, Busy
  <2>8. m[cl[c].key] = i /\ Refers(i, cl[c].key) /\ \A k \in Keys : m[k] = mem[k]
    BY <1>1, <1>5, <1>6, <2>2, <2>3
  <2>9. \A j \in ObjIds : h[j] = heap[j]
    BY <2>3
  <2> QED
    BY <1>1, <1>3, <1>4, <2>4, <2>6, <2>7, <2>8, <2>9, WriteStep
<1> QED
  BY <1>8, <1>9, <1>10, <1>11, <1>12

LEMMA InitLog == Init => LogInv
<1> SUFFICES ASSUME Init PROVE LogInv
  OBVIOUS
<1>1. BaseInv
  BY InitBase
<1>2. \A c \in Clients : cl[c].pc = "idle" /\ cl[c].ptr = 0
  BY IdleFacts DEF Init
<1>3. \A c \in Clients : ClientKeeps(c)
  BY <1>2 DEF ClientKeeps, Busy
<1>4. OneKey
  BY <1>2, PointerFacts, SequenceFacts DEF Init, OneKey, Refers
<1>5. \A k \in Keys : UpToLog(k)
  BY SequenceFacts DEF Init, UpToLog, Says, Agree, Object
<1> QED
  BY <1>1, <1>3, <1>4, <1>5 DEF LogInv

LEMMA NextLog == OneWriter => (LogInv /\ [Next]_vars => LogInv')
<1> SUFFICES ASSUME OneWriter, LogInv, [Next]_vars PROVE LogInv'
  OBVIOUS
<1>0. BaseInv'
  BY NextBase DEF LogInv
<1>1. CASE LogTake
  BY <1>0, <1>1, TakeStep
<1>2. ASSUME NEW c \in Clients, Invoke(c) PROVE LogInv'
  BY <1>0, <1>2, ReceiveLog
<1>3. ASSUME NEW c \in Clients, Move(c) PROVE LogInv'
  <2>1. CASE Decide(c)
    BY <1>0, <2>1, DecideLog
  <2>2. CASE \/ DeleteKey(c) \/ CSetClear(c) \/ CSetFill(c) \/ ExpireDate(c) \/ ExpireFetch(c) \/ RefsStore(c)
    BY <1>0, <2>2, WritesLog
  <2>3. CASE \/ ExistsStep(c) \/ ScanEnd(c) \/ RefsStart(c) \/ RefsStep(c)
             \/ GetRefsStart(c) \/ GetRefsStep(c)
    BY <1>0, <2>3, LooksLog
  <2>4. CASE LogPut(c)
    BY <1>0, <2>4, PutStep
  <2>5. CASE LogRefused(c)
    BY <1>0, <2>5, RefusedStep
  <2> QED
    BY <1>3, <2>1, <2>2, <2>3, <2>4, <2>5 DEF Move
<1>4. ASSUME NEW c \in Clients, LogTakeTorn(c) \/ LogDrop(c) PROVE LogInv'
  BY <1>0, <1>4, TakeStep
<1>5. CASE UNCHANGED vars
  BY <1>0, <1>5, IdleLog DEF vars
<1> QED
  BY <1>1, <1>2, <1>3, <1>4, <1>5 DEF Next

(* What the log will say of a key is what its last entry does.             *)
LEMMA SaysReplayed ==
    ASSUME BaseInv, NEW k, NEW l, Says(k, queue, heap, logged, l)
    PROVE  Replayed(k) = l
<1> DEFINE mine == {i \in DOMAIN queue : queue[i].key = k}
           last == CHOOSE i \in mine : \A j \in mine : j <= i
<1>1. Replayed(k) = IF mine = {} THEN logged[k] ELSE Marshalled(queue[last])
  BY DEF Replayed
<1>2. DOMAIN queue \subseteq Nat
  BY SequenceFacts DEF BaseInv, StoreOK
<1>3. CASE (\A i \in DOMAIN queue : queue[i].key # k) /\ l = logged[k]
  BY <1>3 DEF Replayed
<1>4. ASSUME NEW i \in DOMAIN queue, queue[i].key = k, l = Saved(queue[i], heap),
             \A j \in DOMAIN queue : queue[j].key = k => j <= i
      PROVE  Replayed(k) = l
  <2>1. i \in mine /\ \A j \in mine : j <= i
    BY <1>4
  <2>2. last \in mine /\ \A j \in mine : j <= last
    <3> HIDE DEF mine
    <3> QED
      BY <2>1
  <2>3. last = i
    <3> HIDE DEF last
    <3> QED
      BY <1>2, <2>1, <2>2
  <2> HIDE DEF mine, last
  <2> QED
    BY <1>1, <1>4, <2>1, <2>3 DEF Marshalled, Saved
<1> QED
  BY <1>3, <1>4 DEF Says

(* With one writer per key, the log says of a key nobody is changing what  *)
(* the memory says, though its entries are pointers to objects that go on  *)
(* changing, though one may have been read torn, and though others are     *)
(* refused by the log or dropped by its goroutine: only the keys whose     *)
(* last entry was lost so are behind, each until its next entry is in the  *)
(* log.  But for the deadline that LIST.GPOP leaves in the log and not in  *)
(* the memory.                                                             *)
THEOREM LogFollows == OneWriter => (Spec => []LogKeepsUp)
<1> SUFFICES ASSUME OneWriter PROVE Spec => []LogKeepsUp
  OBVIOUS
<1>1. Init => LogInv
  BY InitLog
<1>2. LogInv /\ [Next]_vars => LogInv'
  BY NextLog
<1>3. LogInv => LogKeepsUp
  <2> SUFFICES ASSUME LogInv, NEW k \in Keys \ missed, \A c \in Clients : ~Writing(c, k)
               PROVE  LET o == Object(mem[k])
                          l == Replayed(k)
                      IN \/ o = l
                         \/ o # NoObj /\ o.kind = "List" /\ o.exp = 0 /\ l = [o EXCEPT !.exp = 1]
    BY DEF LogKeepsUp
  <2>1. PICK l : Says(k, queue, heap, logged, l) /\ Agree(Object(mem[k]), l)
    BY DEF LogInv, UpToLog
  <2>2. Replayed(k) = l
    BY <2>1, SaysReplayed DEF LogInv
  <2> QED
    BY <2>1, <2>2 DEF Agree
<1> QED
  BY <1>1, <1>2, <1>3, PTL DEF Spec

-----------------------------------------------------------------------------
(* Nobody but a client itself changes it.                                  *)
LEMMA OthersStay ==
    ASSUME BaseInv', NEW c \in Clients, NEW d \in Clients, c # d, Invoke(d) \/ Move(d)
    PROVE  cl'[c].pc = cl[c].pc
<1>1. CASE \E m, h, q, new : Step(d, m, h, q, new)
  <2>1. PICK m, h, q, new : Step(d, m, h, q, new)
    BY <1>1
  <2> QED
    BY <2>1, NowFacts DEF Alike
<1>2. CASE End
  BY <1>2 DEF End
<1>3. Invoke(d) => \E m, h, q, new : Step(d, m, h, q, new)
  BY DEF Invoke, Receive, Think
<1>4. ASSUME Decide(d) PROVE End \/ \E m, h, q, new : Step(d, m, h, q, new)
  BY <1>4 DEF Decide, Reply, ChangeSet, Bind, ChangeDelete, ChangeInPlace, ChangeRegress, Panic, Think
<1>5. ASSUME \/ DeleteKey(d) \/ CSetClear(d) \/ CSetFill(d) \/ ExpireDate(d) \/ ExpireFetch(d)
             \/ RefsStore(d) \/ LogPut(d) \/ LogRefused(d)
      PROVE  End \/ \E m, h, q, new : Step(d, m, h, q, new)
  BY <1>5 DEF DeleteKey, CSetClear, CSetFill, ExpireDate, ExpireFetch, RefsStore, LogPut, LogRefused, Bind, Think
<1>6. ASSUME ExistsStep(d) \/ ScanEnd(d) \/ RefsStart(d) \/ RefsStep(d) \/ GetRefsStart(d) \/ GetRefsStep(d)
      PROVE  \E m, h, q, new : Step(d, m, h, q, new)
  BY <1>6 DEF ExistsStep, ScanEnd, RefsStart, RefsStep, GetRefsStart, GetRefsStep, Think
<1> QED
  BY <1>1, <1>2, <1>3, <1>4, <1>5, <1>6 DEF Move

(* What a command that goes on to the log has found and decided, and what  *)
(* the memory has under its key before and after.                          *)
Decided(c, o, e) ==
    /\ o = NoObj \/ IsObject(o)
    /\ e = Execute(cl[c].op, o, cl[c].args) /\ Args(cl[c].op, cl[c].args)
    /\ e.do \in {"set", "delete", "inplace", "regress"}
    /\ Before(c) = IF o = NoObj THEN Missing ELSE o.val
    /\ After(c) = IF e.do = "delete" THEN Missing ELSE e.val
    /\ cl'[c].out = e.out

LEMMA DecidedFacts ==
    ASSUME LogInv, BaseInv', NEW c \in Clients, Decide(c), cl[c].op \in Finders, cl'[c].pc = "logging"
    PROVE  \E o, e : Decided(c, o, e)
<1>0. BaseInv /\ Plain(c) /\ ClientKeeps(c)
  BY DEF Decide, LogInv
<1>1. PICK e : e = Effect(c)
  OBVIOUS
<1>2. PICK i \in Pointers : i = cl[c].ptr
  BY <1>0, FoundFacts
<1>3. PICK o : o = Object(i)
  OBVIOUS
<1>4. /\ cl[c].key \in Keys /\ cl[c].pc = "found" /\ cl[c].op # "EXISTS" /\ cl[c].pc # "idle"
      /\ o # NoObj => i \in ObjIds /\ IsObject(o) /\ o = heap[i]
      /\ EffectOK(e, cl[c].op, o, cl[c].args) /\ Args(cl[c].op, cl[c].args)
  BY <1>0, <1>1, <1>2, <1>3, FoundFacts
<1>5. mem[cl[c].key] = i
  BY <1>0, <1>2, <1>4 DEF ClientKeeps
<1>6. \E m, h, entry : /\ e.do \in {"set", "delete", "inplace", "regress"}
                       /\ Step(c, m, h, queue, Logging(c, entry, e.out)) /\ IsEntry(entry)
                       /\ \/ e.do = "delete" /\ m = [mem EXCEPT ![cl[c].key] = 0]
                          \/ e.do = "inplace" /\ o # NoObj /\ m = mem /\ h = [heap EXCEPT ![i].val = e.val]
                          \/ /\ e.do \in {"set", "regress"} /\ Room /\ m = [mem EXCEPT ![cl[c].key] = Fresh]
                             /\ \/ h = [heap EXCEPT ![Fresh] = NewObj(e.val, e.kind)]
                                \/ o # NoObj /\ h = [heap EXCEPT ![Fresh] = NewObj(e.val, e.kind), ![i].val = e.val]
  <2>1. ~Reply(c, e)
    <3>1. ASSUME Step(c, mem, heap, queue, IdleClient) PROVE FALSE
      BY <3>1, NowFacts, IdleFacts DEF Alike
    <3> QED
      BY <3>1 DEF Reply, Think
  <2>2. ~Panic(e)
    BY <1>4 DEF Panic, End
  <2>3. CASE ChangeSet(c, e)
    BY <2>3, EntryFacts DEF ChangeSet, Bind
  <2>4. CASE ChangeDelete(c, e)
    BY <2>4, EntryFacts DEF ChangeDelete
  <2>5. CASE ChangeInPlace(c, e)
    BY <1>2, <1>4, <2>5, EntryFacts DEF ChangeInPlace, EffectOK
  <2>6. CASE ChangeRegress(c, e)
    BY <1>2, <1>4, <2>6, EntryFacts DEF ChangeRegress, EffectOK
  <2> QED
    BY <1>1, <2>1, <2>2, <2>3, <2>4, <2>5, <2>6 DEF Decide
<1>7. PICK m, h, entry :
         /\ e.do \in {"set", "delete", "inplace", "regress"}
         /\ Step(c, m, h, queue, Logging(c, entry, e.out)) /\ IsEntry(entry)
         /\ \/ e.do = "delete" /\ m = [mem EXCEPT ![cl[c].key] = 0]
            \/ e.do = "inplace" /\ o # NoObj /\ m = mem /\ h = [heap EXCEPT ![i].val = e.val]
            \/ /\ e.do \in {"set", "regress"} /\ Room /\ m = [mem EXCEPT ![cl[c].key] = Fresh]
               /\ \/ h = [heap EXCEPT ![Fresh] = NewObj(e.val, e.kind)]
                  \/ o # NoObj /\ h = [heap EXCEPT ![Fresh] = NewObj(e.val, e.kind), ![i].val = e.val]
  BY <1>6
<1>8. Before(c) = IF o = NoObj THEN Missing ELSE o.val
  BY <1>3, <1>5 DEF Before
<1>9. Kept(m, h, queue)
  BY <1>7, HeapFacts
<1>10. cl'[c].out = e.out
  BY <1>0, <1>4, <1>7, NowFacts, LoggingFacts DEF LoggingOK, Alike
<1>11. ASSUME e.do = "delete" PROVE After(c) = Missing
  <2>1. mem'[cl[c].key] = 0
    BY <1>0, <1>4, <1>7, <1>9, <1>11 DEF BaseInv, StoreOK, Kept
  <2> QED
    BY <1>11, <2>1 DEF After
<1>12. ASSUME e.do \in {"set", "regress"} PROVE After(c) = e.val
  <2>1. PICK f \in ObjIds : f = Fresh /\ heap[f] = NoObj
    BY <1>7, <1>12, FreshFacts
  <2>2. m[cl[c].key] = f
    BY <1>0, <1>4, <1>7, <1>12, <2>1 DEF BaseInv, StoreOK
  <2>3. h[f] = NewObj(e.val, e.kind)
    <3>1. CASE h = [heap EXCEPT ![Fresh] = NewObj(e.val, e.kind)]
      BY <1>0, <2>1, <3>1 DEF BaseInv, StoreOK
    <3>2. CASE o # NoObj /\ h = [heap EXCEPT ![Fresh] = NewObj(e.val, e.kind), ![i].val = e.val]
      <4>1. i \in ObjIds /\ i # f
        BY <1>4, <2>1, <3>2
      <4>2. PICK n : n = NewObj(e.val, e.kind)
        OBVIOUS
      <4>3. PICK h1 : h1 = [heap EXCEPT ![f] = n]
        OBVIOUS
      <4>4. h = [h1 EXCEPT ![i].val = e.val]
        BY <2>1, <3>2, <4>2, <4>3
      <4>5. h1[f] = n /\ f \in DOMAIN h1
        BY <1>0, <2>1, <4>3 DEF BaseInv, StoreOK
      <4> QED
        BY <4>1, <4>2, <4>4, <4>5
    <3> QED
      BY <1>7, <1>12, <3>1, <3>2
  <2>4. mem'[cl[c].key] = f /\ heap'[f] = h[f] /\ f # 0
    BY <1>4, <1>9, <2>1, <2>2, PointerFacts DEF Kept
  <2> QED
    BY <2>3, <2>4 DEF After, NewObj
<1>13. ASSUME e.do = "inplace" PROVE After(c) = e.val
  <2>1. i \in ObjIds /\ o # NoObj /\ m = mem /\ h = [heap EXCEPT ![i].val = e.val] /\ i # 0
    BY <1>4, <1>7, <1>13, PointerFacts
  <2>2. h[i].val = e.val
    <3>1. PICK t : t = heap[i] /\ IsObject(t)
      BY <1>4, <2>1
    <3>2. h[i] = [t EXCEPT !.val = e.val]
      BY <1>0, <2>1, <3>1 DEF BaseInv, StoreOK
    <3> QED
      BY <3>1, <3>2 DEF IsObject
  <2>3. mem'[cl[c].key] = i /\ heap'[i] = h[i]
    BY <1>4, <1>5, <1>9, <2>1 DEF Kept
  <2> QED
    BY <1>13, <2>1, <2>2, <2>3 DEF After
<1>14. After(c) = IF e.do = "delete" THEN Missing ELSE e.val
  BY <1>7, <1>11, <1>12, <1>13
<1>15. e = Execute(cl[c].op, o, cl[c].args) /\ (o = NoObj \/ IsObject(o))
  BY <1>1, <1>2, <1>3, <1>4 DEF Effect
<1> QED
  BY <1>4, <1>7, <1>8, <1>10, <1>14, <1>15 DEF Decided

(* A step that finishes such a command is its own.                         *)
LEMMA Finishing ==
    ASSUME LogInv, BaseInv', Next, NEW c \in Clients, NEW ops, ops \subseteq Finders, Finishes(c, ops)
    PROVE  Decide(c) /\ cl[c].op \in ops /\ cl[c].op \in Finders /\ cl'[c].pc = "logging"
<1>1. cl[c].pc = "found" /\ cl[c].op \in ops /\ cl[c].op \in Finders /\ cl'[c].pc = "logging"
  BY DEF Finishes
<1>2. ~LogTake /\ \A d \in Clients : ~LogTakeTorn(d) /\ ~LogDrop(d)
  BY <1>1 DEF LogTake, LogTakeTorn, LogDrop
<1>3. PICK d \in Clients : Invoke(d) \/ Move(d)
  BY <1>2 DEF Next
<1>4. d = c
  BY <1>1, <1>3, OthersStay
<1>5. cl[c].op \notin {"DELETE", "MAP.CSET", "TTL.EXPIRE", "JSON.SETREF", "JSON.GET"}
  BY <1>1 DEF Finders, OneLook, Writers, Blind
<1>6. Decide(c)
  BY <1>1, <1>3, <1>4, <1>5 DEF Move, Invoke, Receive, DeleteKey, CSetClear, CSetFill, ExpireDate, ExpireFetch,
     ExistsStep, ScanEnd, RefsStart, RefsStep, RefsStore, GetRefsStart, GetRefsStep, LogPut, LogRefused
<1> QED
  BY <1>1, <1>6

-----------------------------------------------------------------------------
(* Changes of documents, seen at the paths of up to two fields.            *)

(* Maximal elements, as FoldLeft takes them out.                           *)
LEMMA LastIndex ==
    ASSUME NEW k \in Nat, NEW s \in SUBSET (1 .. k + 1), k + 1 \in s
    PROVE  Max(s) = k + 1 /\ s \ {Max(s)} \in SUBSET (1 .. k)
<1> DEFINE IsMax(x) == x \in s /\ \A y \in s : x >= y
<1>1. Max(s) = CHOOSE x : IsMax(x)
  BY Zenon DEF Max
<1>2. IsMax(k + 1)
  OBVIOUS
<1>3. ASSUME NEW x, IsMax(x) PROVE x = k + 1
  BY <1>3
<1>4. Max(s) = k + 1
  <2> HIDE DEF IsMax
  <2> QED
    BY <1>1, <1>2, <1>3, Zenon
<1> QED
  BY <1>4

(* The nodes on the way down a path, from the document to what At gives.   *)
AreOnTheWay(u, v, p, n) ==
    u[0] = v /\ u[n] = At(v, p) /\ \A i \in 1 .. n : u[i] = Child(u[i - 1], p[i])

LEMMA AtNodes ==
    ASSUME NEW v, NEW n \in Nat, NEW p, DOMAIN p = 1 .. n
    PROVE  \E u : AreOnTheWay(u, v, p, n)
<1> DEFINE Down(w, s) == IF s = {} THEN v ELSE Child(w[s \ {Max(s)}], p[Max(s)])
           D == SUBSET (1 .. n)
           IsIter(w) == w = [s \in D |-> Down(w, s)]
           Reach == {k \in Nat : \E w : \A s \in SUBSET (1 .. k) : w[s] = Down(w, s)}
<1>1. 0 \in Reach
  <2> DEFINE w == [s \in {{}} |-> v]
  <2>1. \A s \in SUBSET (1 .. 0) : s = {}
    OBVIOUS
  <2>2. w[{}] = v
    OBVIOUS
  <2> HIDE DEF w
  <2> QED
    BY <2>1, <2>2
<1>2. ASSUME NEW k \in 0 .. n - 1, k \in Reach PROVE k + 1 \in Reach
  <2>0. k \in Nat
    OBVIOUS
  <2>1. PICK w : \A s \in SUBSET (1 .. k) : w[s] = Down(w, s)
    BY <1>2
  <2> DEFINE x == [s \in SUBSET (1 .. k + 1) |-> Down(w, s)]
  <2>2. \A s \in SUBSET (1 .. k) : s \in SUBSET (1 .. k + 1) /\ x[s] = w[s]
    <3> SUFFICES ASSUME NEW s \in SUBSET (1 .. k) PROVE s \in SUBSET (1 .. k + 1) /\ x[s] = w[s]
      OBVIOUS
    <3>1. s \in SUBSET (1 .. k + 1)
      BY <2>0
    <3> HIDE DEF Down
    <3> QED
      BY <2>1, <3>1
  <2>3. ASSUME NEW s \in SUBSET (1 .. k + 1), s # {} PROVE s \ {Max(s)} \in SUBSET (1 .. k)
    <3>1. CASE k + 1 \in s
      BY <2>0, <3>1, LastIndex
    <3>2. CASE k + 1 \notin s
      <4>1. \A i \in s : i \in 1 .. k
        BY <2>0, <3>2
      <4>2. \A y : s \ {y} \subseteq s
        OBVIOUS
      <4> QED
        BY <4>1, <4>2
    <3> QED
      BY <3>1, <3>2
  <2>4. ASSUME NEW s \in SUBSET (1 .. k + 1) PROVE x[s] = Down(x, s)
    <3>1. x[s] = Down(w, s)
      OBVIOUS
    <3> HIDE DEF x
    <3>2. s # {} => x[s \ {Max(s)}] = w[s \ {Max(s)}]
      BY <2>2, <2>3
    <3> QED
      BY <3>1, <3>2
  <2> HIDE DEF x, Down
  <2> QED
    BY <2>0, <2>4
<1>3. n \in Reach
  <2> HIDE DEF Reach
  <2>1. \A k \in 0 .. n : k \in Reach
    BY <1>1, <1>2, UpTo
  <2> QED
    BY <2>1
<1>4. PICK w : \A s \in D : w[s] = Down(w, s)
  BY <1>3
<1> DEFINE x == [s \in D |-> w[s]]
<1>5. IsIter(x)
  <2>1. ASSUME NEW s \in D PROVE w[s] = Down(x, s)
    <3>1. s \ {Max(s)} \in D
      OBVIOUS
    <3>2. x[s \ {Max(s)}] = w[s \ {Max(s)}]
      BY <3>1
    <3> HIDE DEF x, D
    <3> QED
      BY <1>4, <3>2
  <2> HIDE DEF Down
  <2> QED
    BY <2>1
<1> DEFINE iter == CHOOSE y : IsIter(y)
<1>6. IsIter(iter)
  <2> HIDE DEF IsIter
  <2> QED
    BY <1>5
<1>7. At(v, p) = iter[1 .. n]
  BY DEF At, FoldLeft, MapThenFoldSet
<1>8. \A s \in D : iter[s] = Down(iter, s)
  <2> HIDE DEF iter, Down
  <2> QED
    BY <1>6
<1> HIDE DEF iter
<1> DEFINE u == [i \in 0 .. n |-> iter[1 .. i]]
<1>9. u[0] = v
  <2>1. 1 .. 0 = {} /\ {} \in D
    OBVIOUS
  <2>2. iter[{}] = v
    BY <1>8, <2>1
  <2>3. u[0] = iter[1 .. 0]
    OBVIOUS
  <2> QED
    BY <2>1, <2>2, <2>3
<1>10. ASSUME NEW i \in 1 .. n PROVE u[i] = Child(u[i - 1], p[i])
  <2>1. PICK k \in Nat : k = i - 1 /\ k + 1 = i
    OBVIOUS
  <2>2. PICK s \in D : s = 1 .. i
    BY <2>1
  <2>3. Max(s) = i /\ s # {}
    <3>1. s \in SUBSET (1 .. k + 1) /\ k + 1 \in s
      BY <2>1, <2>2
    <3> QED
      BY <2>1, <3>1, LastIndex
  <2>4. s \ {i} = 1 .. k
    BY <2>1, <2>2
  <2>5. iter[s] = Child(iter[1 .. k], p[i])
    BY <1>8, <2>3, <2>4
  <2>6. u[i] = iter[s] /\ u[i - 1] = iter[1 .. k]
    BY <2>1, <2>2
  <2> QED
    BY <2>5, <2>6
<1>11. u[n] = At(v, p)
  BY <1>7
<1> HIDE DEF u
<1> QED
  BY <1>9, <1>10, <1>11 DEF AreOnTheWay

(* The short paths, those of Paths.                                        *)
Root == <<>>
Single(f) == <<f>>
Double(f, g) == <<f, g>>

LEMMA AtFacts ==
    /\ \A v : At(v, Root) = v
    /\ \A v, f : At(v, Single(f)) = Child(v, f)
    /\ \A v, f, g : At(v, Double(f, g)) = Child(Child(v, f), g)
<1>1. ASSUME NEW v PROVE At(v, <<>>) = v
  <2>1. DOMAIN <<>> = 1 .. 0 /\ 0 \in Nat
    OBVIOUS
  <2>2. PICK u : AreOnTheWay(u, v, <<>>, 0)
    BY <2>1, AtNodes, Zenon
  <2> QED
    BY <2>2 DEF AreOnTheWay
<1>2. ASSUME NEW v, NEW f PROVE At(v, <<f>>) = Child(v, f)
  <2>1. DOMAIN <<f>> = 1 .. 1 /\ <<f>>[1] = f /\ 1 \in Nat
    OBVIOUS
  <2>2. PICK u : AreOnTheWay(u, v, <<f>>, 1)
    BY <2>1, AtNodes, Zenon
  <2>3. u[1] = Child(u[0], f)
    BY <2>1, <2>2 DEF AreOnTheWay
  <2> QED
    BY <2>2, <2>3 DEF AreOnTheWay
<1>3. ASSUME NEW v, NEW f, NEW g PROVE At(v, <<f, g>>) = Child(Child(v, f), g)
  <2>1. DOMAIN <<f, g>> = 1 .. 2 /\ <<f, g>>[1] = f /\ <<f, g>>[2] = g /\ 2 \in Nat
    OBVIOUS
  <2>2. PICK u : AreOnTheWay(u, v, <<f, g>>, 2)
    BY <2>1, AtNodes, Zenon
  <2>3. u[1] = Child(u[0], f) /\ u[2] = Child(u[1], g)
    BY <2>1, <2>2 DEF AreOnTheWay
  <2> QED
    BY <2>2, <2>3 DEF AreOnTheWay
<1> QED
  BY <1>1, <1>2, <1>3 DEF Root, Single, Double

(* What children are, of an object with a field more or less.              *)
LEMMA ChildFacts ==
    /\ \A f : Child(Missing, f) = Missing
    /\ \A v, f : Child(v, f) # Missing => Is(v, "obj")
    /\ \A v, f, x, h : Child(Obj(With(Fields(v), f, x)), h) = IF h = f THEN x ELSE Child(v, h)
    /\ \A v, f, h : Child(Obj(Without(Fields(v), f)), h) = IF h = f THEN Missing ELSE Child(v, h)
    /\ \A f : Is(Obj(f), "obj")
    /\ ~Is(Missing, "obj")
<1>1. /\ \A f : Is(Obj(f), "obj") /\ Obj(f).obj = f
      /\ ~Is(Missing, "obj")
  BY DEF Is, Obj, Missing
<1>2. ASSUME NEW v, NEW h PROVE Child(v, h) = IF h \in DOMAIN Fields(v) THEN Fields(v)[h] ELSE Missing
  <2>1. CASE Is(v, "obj")
    BY <2>1 DEF Child, Fields
  <2>2. CASE ~Is(v, "obj")
    <3>1. Fields(v) = <<>> /\ DOMAIN <<>> = {}
      BY <2>2 DEF Fields
    <3> QED
      BY <2>2, <3>1 DEF Child
  <2> QED
    BY <2>1, <2>2
<1>3. ASSUME NEW F, NEW f, NEW x, NEW h
      PROVE  Child(Obj(With(F, f, x)), h) = IF h = f THEN x ELSE IF h \in DOMAIN F THEN F[h] ELSE Missing
  <2>1. PICK w : w = With(F, f, x)
    OBVIOUS
  <2>2. DOMAIN w = DOMAIN F \cup {f} /\ \A g \in DOMAIN w : w[g] = IF g = f THEN x ELSE F[g]
    BY <2>1 DEF With
  <2>3. Child(Obj(w), h) = IF h \in DOMAIN w THEN w[h] ELSE Missing
    BY <1>1 DEF Child
  <2> QED
    BY <2>1, <2>2, <2>3
<1>4. ASSUME NEW F, NEW f, NEW h
      PROVE  Child(Obj(Without(F, f)), h) = IF h = f THEN Missing ELSE IF h \in DOMAIN F THEN F[h] ELSE Missing
  <2>1. PICK w : w = Without(F, f)
    OBVIOUS
  <2>2. DOMAIN w = DOMAIN F \ {f} /\ \A g \in DOMAIN w : w[g] = F[g]
    BY <2>1 DEF Without
  <2>3. Child(Obj(w), h) = IF h \in DOMAIN w THEN w[h] ELSE Missing
    BY <1>1 DEF Child
  <2> QED
    BY <2>1, <2>2, <2>3
<1>5. \A v, f, x, h : Child(Obj(With(Fields(v), f, x)), h) = IF h = f THEN x ELSE Child(v, h)
  BY <1>2, <1>3, Zenon
<1>6. \A v, f, h : Child(Obj(Without(Fields(v), f)), h) = IF h = f THEN Missing ELSE Child(v, h)
  BY <1>2, <1>4, Zenon
<1>7. /\ \A f : Child(Missing, f) = Missing
      /\ \A v, f : Child(v, f) # Missing => Is(v, "obj")
  BY <1>1 DEF Child
<1> QED
  BY <1>1, <1>5, <1>6, <1>7

(* Only objects lie on the way to what is there.                           *)
LEMMA WayFacts ==
    ASSUME NEW v, NEW p, IsSequence(p), p # <<>>, At(v, p) # Missing
    PROVE  /\ Is(v, "obj")
           /\ Len(p) >= 2 => Is(Child(v, p[1]), "obj")
           /\ Len(p) >= 3 => Is(Child(Child(v, p[1]), p[2]), "obj")
<1>1. PICK n \in Nat : n = Len(p) /\ DOMAIN p = 1 .. n /\ n # 0
  BY SequenceFacts
<1>2. PICK u : u[0] = v /\ u[n] = At(v, p) /\ \A i \in 1 .. n : u[i] = Child(u[i - 1], p[i])
  <2>1. \E u : AreOnTheWay(u, v, p, n)
    BY <1>1, AtNodes, Zenon
  <2> QED
    BY <2>1 DEF AreOnTheWay
<1> DEFINE S == {j \in 0 .. n : u[n - j] # Missing}
<1>3. 0 \in S
  BY <1>2
<1>4. ASSUME NEW j \in 0 .. n - 1, j \in S PROVE j + 1 \in S
  <2>1. n - j \in 1 .. n /\ (n - j) - 1 = n - (j + 1) /\ j + 1 \in 0 .. n
    OBVIOUS
  <2>2. Is(u[n - (j + 1)], "obj")
    BY <1>2, <1>4, <2>1, ChildFacts
  <2> QED
    BY <2>1, <2>2, ChildFacts
<1>5. \A j \in 0 .. n : j \in S
  <2> HIDE DEF S
  <2> QED
    BY <1>3, <1>4, UpTo
<1>6. ASSUME NEW i \in 1 .. n PROVE Is(u[i - 1], "obj")
  <2>1. n - i \in 0 .. n /\ n - (n - i) = i
    OBVIOUS
  <2> QED
    BY <1>2, <1>5, <2>1, ChildFacts
<1>7. 1 \in 1 .. n /\ (n >= 2 => 2 \in 1 .. n) /\ (n >= 3 => 3 \in 1 .. n)
  BY <1>1
<1>8. n >= 2 => u[1] = Child(v, p[1])
  BY <1>2, <1>7
<1>9. n >= 3 => u[2] = Child(u[1], p[2])
  BY <1>2, <1>7
<1> QED
  BY <1>1, <1>2, <1>6, <1>7, <1>8, <1>9
LEMMA ShortFacts ==
    ASSUME NEW S, NEW s \in Seq(S)
    PROVE  /\ Len(s) = 1 => s = <<s[1]>>
           /\ Len(s) = 2 => s = <<s[1], s[2]>>
<1>1. ASSUME Len(s) = 1 PROVE s = <<s[1]>>
  <2>1. PICK x \in S : x = s[1]
    BY <1>1
  <2>2. s = <<x>>
    BY <1>1, <2>1
  <2> QED
    BY <2>1, <2>2
<1>2. ASSUME Len(s) = 2 PROVE s = <<s[1], s[2]>>
  <2>1. PICK x \in S, y \in S : x = s[1] /\ y = s[2]
    BY <1>2
  <2>2. s = <<x, y>>
    BY <1>2, <2>1
  <2> QED
    BY <2>1, <2>2
<1> QED
  BY <1>1, <1>2

(* The fields of the first two objects on the way.                         *)
LEMMA WayStart ==
    ASSUME NEW v, NEW p, IsSequence(p), p # <<>>
    PROVE  /\ WayFields(v, p)[1] = Fields(v)
           /\ Len(p) > 1 => WayFields(v, p)[2] = Fields(Child(v, p[1]))
<1>1. PICK n \in Nat \ {0} : n = Len(p)
  BY SequenceFacts
<1>0. PICK S : p \in Seq(S)
  BY DEF IsSequence
<1>2. SubSeq(p, 1, 0) = <<>> /\ 1 - 1 = 0
  BY <1>0, <1>1
<1>3. SubSeq(p, 1, 1) = <<p[1]>> /\ 2 - 1 = 1
  <2>1. SubSeq(p, 1, 1) = [i \in 1 .. 1 |-> p[i]]
    BY <1>0, <1>1, SubSeqProperties
  <2>2. SubSeq(p, 1, 1) \in Seq(S) /\ Len(SubSeq(p, 1, 1)) = 1 /\ SubSeq(p, 1, 1)[1] = p[1]
    BY <1>0, <1>1, <2>1
  <2>3. PICK t \in Seq(S) : t = SubSeq(p, 1, 1) /\ Len(t) = 1 /\ t[1] = p[1]
    BY <2>2
  <2>4. t = <<t[1]>>
    BY <2>3, ShortFacts
  <2> QED
    BY <2>3, <2>4
<1>4. WayFields(v, p)[1] = Fields(At(v, SubSeq(p, 1, 1 - 1)))
  BY <1>1 DEF WayFields
<1>5. n > 1 => WayFields(v, p)[2] = Fields(At(v, SubSeq(p, 1, 2 - 1)))
  BY <1>1 DEF WayFields
<1>6. At(v, <<>>) = v /\ At(v, <<p[1]>>) = Child(v, p[1])
  <2>1. At(v, Root) = v /\ At(v, Single(p[1])) = Child(v, p[1])
    BY AtFacts, Zenon
  <2> QED
    BY <2>1 DEF Root, Single
<1> QED
  BY <1>1, <1>2, <1>3, <1>4, <1>5, <1>6

(* The first two levels of what an addition and a removal make.            *)
IsAdded(new, v, n, f1, f2, x) ==
    /\ n = 1 => new = Obj(With(Fields(v), f1, x))
    /\ n = 2 => new = Obj(With(Fields(v), f1, Obj(With(Fields(Child(v, f1)), f2, x))))
    /\ n > 2 => \E z : /\ Is(z, "obj")
                       /\ new = Obj(With(Fields(v), f1, Obj(With(Fields(Child(v, f1)), f2, z))))

IsTaken(new, v, n, f1, f2) ==
    /\ n = 1 => new = Obj(Without(Fields(v), f1))
    /\ n = 2 => new = Obj(With(Fields(v), f1, Obj(Without(Fields(Child(v, f1)), f2))))
    /\ n > 2 => \E z : /\ Is(z, "obj")
                       /\ new = Obj(With(Fields(v), f1, Obj(With(Fields(Child(v, f1)), f2, z))))

LEMMA Added ==
    ASSUME NEW v, NEW p, IsSequence(p), p # <<>>, NEW x
    PROVE  IsAdded(AddNestedKey(v, p, x), v, Len(p), p[1], p[2], x)
<1>1. PICK n \in Nat \ {0} : n = Len(p) /\ Last(p) = p[n]
  BY SequenceFacts DEF Last
<1>2. PICK g : g = WayFields(v, p)
  OBVIOUS
<1>3. PICK w : w[1] = AddNestedKey(v, p, x) /\ AreNodes(w, n, Obj(With(g[n], p[n], x)), g, p)
  BY <1>1, <1>2, AddNodes
<1>4. g[1] = Fields(v) /\ (n > 1 => g[2] = Fields(Child(v, p[1])))
  BY <1>1, <1>2, WayStart
<1>5. \A i \in 1 .. n : w[i] = IF i = n THEN Obj(With(g[n], p[n], x)) ELSE Obj(With(g[i], p[i], w[i + 1]))
  BY <1>3 DEF AreNodes
<1>6. /\ n = 1 => w[1] = Obj(With(g[1], p[1], x))
      /\ n > 1 => w[1] = Obj(With(g[1], p[1], w[2]))
      /\ n = 2 => w[2] = Obj(With(g[2], p[2], x))
      /\ n > 2 => w[2] = Obj(With(g[2], p[2], w[3])) /\ Is(w[3], "obj")
  <2>1. /\ n = 1 => w[1] = Obj(With(g[1], p[1], x))
        /\ n > 1 => w[1] = Obj(With(g[1], p[1], w[1 + 1]))
        /\ n = 2 => w[2] = Obj(With(g[2], p[2], x))
        /\ n > 2 => w[2] = Obj(With(g[2], p[2], w[2 + 1])) /\ 3 \in 1 .. n
    BY <1>5
  <2>2. n > 2 => Is(w[3], "obj")
    BY <1>5, <2>1, ChildFacts
  <2> QED
    BY <2>1, <2>2
<1> QED
  BY <1>1, <1>3, <1>4, <1>6 DEF IsAdded

LEMMA Taken ==
    ASSUME NEW v, NEW p, IsSequence(p), p # <<>>, At(v, p) # Missing
    PROVE  IsTaken(RemoveNestedKey(v, p), v, Len(p), p[1], p[2])
<1>1. PICK n \in Nat \ {0} : n = Len(p) /\ Last(p) = p[n]
  BY SequenceFacts DEF Last
<1>2. PICK g : g = WayFields(v, p)
  OBVIOUS
<1>3. PICK w : w[1] = RemoveNestedKey(v, p) /\ AreNodes(w, n, Obj(Without(g[n], p[n])), g, p)
  BY <1>1, <1>2, RemoveNodes
<1>4. g[1] = Fields(v) /\ (n > 1 => g[2] = Fields(Child(v, p[1])))
  BY <1>1, <1>2, WayStart
<1>5. \A i \in 1 .. n : w[i] = IF i = n THEN Obj(Without(g[n], p[n])) ELSE Obj(With(g[i], p[i], w[i + 1]))
  BY <1>3 DEF AreNodes
<1>6. /\ n = 1 => w[1] = Obj(Without(g[1], p[1]))
      /\ n > 1 => w[1] = Obj(With(g[1], p[1], w[2]))
      /\ n = 2 => w[2] = Obj(Without(g[2], p[2]))
      /\ n > 2 => w[2] = Obj(With(g[2], p[2], w[3])) /\ Is(w[3], "obj")
  <2>1. /\ n = 1 => w[1] = Obj(Without(g[1], p[1]))
        /\ n > 1 => w[1] = Obj(With(g[1], p[1], w[1 + 1]))
        /\ n = 2 => w[2] = Obj(Without(g[2], p[2]))
        /\ n > 2 => w[2] = Obj(With(g[2], p[2], w[2 + 1])) /\ 3 \in 1 .. n
    BY <1>5
  <2>2. n > 2 => Is(w[3], "obj")
    BY <1>5, <2>1, ChildFacts
  <2> QED
    BY <2>1, <2>2
<1> QED
  BY <1>1, <1>3, <1>4, <1>6 DEF IsTaken

(* A path against the short ones.                                          *)
LEMMA StartFacts ==
    ASSUME NEW S, NEW s \in Seq(S), Len(s) # 0
    PROVE  /\ SubSeq(s, 1, 0) = <<>>
           /\ SubSeq(s, 1, Len(s)) = s
           /\ SubSeq(s, Len(s) + 1, Len(s)) = <<>>
           /\ SubSeq(s, 1, 1) = <<s[1]>>
           /\ Len(s) >= 2 => SubSeq(s, 1, 2) = <<s[1], s[2]>> /\ SubSeq(s, 2, 2) = <<s[2]>>
<1>1. PICK n \in Nat : n = Len(s) /\ n # 0
  OBVIOUS
<1>2. SubSeq(s, 1, 0) = <<>> /\ SubSeq(s, 1, n) = s /\ SubSeq(s, n + 1, n) = <<>>
  BY <1>1
<1>3. \A i \in 1 .. n : /\ SubSeq(s, i, i) \in Seq(S) /\ Len(SubSeq(s, i, i)) = 1
                        /\ SubSeq(s, i, i)[1] = s[i]
  BY <1>1
<1>4. ASSUME NEW i \in 1 .. n PROVE SubSeq(s, i, i) = <<s[i]>>
  <2>1. PICK t \in Seq(S) : t = SubSeq(s, i, i) /\ Len(t) = 1 /\ t[1] = s[i]
    BY <1>3
  <2>2. t = <<t[1]>>
    BY <2>1, ShortFacts
  <2> QED
    BY <2>1, <2>2
<1>5. ASSUME n >= 2 PROVE SubSeq(s, 1, 2) = <<s[1], s[2]>>
  <2>0. /\ SubSeq(s, 1, 2) \in Seq(S) /\ Len(SubSeq(s, 1, 2)) = 2
        /\ SubSeq(s, 1, 2)[1] = s[1] /\ SubSeq(s, 1, 2)[2] = s[2]
    BY <1>1, <1>5
  <2>1. PICK t \in Seq(S) : t = SubSeq(s, 1, 2) /\ Len(t) = 2 /\ t[1] = s[1] /\ t[2] = s[2]
    BY <2>0
  <2>2. t = <<t[1], t[2]>>
    BY <2>1, ShortFacts
  <2> QED
    BY <2>1, <2>2
<1> QED
  BY <1>1, <1>2, <1>4, <1>5

Compares(p, n, f1, f2) ==
    /\ ~IsPrefix(p, Root) /\ IsPrefix(Root, p)
    /\ \A f : IsPrefix(p, Single(f)) <=> n = 1 /\ f = f1
    /\ \A f : IsPrefix(Single(f), p) <=> f = f1
    /\ \A f, g : IsPrefix(p, Double(f, g)) <=> f = f1 /\ (n = 1 \/ (n = 2 /\ g = f2))
    /\ \A f, g : IsPrefix(Double(f, g), p) <=> n >= 2 /\ f = f1 /\ g = f2
    /\ n = 1 => \A f : Beneath(p, Single(f)) = Root
    /\ n = 1 => \A f, g : Beneath(p, Double(f, g)) = Single(g)
    /\ n = 2 => \A f, g : Beneath(p, Double(f, g)) = Root

LEMMA PrefixFacts ==
    ASSUME NEW p, IsSequence(p), p # <<>>
    PROVE  Compares(p, Len(p), p[1], p[2])
<1>1. PICK n \in Nat \ {0} : n = Len(p)
  BY SequenceFacts
<1>2. PICK S : p \in Seq(S)
  BY DEF IsSequence
<1>3. /\ SubSeq(p, 1, 0) = <<>>
      /\ SubSeq(p, 1, 1) = <<p[1]>>
      /\ n >= 2 => SubSeq(p, 1, 2) = <<p[1], p[2]>>
      /\ SubSeq(p, 1, n) = p
      /\ n = 1 => p = <<p[1]>>
      /\ n = 2 => p = <<p[1], p[2]>>
  BY <1>1, <1>2, StartFacts, ShortFacts
<1>4. ASSUME NEW f
      PROVE  /\ SubSeq(<<f>>, 1, 1) = <<f>>
             /\ SubSeq(<<f>>, 2, 1) = <<>> /\ Len(<<f>>) = 1
  <2>1. PICK s : s = <<f>>
    OBVIOUS
  <2>2. s \in Seq({f}) /\ Len(s) = 1 /\ s[1] = f
    BY <2>1
  <2>3. SubSeq(s, 1, 1) = <<s[1]>> /\ SubSeq(s, 2, 1) = <<>>
    BY <2>2, StartFacts
  <2> QED
    BY <2>1, <2>2, <2>3
<1>5. ASSUME NEW f, NEW g
      PROVE  /\ SubSeq(<<f, g>>, 1, 1) = <<f>> /\ SubSeq(<<f, g>>, 1, 2) = <<f, g>>
             /\ SubSeq(<<f, g>>, 2, 2) = <<g>> /\ SubSeq(<<f, g>>, 3, 2) = <<>>
             /\ Len(<<f, g>>) = 2
  <2>1. PICK s : s = <<f, g>>
    OBVIOUS
  <2>2. s \in Seq({f, g}) /\ Len(s) = 2 /\ s[1] = f /\ s[2] = g
    BY <2>1
  <2>3. /\ SubSeq(s, 1, 2) = s /\ SubSeq(s, 3, 2) = <<>>
        /\ SubSeq(s, 1, 1) = <<s[1]>> /\ SubSeq(s, 2, 2) = <<s[2]>>
    BY <2>2, StartFacts
  <2> QED
    BY <2>1, <2>2, <2>3
<1>6. /\ \A f, g : <<f>> = <<g>> <=> f = g
      /\ \A f, g, x, y : <<f, g>> = <<x, y>> <=> f = x /\ g = y
  OBVIOUS
<1>7. ~IsPrefix(p, Root) /\ IsPrefix(Root, p)
  <2>1. Len(<<>>) = 0 /\ SubSeq(<<>>, 1, 0) = <<>>
    OBVIOUS
  <2> QED
    BY <1>1, <1>3, <2>1 DEF IsPrefix, Root
<1>8. ASSUME NEW f PROVE IsPrefix(p, Single(f)) <=> Len(p) = 1 /\ f = p[1]
  <2>1. IsPrefix(p, <<f>>) <=> n <= 1 /\ SubSeq(p, 1, n) = SubSeq(<<f>>, 1, n)
    BY <1>1, <1>4 DEF IsPrefix
  <2> QED
    BY <1>1, <1>3, <1>4, <1>6, <2>1 DEF Single
<1>9. ASSUME NEW f PROVE IsPrefix(Single(f), p) <=> f = p[1]
  <2>1. IsPrefix(<<f>>, p) <=> 1 <= n /\ SubSeq(<<f>>, 1, 1) = SubSeq(p, 1, 1)
    BY <1>1, <1>4 DEF IsPrefix
  <2> QED
    BY <1>1, <1>3, <1>4, <1>6, <2>1 DEF Single
<1>10. ASSUME NEW f, NEW g
       PROVE  IsPrefix(p, Double(f, g)) <=> f = p[1] /\ (Len(p) = 1 \/ (Len(p) = 2 /\ g = p[2]))
  <2>1. IsPrefix(p, <<f, g>>) <=> n <= 2 /\ SubSeq(p, 1, n) = SubSeq(<<f, g>>, 1, n)
    BY <1>1, <1>5 DEF IsPrefix
  <2>2. n <= 2 => n = 1 \/ n = 2
    BY <1>1
  <2>3. CASE n = 1
    BY <1>1, <1>3, <1>5, <1>6, <2>1, <2>3 DEF Double
  <2>4. CASE n = 2
    BY <1>1, <1>3, <1>5, <1>6, <2>1, <2>4 DEF Double
  <2> QED
    BY <1>1, <2>1, <2>2, <2>3, <2>4 DEF Double
<1>11. ASSUME NEW f, NEW g PROVE IsPrefix(Double(f, g), p) <=> Len(p) >= 2 /\ f = p[1] /\ g = p[2]
  <2>1. IsPrefix(<<f, g>>, p) <=> 2 <= n /\ SubSeq(<<f, g>>, 1, 2) = SubSeq(p, 1, 2)
    BY <1>1, <1>5 DEF IsPrefix
  <2> QED
    BY <1>1, <1>3, <1>5, <1>6, <2>1 DEF Double
<1>12. ASSUME NEW f PROVE Len(p) = 1 => Beneath(p, Single(f)) = Root
  BY <1>4 DEF Beneath, Single, Root
<1>13. ASSUME NEW f, NEW g
       PROVE  /\ Len(p) = 1 => Beneath(p, Double(f, g)) = Single(g)
              /\ Len(p) = 2 => Beneath(p, Double(f, g)) = Root
  <2>1. /\ Len(p) = 1 => Beneath(p, <<f, g>>) = SubSeq(<<f, g>>, 2, 2)
        /\ Len(p) = 2 => Beneath(p, <<f, g>>) = SubSeq(<<f, g>>, 3, 2)
    <3>1. \A q : Beneath(p, q) = SubSeq(q, n + 1, Len(q))
      BY <1>1 DEF Beneath
    <3>2. Len(<<f, g>>) = 2 /\ (n = 1 => n + 1 = 2) /\ (n = 2 => n + 1 = 3)
      OBVIOUS
    <3> QED
      BY <1>1, <3>1, <3>2
  <2> QED
    BY <1>5, <2>1 DEF Single, Double, Root
<1> QED
  BY <1>7, <1>8, <1>9, <1>10, <1>11, <1>12, <1>13 DEF Compares

LEMMA ShortPaths ==
    ASSUME NEW u, NEW v, NEW w, NEW q \in Paths(u, v, w)
    PROVE  q = Root \/ (\E f : q = Single(f)) \/ (\E f, g : q = Double(f, g))
BY DEF Paths, Root, Single, Double

(* PutAt at one path.                                                      *)
PutsAt(old, new, p, x, q) ==
    IF IsPrefix(p, q) THEN At(new, q) = At(x, Beneath(p, q))
    ELSE IF IsPrefix(q, p) THEN Is(At(new, q), "obj")
    ELSE At(new, q) = At(old, q)

(* Two documents with the same children: one may be null, the other absent. *)
SameChildren(u, v) == \A f : Child(u, f) = Child(v, f)

(* new has, under f1 and there under f2, another child than old.           *)
LEMMA ChildAdded ==
    ASSUME NEW v, NEW f1, NEW y, NEW new, new = Obj(With(Fields(v), f1, y))
    PROVE  /\ At(new, Root) = new /\ Is(new, "obj")
           /\ \A f : At(new, Single(f)) = IF f = f1 THEN y ELSE Child(v, f)
           /\ \A f, g : At(new, Double(f, g)) = IF f = f1 THEN Child(y, g) ELSE Child(Child(v, f), g)
<1>1. \A f : Child(new, f) = IF f = f1 THEN y ELSE Child(v, f)
  BY ChildFacts
<1>2. Is(new, "obj")
  BY ChildFacts
<1>3. At(new, Root) = new
  BY AtFacts
<1>4. ASSUME NEW f PROVE At(new, Single(f)) = IF f = f1 THEN y ELSE Child(v, f)
  BY <1>1, AtFacts
<1>5. ASSUME NEW f, NEW g
      PROVE  At(new, Double(f, g)) = IF f = f1 THEN Child(y, g) ELSE Child(Child(v, f), g)
  <2>1. At(new, Double(f, g)) = Child(Child(new, f), g)
    BY AtFacts
  <2> QED
    BY <1>1, <2>1
<1> QED
  BY <1>2, <1>3, <1>4, <1>5

(* JSON.ADD and MAP.SET change what is at the path, and nothing else.      *)
LEMMA AddPuts ==
    ASSUME NEW v, NEW p, IsSequence(p), p # <<>>, NEW x, NEW old, SameChildren(old, v)
    PROVE  PutAt(old, AddNestedKey(v, p, x), p, x)
<1>1. PICK new : new = AddNestedKey(v, p, x)
  OBVIOUS
<1>2. PICK n \in Nat \ {0} : n = Len(p)
  BY SequenceFacts
<1>3. PICK f1 : f1 = p[1]
  OBVIOUS
<1>4. PICK f2 : f2 = p[2]
  OBVIOUS
<1>5. IsAdded(new, v, n, f1, f2, x)
  BY <1>1, <1>2, <1>3, <1>4, Added
<1>6. Compares(p, n, f1, f2)
  BY <1>2, <1>3, <1>4, PrefixFacts
<1>7. /\ At(x, Root) = x
      /\ \A g : At(x, Single(g)) = Child(x, g)
      /\ \A f : At(old, Single(f)) = Child(v, f)
      /\ \A f, g : At(old, Double(f, g)) = Child(Child(v, f), g)
  BY AtFacts DEF SameChildren
<1>8. CASE n = 1
  <2>1. new = Obj(With(Fields(v), f1, x))
    BY <1>5, <1>8 DEF IsAdded
  <2>2. /\ At(new, Root) = new /\ Is(new, "obj")
        /\ \A f : At(new, Single(f)) = IF f = f1 THEN x ELSE Child(v, f)
        /\ \A f, g : At(new, Double(f, g)) = IF f = f1 THEN Child(x, g) ELSE Child(Child(v, f), g)
    BY <2>1, ChildAdded
  <2>3. PutsAt(old, new, p, x, Root)
    BY <1>6, <2>2 DEF PutsAt, Compares
  <2>4. \A f : PutsAt(old, new, p, x, Single(f))
    BY <1>6, <1>7, <1>8, <2>2 DEF PutsAt, Compares
  <2>5. \A f, g : PutsAt(old, new, p, x, Double(f, g))
    BY <1>6, <1>7, <1>8, <2>2 DEF PutsAt, Compares
  <2> QED
    BY <1>1, <2>3, <2>4, <2>5, ShortPaths DEF PutAt, PutsAt
<1>9. CASE n # 1
  <2>1. PICK z : /\ n = 2 => z = x
                 /\ n > 2 => Is(z, "obj")
                 /\ new = Obj(With(Fields(v), f1, Obj(With(Fields(Child(v, f1)), f2, z))))
    <3>1. n = 2 \/ n > 2
      BY <1>9
    <3> QED
      BY <1>5, <3>1 DEF IsAdded
  <2>2. PICK y : y = Obj(With(Fields(Child(v, f1)), f2, z))
    OBVIOUS
  <2>3. /\ At(new, Root) = new /\ Is(new, "obj")
        /\ \A f : At(new, Single(f)) = IF f = f1 THEN y ELSE Child(v, f)
        /\ \A f, g : At(new, Double(f, g)) = IF f = f1 THEN Child(y, g) ELSE Child(Child(v, f), g)
    BY <2>1, <2>2, ChildAdded
  <2>4. Is(y, "obj") /\ \A g : Child(y, g) = IF g = f2 THEN z ELSE Child(Child(v, f1), g)
    BY <2>2, ChildFacts
  <2>5. PutsAt(old, new, p, x, Root)
    BY <1>6, <2>3 DEF PutsAt, Compares
  <2>6. ASSUME NEW f PROVE PutsAt(old, new, p, x, Single(f))
    BY <1>6, <1>7, <1>9, <2>3, <2>4 DEF PutsAt, Compares
  <2>7. ASSUME NEW f, NEW g PROVE PutsAt(old, new, p, x, Double(f, g))
    <3>1. CASE f # f1 \/ g # f2
      BY <1>6, <1>7, <1>9, <2>3, <2>4, <3>1 DEF PutsAt, Compares
    <3>2. CASE f = f1 /\ g = f2 /\ n = 2
      BY <1>6, <1>7, <2>1, <2>3, <2>4, <3>2 DEF PutsAt, Compares
    <3>3. CASE f = f1 /\ g = f2 /\ n > 2
      BY <1>6, <1>7, <2>1, <2>3, <2>4, <3>3 DEF PutsAt, Compares
    <3> QED
      BY <1>9, <3>1, <3>2, <3>3
  <2> QED
    BY <1>1, <2>5, <2>6, <2>7, ShortPaths DEF PutAt, PutsAt
<1> QED
  BY <1>8, <1>9

(* TakenAt at one path.                                                    *)
TakesAt(old, new, p, q) ==
    IF IsPrefix(p, q) THEN At(new, q) = Missing
    ELSE IF IsPrefix(q, p) /\ Is(At(old, q), "obj") THEN Is(At(new, q), "obj")
    ELSE At(new, q) = At(old, q)

(* MAP.DEL, and JSON.REMOVE of a field of the document itself.             *)
LEMMA TakesField ==
    ASSUME NEW v, Is(v, "obj"), NEW p, IsSequence(p), Len(p) = 1
    PROVE  TakenAt(v, Obj(Without(Fields(v), p[1])), p)
<1>1. PICK f1 : f1 = p[1]
  OBVIOUS
<1>2. PICK new : new = Obj(Without(Fields(v), f1))
  OBVIOUS
<1>3. Compares(p, 1, f1, p[2])
  <2>1. p # <<>>
    OBVIOUS
  <2> QED
    BY <1>1, <2>1, PrefixFacts
<1>4. /\ At(v, Root) = v
      /\ \A f : At(v, Single(f)) = Child(v, f)
      /\ \A f, g : At(v, Double(f, g)) = Child(Child(v, f), g)
  BY AtFacts
<1>5. \A f : Child(new, f) = IF f = f1 THEN Missing ELSE Child(v, f)
  BY <1>2, ChildFacts
<1>6. /\ At(new, Root) = new /\ Is(new, "obj")
      /\ \A f : At(new, Single(f)) = Child(new, f)
      /\ \A f, g : At(new, Double(f, g)) = Child(Child(new, f), g)
  BY <1>2, AtFacts, ChildFacts
<1>7. TakesAt(v, new, p, Root)
  BY <1>3, <1>4, <1>6 DEF TakesAt, Compares
<1>8. ASSUME NEW f PROVE TakesAt(v, new, p, Single(f))
  BY <1>3, <1>4, <1>5, <1>6 DEF TakesAt, Compares
<1>9. ASSUME NEW f, NEW g PROVE TakesAt(v, new, p, Double(f, g))
  <2>1. At(new, Double(f, g)) = IF f = f1 THEN Missing ELSE Child(Child(v, f), g)
    BY <1>5, <1>6, ChildFacts
  <2> QED
    BY <1>3, <1>4, <2>1 DEF TakesAt, Compares
<1> QED
  BY <1>1, <1>2, <1>7, <1>8, <1>9, ShortPaths DEF TakenAt, TakesAt

(* JSON.REMOVE takes away what is at the path, and nothing else.           *)
LEMMA RemoveTakes ==
    ASSUME NEW v, NEW p, IsSequence(p), p # <<>>
    PROVE  TakenAt(v, RemoveNestedKey(v, p), p)
<1>1. PICK new : new = RemoveNestedKey(v, p)
  OBVIOUS
<1>2. PICK n \in Nat \ {0} : n = Len(p)
  BY SequenceFacts
<1>3. PICK f1 : f1 = p[1]
  OBVIOUS
<1>4. PICK f2 : f2 = p[2]
  OBVIOUS
<1>5. Compares(p, n, f1, f2)
  BY <1>2, <1>3, <1>4, PrefixFacts
<1>6. /\ At(v, Root) = v
      /\ \A f : At(v, Single(f)) = Child(v, f)
      /\ \A f, g : At(v, Double(f, g)) = Child(Child(v, f), g)
  BY AtFacts
<1>7. CASE At(v, p) = Missing
  <2>1. new = v
    BY <1>1, <1>7 DEF RemoveNestedKey
  <2>2. PICK S : p \in Seq(S)
    BY DEF IsSequence
  <2>3. n = 1 => p = Single(f1)
    BY <1>2, <1>3, <2>2, ShortFacts DEF Single
  <2>4. n = 2 => p = Double(f1, f2)
    BY <1>2, <1>3, <1>4, <2>2, ShortFacts DEF Double
  <2>5. /\ n = 1 => Child(v, f1) = Missing
        /\ n = 2 => Child(Child(v, f1), f2) = Missing
    BY <1>6, <1>7, <2>3, <2>4
  <2>6. \A f : Child(Missing, f) = Missing
    BY ChildFacts
  <2>7. TakesAt(v, new, p, Root)
    BY <1>5, <2>1 DEF TakesAt, Compares
  <2>8. ASSUME NEW f PROVE TakesAt(v, new, p, Single(f))
    BY <1>5, <1>6, <2>1, <2>5 DEF TakesAt, Compares
  <2>9. ASSUME NEW f, NEW g PROVE TakesAt(v, new, p, Double(f, g))
    BY <1>5, <1>6, <2>1, <2>5, <2>6 DEF TakesAt, Compares
  <2> QED
    BY <1>1, <2>7, <2>8, <2>9, ShortPaths DEF TakenAt, TakesAt
<1>8. CASE At(v, p) # Missing
  <2>1. IsTaken(new, v, n, f1, f2)
    BY <1>1, <1>2, <1>3, <1>4, <1>8, Taken
  <2>2. /\ Is(v, "obj")
        /\ n >= 2 => Is(Child(v, f1), "obj")
        /\ n >= 3 => Is(Child(Child(v, f1), f2), "obj")
    BY <1>2, <1>3, <1>4, <1>8, WayFacts
  <2>3. CASE n = 1
    <3>1. new = Obj(Without(Fields(v), f1))
      BY <2>1, <2>3 DEF IsTaken
    <3> QED
      BY <1>1, <1>2, <1>3, <2>2, <2>3, <3>1, TakesField
  <2>4. CASE n # 1
    <3>0. n = 2 \/ n > 2
      BY <2>4
    <3>1. PICK y : /\ new = Obj(With(Fields(v), f1, y))
                   /\ n = 2 => y = Obj(Without(Fields(Child(v, f1)), f2))
                   /\ n > 2 => \E z : Is(z, "obj") /\ y = Obj(With(Fields(Child(v, f1)), f2, z))
      BY <2>1, <3>0 DEF IsTaken
    <3>2. PICK z : /\ Is(y, "obj")
                   /\ n = 2 => z = Missing
                   /\ n > 2 => Is(z, "obj")
                   /\ \A g : Child(y, g) = IF g = f2 THEN z ELSE Child(Child(v, f1), g)
      <4>1. CASE n = 2
        BY <3>1, <4>1, ChildFacts
      <4>2. CASE n > 2
        <5>1. PICK z : Is(z, "obj") /\ y = Obj(With(Fields(Child(v, f1)), f2, z))
          BY <3>1, <4>2
        <5>2. Is(y, "obj") /\ \A g : Child(y, g) = IF g = f2 THEN z ELSE Child(Child(v, f1), g)
          BY <5>1, ChildFacts
        <5> QED
          BY <4>2, <5>1, <5>2
      <4> QED
        BY <3>0, <4>1, <4>2
    <3>3. /\ At(new, Root) = new /\ Is(new, "obj")
          /\ \A f : At(new, Single(f)) = IF f = f1 THEN y ELSE Child(v, f)
          /\ \A f, g : At(new, Double(f, g)) = IF f = f1 THEN Child(y, g) ELSE Child(Child(v, f), g)
      BY <3>1, ChildAdded
    <3>4. TakesAt(v, new, p, Root)
      BY <1>5, <1>6, <2>2, <3>3 DEF TakesAt, Compares
    <3>5. ASSUME NEW f PROVE TakesAt(v, new, p, Single(f))
      BY <1>5, <1>6, <2>2, <2>4, <3>0, <3>2, <3>3 DEF TakesAt, Compares
    <3>6. ASSUME NEW f, NEW g PROVE TakesAt(v, new, p, Double(f, g))
      <4>1. CASE f # f1 \/ g # f2
        BY <1>5, <1>6, <2>4, <3>2, <3>3, <4>1 DEF TakesAt, Compares
      <4>2. CASE f = f1 /\ g = f2
        BY <1>5, <1>6, <2>2, <3>0, <3>2, <3>3, <4>2 DEF TakesAt, Compares
      <4> QED
        BY <4>1, <4>2
    <3> QED
      BY <1>1, <3>4, <3>5, <3>6, ShortPaths DEF TakenAt, TakesAt
  <2> QED
    BY <2>3, <2>4
<1> QED
  BY <1>7, <1>8

(* The recursion of mergeObjects.                                          *)
MergedAt(w, old, new, p) ==
    LET was == Fields(At(Obj(old), p))
        now == Fields(At(Obj(new), p))
    IN [f \in DOMAIN was \cup DOMAIN now |->
           IF f \notin DOMAIN now THEN was[f]
           ELSE IF /\ f \in DOMAIN was /\ Is(was[f], "obj") /\ Is(now[f], "obj")
                   /\ Append(p, f) \in DocumentPaths
           THEN Obj(w[Append(p, f)])
           ELSE now[f]]

LEMMA SameMerge ==
    ASSUME NEW u, NEW w, NEW old, NEW new, NEW p,
           \A f : Append(p, f) \in DocumentPaths => u[Append(p, f)] = w[Append(p, f)]
    PROVE  MergedAt(u, old, new, p) = MergedAt(w, old, new, p)
<1>1. PICK was : was = Fields(At(Obj(old), p))
  OBVIOUS
<1>2. PICK now : now = Fields(At(Obj(new), p))
  OBVIOUS
<1> DEFINE Entry(x, f) == IF f \notin DOMAIN now THEN was[f]
                          ELSE IF /\ f \in DOMAIN was /\ Is(was[f], "obj") /\ Is(now[f], "obj")
                                  /\ Append(p, f) \in DocumentPaths
                          THEN Obj(x[Append(p, f)])
                          ELSE now[f]
           D == DOMAIN was \cup DOMAIN now
<1>3. /\ MergedAt(u, old, new, p) = [f \in D |-> Entry(u, f)]
      /\ MergedAt(w, old, new, p) = [f \in D |-> Entry(w, f)]
  BY <1>1, <1>2, Zenon DEF MergedAt
<1>4. ASSUME NEW f \in D PROVE Entry(u, f) = Entry(w, f)
  <2>1. CASE Append(p, f) \in DocumentPaths
    <3>1. u[Append(p, f)] = w[Append(p, f)]
      BY <2>1
    <3> QED
      BY <3>1, Zenon
  <2>2. CASE Append(p, f) \notin DocumentPaths
    BY <2>2, Zenon
  <2> QED
    BY <2>1, <2>2
<1> HIDE DEF Entry, D
<1>5. [f \in D |-> Entry(u, f)] = [f \in D |-> Entry(w, f)]
  BY <1>4
<1> QED
  BY <1>3, <1>5

LEMMA MergeExists ==
    ASSUME NEW old, NEW new
    PROVE  \E w : /\ MergeObjects(old, new) = w[<<>>]
                  /\ \A p \in DocumentPaths : w[p] = MergedAt(w, old, new, p)
<1>0. Nesting \in Nat /\ Nesting >= 2
  BY NestingAssumption
<1>1. /\ \A p \in DocumentPaths : Len(p) \in 0 .. Nesting - 1
      /\ \A p \in DocumentPaths : \A f : Append(p, f) \in DocumentPaths => Len(Append(p, f)) = Len(p) + 1
  <2>1. \A p \in DocumentPaths : p \in Seq(STRING) /\ Len(p) \in Nat /\ Len(p) < Nesting
    BY DEF DocumentPaths
  <2>2. ASSUME NEW p \in DocumentPaths, NEW f PROVE Len(Append(p, f)) = Len(p) + 1
    <3>1. p \in Seq(STRING \cup {f})
      BY <2>1
    <3> QED
      BY <3>1
  <2> QED
    BY <1>0, <2>1, <2>2
<1> DEFINE Reach == {k \in Nat : \E w : \A p \in DocumentPaths :
                        Len(p) >= Nesting - k => w[p] = MergedAt(w, old, new, p)}
<1>2. 0 \in Reach
  <2>1. \A p \in DocumentPaths : ~(Len(p) >= Nesting - 0)
    BY <1>0, <1>1
  <2> QED
    BY <2>1
<1>3. ASSUME NEW k \in 0 .. Nesting - 1, k \in Reach PROVE k + 1 \in Reach
  <2>1. PICK w : \A p \in DocumentPaths : Len(p) >= Nesting - k => w[p] = MergedAt(w, old, new, p)
    BY <1>3
  <2> DEFINE u == [p \in DocumentPaths |-> MergedAt(w, old, new, p)]
  <2>2. \A p \in DocumentPaths : Len(p) >= Nesting - k => u[p] = w[p]
    BY <2>1
  <2>3. ASSUME NEW p \in DocumentPaths, Len(p) >= Nesting - (k + 1)
        PROVE  u[p] = MergedAt(u, old, new, p)
    <3>1. \A f : Append(p, f) \in DocumentPaths => Len(Append(p, f)) >= Nesting - k
      BY <1>0, <1>1, <2>3
    <3>2. \A f : Append(p, f) \in DocumentPaths => u[Append(p, f)] = w[Append(p, f)]
      <4> HIDE DEF u
      <4> QED
        BY <2>2, <3>1
    <3>3. u[p] = MergedAt(w, old, new, p)
      OBVIOUS
    <3> HIDE DEF u
    <3>4. MergedAt(u, old, new, p) = MergedAt(w, old, new, p)
      BY <3>2, SameMerge
    <3> QED
      BY <3>3, <3>4
  <2>4. k + 1 \in Nat
    BY <1>0
  <2> HIDE DEF u
  <2> QED
    BY <2>3, <2>4
<1>4. Nesting \in Reach
  <2> HIDE DEF Reach
  <2>1. \A k \in 0 .. Nesting : k \in Reach
    BY <1>0, <1>2, <1>3, UpTo
  <2> QED
    BY <1>0, <2>1
<1>5. PICK w : \A p \in DocumentPaths : w[p] = MergedAt(w, old, new, p)
  <2>1. \A p \in DocumentPaths : Len(p) >= Nesting - Nesting
    BY <1>0, <1>1
  <2> QED
    BY <1>4, <2>1
<1> DEFINE IsMerged(w_) == w_ = [p \in DocumentPaths |-> MergedAt(w_, old, new, p)]
           u == [p \in DocumentPaths |-> w[p]]
<1>6. IsMerged(u)
  <2>1. \A p \in DocumentPaths : u[p] = w[p]
    OBVIOUS
  <2>2. u = [p \in DocumentPaths |-> w[p]]
    OBVIOUS
  <2> HIDE DEF u
  <2>3. ASSUME NEW p \in DocumentPaths PROVE w[p] = MergedAt(u, old, new, p)
    <3>1. MergedAt(u, old, new, p) = MergedAt(w, old, new, p)
      BY <2>1, SameMerge
    <3> QED
      BY <1>5, <3>1
  <2> QED
    BY <2>2, <2>3
<1> DEFINE merged == CHOOSE w_ : IsMerged(w_)
<1>7. IsMerged(merged)
  <2> HIDE DEF IsMerged
  <2> QED
    BY <1>6
<1>8. MergeObjects(old, new) = merged[<<>>]
  BY DEF MergeObjects, MergedAt
<1>9. \A p \in DocumentPaths : merged[p] = MergedAt(merged, old, new, p)
  <2> HIDE DEF merged
  <2> QED
    BY <1>7
<1> QED
  <2> HIDE DEF merged
  <2> QED
    BY <1>8, <1>9
(* The children of a document.                                             *)
LEMMA Held ==
    ASSUME NEW x, Holds(x), NEW f
    PROVE  /\ Child(x, f) = Missing <=> f \notin DOMAIN Fields(x)
           /\ Child(x, f) # Missing => f \in STRING /\ ~Is(Child(x, f), "missing")
<1>1. CASE f \in DOMAIN Fields(x)
  <2>1. Is(x, "obj") /\ f \in DOMAIN x.obj
    <3>1. DOMAIN <<>> = {}
      OBVIOUS
    <3> QED
      BY <1>1, <3>1 DEF Fields
  <2>2. Child(x, f) = x.obj[f] /\ f \in STRING /\ IsValue(x.obj[f])
    BY <2>1 DEF Child, Holds
  <2>3. ASSUME NEW u, IsValue(u) PROVE ~Is(u, "missing")
    <3>1. CASE u \in [num : Int] \cup [null : {TRUE}] \cup [inf : {TRUE}]
      <4>1. DOMAIN u = {"num"} \/ DOMAIN u = {"null"} \/ DOMAIN u = {"inf"}
        BY <3>1
      <4> QED
        BY <4>1 DEF Is
    <3>2. CASE DOMAIN u = {"ref"} \/ DOMAIN u = {"obj"} \/ DOMAIN u = {"str"}
      BY <3>2 DEF Is
    <3>3. CASE u = [text |-> u.text]
      <4>1. PICK t : u = [text |-> t]
        BY <3>3
      <4> QED
        BY <4>1 DEF Is
    <3>4. CASE DOMAIN u = {"arr"}
      BY <3>4 DEF Is
    <3> QED
      BY <2>3, <3>1, <3>2, <3>3, <3>4 DEF IsValue
  <2>4. Is(Missing, "missing")
    BY DEF Is, Missing
  <2>5. ~Is(Child(x, f), "missing")
    BY <2>2, <2>3
  <2> QED
    BY <1>1, <2>2, <2>4, <2>5
<1>2. CASE f \notin DOMAIN Fields(x)
  <2>1. Child(x, f) = Missing
    BY <1>2 DEF Child, Fields
  <2> QED
    BY <1>2, <2>1
<1> QED
  BY <1>1, <1>2

(* One level of a merge, of what is at p in the two documents.             *)
Deeper(p, f) == Append(p, f)
Both(u, v, q, z) ==
    IF v = Missing THEN u
    ELSE IF Is(u, "obj") /\ Is(v, "obj") /\ q \in DocumentPaths THEN z
    ELSE v

LEMMA MergeLevel ==
    ASSUME NEW w, NEW old, NEW new, NEW p, Holds(At(Obj(new), p)), NEW f
    PROVE  Child(Obj(MergedAt(w, old, new, p)), f) =
               Both(Child(At(Obj(old), p), f), Child(At(Obj(new), p), f),
                    Deeper(p, f), Obj(w[Deeper(p, f)]))
<1>3. PICK q : q = Append(p, f) /\ q = Deeper(p, f)
  BY DEF Deeper
<1>1. PICK a : a = At(Obj(old), p)
  OBVIOUS
<1>2. PICK b : b = At(Obj(new), p) /\ Holds(b)
  OBVIOUS
<1>4. PICK was : was = Fields(a)
  OBVIOUS
<1>5. PICK now : now = Fields(b)
  OBVIOUS
<1>6. ASSUME NEW u, NEW h, NEW t, t = Fields(u)
      PROVE Child(u, h) = IF h \in DOMAIN t THEN t[h] ELSE Missing
  <2>1. CASE Is(u, "obj")
    BY <1>6, <2>1 DEF Child, Fields
  <2>2. CASE ~Is(u, "obj")
    <3>1. t = <<>> /\ DOMAIN <<>> = {}
      BY <1>6, <2>2 DEF Fields
    <3> QED
      BY <2>2, <3>1 DEF Child
  <2> QED
    BY <2>1, <2>2
<1> DEFINE Entry(h) == IF h \notin DOMAIN now THEN was[h]
                       ELSE IF /\ h \in DOMAIN was /\ Is(was[h], "obj") /\ Is(now[h], "obj")
                               /\ Append(p, h) \in DocumentPaths
                       THEN Obj(w[Append(p, h)])
                       ELSE now[h]
<1>7. PICK m : m = MergedAt(w, old, new, p)
  OBVIOUS
<1>8. m = [h \in DOMAIN was \cup DOMAIN now |-> Entry(h)]
  BY <1>1, <1>2, <1>4, <1>5, <1>7, Zenon DEF MergedAt
<1>9. DOMAIN m = DOMAIN was \cup DOMAIN now /\ (f \in DOMAIN m => m[f] = Entry(f))
  <2> HIDE DEF Entry
  <2> QED
    BY <1>8
<1>10. Child(Obj(m), f) = IF f \in DOMAIN m THEN m[f] ELSE Missing
  BY DEF Child, Is, Obj
<1>11. Child(a, f) = IF f \in DOMAIN was THEN was[f] ELSE Missing
  BY <1>4, <1>6
<1>12. Child(b, f) = IF f \in DOMAIN now THEN now[f] ELSE Missing
  BY <1>5, <1>6
<1>13. Child(b, f) = Missing <=> f \notin DOMAIN now
  BY <1>2, <1>5, Held
<1>14. ~Is(Missing, "obj")
  BY ChildFacts
<1>15. CASE f \notin DOMAIN now
  BY <1>1, <1>2, <1>3, <1>7, <1>9, <1>10, <1>11, <1>13, <1>15 DEF Both
<1>16. CASE f \in DOMAIN now
  <2>1. Child(Obj(m), f) = IF f \in DOMAIN was /\ Is(was[f], "obj") /\ Is(now[f], "obj") /\ q \in DocumentPaths
                           THEN Obj(w[q]) ELSE now[f]
    <3>1. Child(Obj(m), f) = Entry(f)
      <4> HIDE DEF Entry
      <4> QED
        BY <1>9, <1>10, <1>16
    <3> QED
      BY <1>3, <1>16, <3>1
  <2>2. Child(b, f) = now[f] /\ Child(b, f) # Missing
    BY <1>12, <1>13, <1>16
  <2>3. CASE f \in DOMAIN was
    BY <1>1, <1>2, <1>3, <1>7, <1>11, <2>1, <2>2, <2>3 DEF Both
  <2>4. CASE f \notin DOMAIN was
    BY <1>1, <1>2, <1>3, <1>7, <1>11, <1>14, <2>1, <2>2, <2>4 DEF Both
  <2> QED
    BY <2>3, <2>4
<1> QED
  BY <1>15, <1>16

(* MergedFrom at one path.                                                 *)
MergesAt(old, new, x, q) ==
    LET n == At(x, q) IN
    CASE Is(n, "obj") -> Is(At(new, q), "obj")
      [] ~Is(n, "obj") /\ n # Missing -> At(new, q) = n
      [] n = Missing /\ Blocked(x, q) -> At(new, q) = Missing
      [] OTHER -> At(new, q) = At(old, q)

LEMMA MergesChoices ==
    ASSUME NEW old, NEW new, NEW x, NEW q, NEW n, n = At(x, q),
           Is(n, "obj") => Is(At(new, q), "obj"),
           ~Is(n, "obj") /\ n # Missing => At(new, q) = n,
           n = Missing /\ Blocked(x, q) => At(new, q) = Missing,
           n = Missing /\ ~Blocked(x, q) => At(new, q) = At(old, q)
    PROVE  MergesAt(old, new, x, q)
<1>1. ~Is(Missing, "obj")
  BY ChildFacts
<1>2. CASE Is(n, "obj")
  BY <1>1, <1>2 DEF MergesAt
<1>3. CASE ~Is(n, "obj") /\ n # Missing
  BY <1>3 DEF MergesAt
<1>4. CASE n = Missing /\ Blocked(x, q)
  BY <1>1, <1>4 DEF MergesAt
<1>5. CASE n = Missing /\ ~Blocked(x, q)
  BY <1>1, <1>5 DEF MergesAt
<1> QED
  BY <1>2, <1>3, <1>4, <1>5

(* JSON.MERGE.                                                             *)
LEMMA MergesInto ==
    ASSUME NEW v, NEW x, IsDocument(x), Is(x, "obj")
    PROVE  MergedFrom(v, Obj(MergeObjects(Fields(v), x.obj)), x)
<1>1. PICK old : old = Fields(v)
  OBVIOUS
<1>2. PICK fields : fields = x.obj
  OBVIOUS
<1>3. PICK w : MergeObjects(old, fields) = w[<<>>] /\ \A p \in DocumentPaths : w[p] = MergedAt(w, old, fields, p)
  BY MergeExists
<1>4. PICK new : new = Obj(MergeObjects(Fields(v), x.obj)) /\ new = Obj(w[Root])
  BY <1>1, <1>2, <1>3 DEF Root
<1>5. /\ Root \in DocumentPaths
      /\ \A f \in STRING : Single(f) \in DocumentPaths
  <2>1. <<>> \in Seq(STRING) /\ Len(<<>>) = 0
    OBVIOUS
  <2>2. \A f \in STRING : <<f>> \in Seq(STRING) /\ Len(<<f>>) = 1
    OBVIOUS
  <2> QED
    BY <2>1, <2>2, NestingAssumption DEF Root, Single, DocumentPaths
<1>7. /\ \A u, f : Child(Obj(Fields(u)), f) = Child(u, f)
      /\ Fields(x) = fields
      /\ Is(Obj(old), "obj") /\ Obj(fields).obj = fields
  <2>1. \A t : Is(Obj(t), "obj") /\ Obj(t).obj = t
    BY DEF Is, Obj
  <2>2. ASSUME NEW u, NEW f PROVE Child(Obj(Fields(u)), f) = Child(u, f)
    <3>1. DOMAIN <<>> = {}
      OBVIOUS
    <3> QED
      BY <2>1, <3>1 DEF Child, Fields
  <2> QED
    BY <1>2, <2>1, <2>2 DEF Fields
<1>8. Holds(x) /\ \A f : Holds(Child(x, f))
  <2>1. Holds(Missing)
    BY ChildFacts DEF Holds
  <2>2. Holds(x) /\ \A f \in DOMAIN x.obj : Holds(x.obj[f])
    BY DEF IsDocument
  <2> QED
    BY <2>1, <2>2 DEF Child
<1>9. /\ \A f : At(Obj(old), Single(f)) = Child(v, f)
      /\ \A f : At(Obj(fields), Single(f)) = Child(x, f)
      /\ At(Obj(old), Root) = Obj(old) /\ At(Obj(fields), Root) = Obj(fields)
      /\ \A f : Child(Obj(old), f) = Child(v, f)
      /\ \A f : Child(Obj(fields), f) = Child(x, f)
  <2>1. /\ \A f : Child(Obj(old), f) = Child(v, f)
        /\ \A f : Child(Obj(fields), f) = Child(x, f)
    BY <1>1, <1>7
  <2> QED
    BY <2>1, AtFacts
<1>10. Holds(Obj(fields))
  BY <1>2, <1>7, <1>8 DEF Holds
<1>11. ASSUME NEW f
       PROVE  Child(new, f) = IF Child(x, f) = Missing THEN Child(v, f)
                              ELSE IF Is(Child(v, f), "obj") /\ Is(Child(x, f), "obj")
                              THEN Obj(w[Single(f)]) ELSE Child(x, f)
  <2>1. new = Obj(MergedAt(w, old, fields, Root))
    BY <1>3, <1>4, <1>5
  <2>2. Child(At(Obj(old), Root), f) = Child(v, f)
    BY <1>9
  <2>3. Holds(At(Obj(fields), Root)) /\ Child(At(Obj(fields), Root), f) = Child(x, f)
    BY <1>9, <1>10
  <2>4. Child(x, f) # Missing => Single(f) \in DocumentPaths
    BY <1>5, <1>8, Held
  <2>5. Deeper(Root, f) = Single(f)
    BY DEF Deeper, Root, Single
  <2>6. Child(Obj(MergedAt(w, old, fields, Root)), f) =
            Both(Child(At(Obj(old), Root), f), Child(At(Obj(fields), Root), f),
                 Deeper(Root, f), Obj(w[Deeper(Root, f)]))
    BY <2>3, MergeLevel
  <2>7. Child(new, f) = Both(Child(v, f), Child(x, f), Single(f), Obj(w[Single(f)]))
    BY <2>1, <2>2, <2>3, <2>5, <2>6
  <2> QED
    BY <2>4, <2>7 DEF Both
<1>12. ASSUME NEW f, NEW g, Is(Child(v, f), "obj"), Is(Child(x, f), "obj")
       PROVE  \E q : Child(Obj(w[Single(f)]), g) =
                        Both(Child(Child(v, f), g), Child(Child(x, f), g), q, Obj(w[q]))
  <2>0. Child(x, f) # Missing
    BY <1>12, ChildFacts
  <2>1. Single(f) \in DocumentPaths
    BY <1>5, <1>8, <2>0, Held
  <2>2. Obj(w[Single(f)]) = Obj(MergedAt(w, old, fields, Single(f)))
    BY <1>3, <2>1
  <2>3. At(Obj(old), Single(f)) = Child(v, f) /\ At(Obj(fields), Single(f)) = Child(x, f)
    BY <1>9
  <2>4. Holds(At(Obj(fields), Single(f)))
    BY <1>8, <2>3
  <2>6. Child(Obj(MergedAt(w, old, fields, Single(f))), g) =
            Both(Child(At(Obj(old), Single(f)), g), Child(At(Obj(fields), Single(f)), g),
                 Deeper(Single(f), g), Obj(w[Deeper(Single(f), g)]))
    BY <2>4, MergeLevel
  <2> QED
    BY <2>2, <2>3, <2>6
<1>13. /\ At(new, Root) = new /\ At(x, Root) = x /\ Is(new, "obj")
       /\ \A f : At(new, Single(f)) = Child(new, f)
       /\ \A f : At(x, Single(f)) = Child(x, f)
       /\ \A f : At(v, Single(f)) = Child(v, f)
       /\ \A f, g : At(new, Double(f, g)) = Child(Child(new, f), g)
       /\ \A f, g : At(x, Double(f, g)) = Child(Child(x, f), g)
       /\ \A f, g : At(v, Double(f, g)) = Child(Child(v, f), g)
  BY <1>4, AtFacts, ChildFacts
<1>14. ASSUME NEW f PROVE ~Blocked(x, Single(f))
  <2>1. Len(<<f>>) - 1 = 0 /\ ~\E i : i \in 1 .. 0
    OBVIOUS
  <2> QED
    BY <2>1 DEF Blocked, Single
<1>15. ASSUME NEW f, NEW g
       PROVE  Blocked(x, Double(f, g)) <=> ~Is(Child(x, f), "obj") /\ Child(x, f) # Missing
  <2>1. Len(<<f, g>>) - 1 = 1 /\ SubSeq(<<f, g>>, 1, 1) = <<f>>
    <3>0. PICK s : s = <<f, g>>
      OBVIOUS
    <3>1. s = <<f, g>> /\ s \in Seq({f, g}) /\ Len(s) = 2 /\ s[1] = f
      BY <3>0
    <3>2. PICK T : s \in Seq(T)
      BY <3>1
    <3>3. Len(s) # 0
      BY <3>1
    <3>4. SubSeq(s, 1, 1) = <<s[1]>>
      BY <3>2, <3>3, StartFacts
    <3> QED
      BY <3>1, <3>4
  <2>2. Blocked(x, Double(f, g)) <=>
            \E i \in 1 .. 1 : LET node == At(x, SubSeq(<<f, g>>, 1, i))
                              IN ~Is(node, "obj") /\ ~Is(node, "missing")
    BY <2>1 DEF Blocked, Double
  <2>3. At(x, SubSeq(<<f, g>>, 1, 1)) = Child(x, f)
    BY <1>13, <2>1 DEF Single
  <2>4. Is(Missing, "missing") /\ (Child(x, f) # Missing => ~Is(Child(x, f), "missing"))
    BY <1>8, Held DEF Is, Missing
  <2>5. Blocked(x, Double(f, g)) <=> ~Is(Child(x, f), "obj") /\ ~Is(Child(x, f), "missing")
    BY <2>2, <2>3
  <2> QED
    BY <2>4, <2>5
<1>16. MergesAt(v, new, x, Root)
  BY <1>13, ChildFacts, MergesChoices
<1>17. ASSUME NEW f PROVE MergesAt(v, new, x, Single(f))
  <2>1. PICK n : n = At(x, Single(f)) /\ n = Child(x, f)
    BY <1>13
  <2>2. Is(n, "obj") => Is(At(new, Single(f)), "obj")
    BY <1>11, <1>13, <2>1, ChildFacts
  <2>3. ~Is(n, "obj") /\ n # Missing => At(new, Single(f)) = n
    BY <1>11, <1>13, <2>1
  <2>4. n = Missing => At(new, Single(f)) = At(v, Single(f))
    BY <1>11, <1>13, <2>1
  <2> QED
    BY <1>14, <2>1, <2>2, <2>3, <2>4, MergesChoices
<1>18. ASSUME NEW f, NEW g PROVE MergesAt(v, new, x, Double(f, g))
  <2>1. PICK n : n = At(x, Double(f, g)) /\ n = Child(Child(x, f), g)
    BY <1>13
  <2>2. PICK y : y = Child(new, f) /\ At(new, Double(f, g)) = Child(y, g)
    BY <1>13
  <2>3. PICK b : b = Child(x, f) /\ n = Child(b, g)
    BY <2>1
  <2>4. PICK a : a = Child(v, f) /\ At(v, Double(f, g)) = Child(a, g)
    BY <1>13
  <2>5. Blocked(x, Double(f, g)) <=> ~Is(b, "obj") /\ b # Missing
    BY <1>15, <2>3
  <2>6. /\ \A h : Child(Missing, h) = Missing
        /\ \A u, h : Child(u, h) # Missing => Is(u, "obj")
        /\ ~Is(Missing, "obj") /\ \A t : Is(Obj(t), "obj")
    BY ChildFacts
  <2>7. CASE b = Missing
    <3>1. y = a
      BY <1>11, <2>2, <2>3, <2>4, <2>7
    <3>2. n = Missing /\ ~Blocked(x, Double(f, g)) /\ At(new, Double(f, g)) = At(v, Double(f, g))
      BY <2>2, <2>3, <2>4, <2>5, <2>6, <2>7, <3>1
    <3> QED
      BY <2>1, <2>6, <3>2, MergesChoices
  <2>8. CASE b # Missing /\ ~Is(b, "obj")
    <3>1. y = b
      BY <1>11, <2>2, <2>3, <2>8
    <3>2. n = Missing /\ Blocked(x, Double(f, g)) /\ At(new, Double(f, g)) = Missing
      BY <2>2, <2>3, <2>5, <2>6, <2>8, <3>1
    <3> QED
      BY <2>1, <2>6, <3>2, MergesChoices
  <2>9. CASE Is(b, "obj") /\ ~Is(a, "obj")
    <3>1. y = b
      BY <1>11, <2>2, <2>3, <2>4, <2>6, <2>9
    <3>2. At(new, Double(f, g)) = n /\ ~Blocked(x, Double(f, g)) /\ At(v, Double(f, g)) = Missing
      BY <2>2, <2>3, <2>4, <2>5, <2>6, <2>9, <3>1
    <3> QED
      BY <2>1, <3>2, MergesChoices
  <2>10. CASE Is(b, "obj") /\ Is(a, "obj")
    <3>1. y = Obj(w[Single(f)])
      BY <1>11, <2>2, <2>3, <2>4, <2>6, <2>10
    <3>2. PICK q : Child(y, g) = Both(Child(a, g), n, q, Obj(w[q]))
      BY <1>12, <2>3, <2>4, <2>10, <3>1
    <3>3. At(new, Double(f, g)) = Both(At(v, Double(f, g)), n, q, Obj(w[q]))
      BY <2>2, <2>4, <3>2
    <3>4. ~Blocked(x, Double(f, g))
      BY <2>5, <2>10
    <3>5. /\ Is(n, "obj") => Is(At(new, Double(f, g)), "obj")
          /\ ~Is(n, "obj") /\ n # Missing => At(new, Double(f, g)) = n
          /\ n = Missing => At(new, Double(f, g)) = At(v, Double(f, g))
      BY <2>6, <3>3 DEF Both
    <3> QED
      BY <2>1, <3>4, <3>5, MergesChoices
  <2> QED
    BY <2>7, <2>8, <2>9, <2>10
<1> QED
  BY <1>4, <1>16, <1>17, <1>18, ShortPaths DEF MergedFrom, MergesAt
-----------------------------------------------------------------------------
(* What the commands on documents make of what they find.                  *)

Was(o) == IF o = NoObj THEN Missing ELSE o.val
Changing == {"set", "delete", "inplace", "regress"}

LEMMA NullFacts == SameChildren(Missing, Null)
<1>1. ~Is(Missing, "obj") /\ ~Is(Null, "obj")
  BY DEF Is, Missing, Null
<1> QED
  BY <1>1 DEF SameChildren, Child

LEMMA AddEffects ==
    ASSUME NEW op \in {"JSON.ADD", "MAP.SET"}, NEW o, NEW a, Args(op, a),
           NEW e, e = Execute(op, o, a), e.do \in Changing
    PROVE  e.do = "set" /\ PutAt(Was(o), e.val, a[1].path, EnsureUnmarshal(a[2]))
<1>1. IsSequence(a[1].path) /\ a[1].path # <<>>
  BY ArgFacts DEF IsPath
<1>2. PICK old : old = IF o = NoObj THEN Null ELSE o.val
  OBVIOUS
<1>3. SameChildren(Was(o), old)
  <2>1. SameChildren(old, old)
    BY DEF SameChildren
  <2> QED
    BY <1>2, <2>1, NullFacts DEF Was
<1>4. e = IF op = "JSON.ADD" THEN JsonAdd(o, a) ELSE MapSet(o, a)
  BY DEF Execute
<1>5. e.do = "set" /\ e.val = AddNestedKey(old, a[1].path, EnsureUnmarshal(a[2]))
  <2>1. CASE op = "JSON.ADD"
    BY <1>2, <1>4, <2>1 DEF JsonAdd, SetDocument, Set, Fail, Answer, Changing
  <2>2. CASE op = "MAP.SET"
    BY <1>2, <1>4, <2>2 DEF MapSet, Set, Fail, Answer, Die, Changing
  <2> QED
    BY <2>1, <2>2
<1> QED
  BY <1>1, <1>3, <1>5, AddPuts

LEMMA RemoveEffects ==
    ASSUME NEW o, NEW a, a # <<>>, Args("JSON.REMOVE", a),
           NEW e, e = Execute("JSON.REMOVE", o, a), e.do \in Changing
    PROVE  e.do = "set" /\ TakenAt(Was(o), e.val, a[1].path)
<1>1. IsSequence(a[1].path) /\ a[1].path # <<>>
  BY ArgFacts DEF IsPath
<1>2. e = JsonRemove(o, a)
  BY DEF Execute
<1>3. e.do = "set" /\ o # NoObj /\ e.val = RemoveNestedKey(o.val, a[1].path)
  BY <1>2 DEF JsonRemove, SetDocument, Set, Fail, Answer, Changing
<1> QED
  BY <1>1, <1>3, RemoveTakes DEF Was

LEMMA MergeEffects ==
    ASSUME NEW o, o # NoObj, NEW a, Args("JSON.MERGE", a),
           NEW e, e = Execute("JSON.MERGE", o, a), e.do \in Changing
    PROVE  e.do = "set" /\ MergedFrom(Was(o), e.val, a[1])
<1>1. IsDocument(a[1]) /\ IsValue(a[1])
  BY ArgFacts DEF IsDocument
<1>2. PICK x : x = a[1]
  OBVIOUS
<1>3. PICK new : new = EnsureUnmarshal(x)
  OBVIOUS
<1>4. e = JsonMerge(o, a)
  BY DEF Execute
<1>5. Is(new, "obj") /\ e.do = "set" /\ e.val = Obj(MergeObjects(Fields(o.val), new.obj))
  BY <1>2, <1>3, <1>4 DEF JsonMerge, SetDocument, Set, Fail, Answer, Changing
<1>6. new = x
  <2>0. \A v : ~Is(Str(v), "obj")
    BY DEF Str, Is
  <2>1. CASE Is(x, "text")
    <3>1. ~Is(x, "inf")
      BY <1>1, <1>2, <2>1, ValueFacts
    <3>2. new = Str(x.text)
      BY <1>3, <2>1, <3>1 DEF EnsureUnmarshal
    <3> QED
      BY <1>5, <2>0, <3>2
  <2>2. CASE ~Is(x, "text") /\ Is(x, "inf")
    <3>1. new = Str(<<"Inf">>)
      BY <1>3, <2>2 DEF EnsureUnmarshal
    <3> QED
      BY <1>5, <2>0, <3>1
  <2>3. CASE ~Is(x, "text") /\ ~Is(x, "inf")
    BY <1>3, <2>3 DEF EnsureUnmarshal
  <2> QED
    BY <2>1, <2>2, <2>3
<1>7. MergedFrom(o.val, Obj(MergeObjects(Fields(o.val), x.obj)), x)
  BY <1>1, <1>2, <1>5, <1>6, MergesInto
<1> QED
  BY <1>2, <1>5, <1>6, <1>7 DEF Was

(* The three at once.                                                      *)
ChangedAtPath(c) ==
    LET a == cl[c].args IN
    /\ Finishes(c, {"JSON.ADD", "MAP.SET"}) =>
          PutAt(Before(c), After(c), a[1].path, EnsureUnmarshal(a[2]))
    /\ Finishes(c, {"JSON.REMOVE"}) /\ a # <<>> =>
          TakenAt(Before(c), After(c), a[1].path)
    /\ Finishes(c, {"JSON.MERGE"}) /\ ~Is(Before(c), "missing") =>
          MergedFrom(Before(c), After(c), a[1])

LEMMA DocumentStep ==
    ASSUME LogInv, BaseInv', Next, NEW c \in Clients
    PROVE  ChangedAtPath(c)
<1>1. PICK a : a = cl[c].args
  OBVIOUS
<1>2. ASSUME NEW ops, ops \subseteq Finders, Finishes(c, ops)
      PROVE  cl[c].op \in ops /\ \E o, e : Decided(c, o, e)
  BY <1>2, Finishing, DecidedFacts
<1>3. Is(Missing, "missing")
  BY DEF Is, Missing
<1>4. ASSUME Finishes(c, {"JSON.ADD", "MAP.SET"})
      PROVE  PutAt(Before(c), After(c), a[1].path, EnsureUnmarshal(a[2]))
  <2>1. PICK ops : ops = {"JSON.ADD", "MAP.SET"} /\ ops \subseteq Finders
    BY DEF Finders, OneLook, Writers, Blind
  <2>2. PICK o, e : Decided(c, o, e)
    BY <1>2, <1>4, <2>1
  <2>3. PICK op \in {"JSON.ADD", "MAP.SET"} : op = cl[c].op
    BY <1>2, <1>4, <2>1
  <2>4. e.do = "set" /\ PutAt(Was(o), e.val, a[1].path, EnsureUnmarshal(a[2]))
    BY <1>1, <2>2, <2>3, AddEffects DEF Decided, Changing
  <2>5. Before(c) = Was(o) /\ After(c) = e.val
    BY <2>2, <2>4 DEF Decided, Was
  <2> QED
    BY <2>4, <2>5
<1>5. ASSUME Finishes(c, {"JSON.REMOVE"}), a # <<>>
      PROVE  TakenAt(Before(c), After(c), a[1].path)
  <2>1. PICK ops : ops = {"JSON.REMOVE"} /\ ops \subseteq Finders
    BY DEF Finders, OneLook, Writers, Blind
  <2>2. PICK o, e : cl[c].op = "JSON.REMOVE" /\ Decided(c, o, e)
    BY <1>2, <1>5, <2>1
  <2>3. e.do = "set" /\ TakenAt(Was(o), e.val, a[1].path)
    BY <1>1, <1>5, <2>2, RemoveEffects DEF Decided, Changing
  <2>4. Before(c) = Was(o) /\ After(c) = e.val
    BY <2>2, <2>3 DEF Decided, Was
  <2> QED
    BY <2>3, <2>4
<1>6. ASSUME Finishes(c, {"JSON.MERGE"}), ~Is(Before(c), "missing")
      PROVE  MergedFrom(Before(c), After(c), a[1])
  <2>1. PICK ops : ops = {"JSON.MERGE"} /\ ops \subseteq Finders
    BY DEF Finders, OneLook, Writers, Blind
  <2>2. PICK o, e : cl[c].op = "JSON.MERGE" /\ Decided(c, o, e)
    BY <1>2, <1>6, <2>1
  <2>3. o # NoObj /\ Before(c) = Was(o)
    BY <1>3, <1>6, <2>2 DEF Decided, Was
  <2>4. e.do = "set" /\ MergedFrom(Was(o), e.val, a[1])
    BY <1>1, <2>2, <2>3, MergeEffects DEF Decided, Changing
  <2>5. After(c) = e.val
    BY <2>2, <2>4 DEF Decided
  <2> QED
    BY <2>3, <2>4, <2>5
<1> QED
  BY <1>1, <1>4, <1>5, <1>6, Zenon DEF ChangedAtPath

(* With one writer per key, JSON.ADD, MAP.SET, JSON.REMOVE and JSON.MERGE  *)
(* change what is at their path in the document that is in the memory at   *)
(* that moment, and nothing else, at any path of up to two fields.  One    *)
(* writer: what they write they have looked up, and with two writers it is *)
(* not what the memory has by then.                                        *)
THEOREM DocumentsChange == OneWriter => (Spec => DocumentsChangeAtPath)
<1> SUFFICES ASSUME OneWriter PROVE Spec => DocumentsChangeAtPath
  OBVIOUS
<1>1. Init => LogInv
  BY InitLog
<1>2. LogInv /\ [Next]_vars => LogInv'
  BY NextLog
<1>3. LogInv /\ [Next]_vars =>
        [\A c \in Clients :
            LET a == cl[c].args IN
            /\ Finishes(c, {"JSON.ADD", "MAP.SET"}) =>
                  PutAt(Before(c), After(c), a[1].path, EnsureUnmarshal(a[2]))
            /\ Finishes(c, {"JSON.REMOVE"}) /\ a # <<>> =>
                  TakenAt(Before(c), After(c), a[1].path)
            /\ Finishes(c, {"JSON.MERGE"}) /\ ~Is(Before(c), "missing") =>
                  MergedFrom(Before(c), After(c), a[1])]_vars
  <2> SUFFICES ASSUME LogInv, Next, NEW c \in Clients PROVE ChangedAtPath(c)
    BY DEF ChangedAtPath
  <2>1. BaseInv'
    BY NextBase DEF LogInv
  <2> QED
    BY <2>1, DocumentStep
<1> QED
  BY <1>1, <1>2, <1>3, PTL DEF Spec, DocumentsChangeAtPath
===============================================================================
