----------------------------- MODULE WalShardProofs -----------------------------
(***************************************************************************)
(* Proofs about WalShard, for any producers, sizes, sync policies and      *)
(* faults.                                                                 *)
(***************************************************************************)
EXTENDS WalShard, SequenceTheorems, WellFoundedInduction, TLAPS

Cells == Producers \cup TornShapes

-----------------------------------------------------------------------------
(* Induction without a predicate: a set of numbers has a least element.    *)
LEMMA LeastNumber ==
    ASSUME NEW S \in SUBSET Nat, S # {}
    PROVE  \E n \in S : \A m \in S : n <= m
<1>1. IsWellFoundedOn(OpToRel(<, Nat), Nat)
  BY NatLessThanWellFounded
<1>2. PICK n \in S : \A m \in S : ~(<<m, n>> \in OpToRel(<, Nat))
  BY <1>1, WFMin
<1>3. \A m \in S : <<m, n>> \in Nat \X Nat
  OBVIOUS
<1>4. \A m \in S : ~(m < n)
  BY <1>2, <1>3 DEF OpToRel
<1> QED
  BY <1>4

-----------------------------------------------------------------------------
(* Records.  u lists what is left of the cells of f: u[n] of the first n.  *)
Keeps(f, u) ==
    u = [n \in 0 .. Len(f) |->
            IF n = 0 THEN <<>>
            ELSE IF IsTorn(f[n]) THEN u[n - 1] ELSE Append(u[n - 1], f[n])]

LEMMA KeepsAgree ==
    ASSUME NEW f \in Seq(Cells), NEW g \in Seq(Cells), NEW u, NEW v, Keeps(f, u), Keeps(g, v),
           NEW n \in Nat, n <= Len(f), n <= Len(g), \A i \in 1 .. n : f[i] = g[i]
    PROVE  u[n] = v[n]
<1> DEFINE Bad == {i \in 0 .. n : u[i] # v[i]}
<1> SUFFICES ASSUME Bad # {} PROVE FALSE
  OBVIOUS
<1>1. PICK i \in Bad : \A j \in Bad : i <= j
  <2>1. Bad \in SUBSET Nat
    OBVIOUS
  <2> HIDE DEF Bad
  <2> QED
    BY <2>1, LeastNumber
<1>2. u[0] = <<>> /\ v[0] = <<>>
  BY DEF Keeps
<1>3. i # 0 /\ i - 1 \in 0 .. n /\ i - 1 \notin Bad
  BY <1>1, <1>2
<1>4. u[i - 1] = v[i - 1] /\ f[i] = g[i]
  BY <1>3
<1>5. i \in 0 .. Len(f) /\ i \in 0 .. Len(g)
  OBVIOUS
<1> HIDE DEF Bad
<1>6. u[i] = IF IsTorn(f[i]) THEN u[i - 1] ELSE Append(u[i - 1], f[i])
  BY <1>3, <1>5 DEF Keeps
<1>7. v[i] = IF IsTorn(g[i]) THEN v[i - 1] ELSE Append(v[i - 1], g[i])
  BY <1>3, <1>5 DEF Keeps
<1> QED
  BY <1>1, <1>4, <1>6, <1>7 DEF Bad

LEMMA KeepsExists ==
    ASSUME NEW f \in Seq(Cells)
    PROVE  \E u \in [0 .. Len(f) -> Seq(Producers)] : Keeps(f, u)
<1> DEFINE Upto(n, u) ==
              /\ u[0] = <<>>
              /\ \A i \in 1 .. n : u[i] = IF IsTorn(f[i]) THEN u[i - 1] ELSE Append(u[i - 1], f[i])
           Reach(n) == \E u \in [0 .. n -> Seq(Producers)] : Upto(n, u)
           Bad == {n \in 0 .. Len(f) : ~Reach(n)}
<1>1. Reach(0)
  <2> DEFINE u == [i \in 0 .. 0 |-> <<>>]
  <2>1. u \in [0 .. 0 -> Seq(Producers)] /\ u[0] = <<>>
    OBVIOUS
  <2>2. \A i \in 1 .. 0 : FALSE
    OBVIOUS
  <2> HIDE DEF u
  <2> QED
    BY <2>1, <2>2
<1>2. ASSUME NEW n \in 0 .. Len(f) - 1, Reach(n) PROVE Reach(n + 1)
  <2>1. PICK u \in [0 .. n -> Seq(Producers)] : Upto(n, u)
    BY <1>2
  <2> DEFINE next == IF IsTorn(f[n + 1]) THEN u[n] ELSE Append(u[n], f[n + 1])
             v == [i \in 0 .. n + 1 |-> IF i = n + 1 THEN next ELSE u[i]]
  <2>2. next \in Seq(Producers)
    BY DEF IsTorn, Cells
  <2> HIDE DEF next
  <2>3. v \in [0 .. n + 1 -> Seq(Producers)] /\ v[0] = <<>>
    BY <2>1, <2>2
  <2>4. ASSUME NEW i \in 1 .. n + 1
        PROVE  v[i] = IF IsTorn(f[i]) THEN v[i - 1] ELSE Append(v[i - 1], f[i])
    <3>1. CASE i = n + 1
      <4>1. v[i] = next /\ v[i - 1] = u[n]
        BY <3>1
      <4> QED
        BY <3>1, <4>1 DEF next
    <3>2. CASE i \in 1 .. n
      <4>1. v[i] = u[i] /\ v[i - 1] = u[i - 1]
        BY <3>2
      <4> HIDE DEF v
      <4> QED
        BY <2>1, <3>2, <4>1
    <3> QED
      BY <3>1, <3>2
  <2> QED
    BY <2>3, <2>4
<1>3. Bad = {}
  <2> SUFFICES ASSUME Bad # {} PROVE FALSE
    OBVIOUS
  <2> HIDE DEF Reach
  <2>1. PICK n \in Bad : \A m \in Bad : n <= m
    <3>1. Bad \in SUBSET Nat
      OBVIOUS
    <3> HIDE DEF Bad
    <3> QED
      BY <3>1, LeastNumber
  <2>2. n # 0 /\ n - 1 \in 0 .. Len(f) - 1 /\ n - 1 \notin Bad
    BY <1>1, <2>1
  <2> QED
    BY <1>2, <2>2
<1>4. PICK u \in [0 .. Len(f) -> Seq(Producers)] : Upto(Len(f), u)
  BY <1>3
<1> DEFINE w == [n \in 0 .. Len(f) |->
                    IF n = 0 THEN <<>>
                    ELSE IF IsTorn(f[n]) THEN u[n - 1] ELSE Append(u[n - 1], f[n])]
<1>5. u = w
  <2>1. ASSUME NEW n \in 0 .. Len(f) PROVE u[n] = w[n]
    <3>1. CASE n = 0
      BY <1>4, <3>1
    <3>2. CASE n # 0
      <4>1. n \in 1 .. Len(f)
        BY <3>2
      <4>2. u[n] = IF IsTorn(f[n]) THEN u[n - 1] ELSE Append(u[n - 1], f[n])
        BY <1>4, <4>1
      <4> QED
        BY <3>2, <4>2
    <3> QED
      BY <3>1, <3>2
  <2>2. u = [n \in 0 .. Len(f) |-> u[n]] /\ w = [n \in 0 .. Len(f) |-> w[n]]
    OBVIOUS
  <2> HIDE DEF w
  <2> QED
    BY <2>1, <2>2
<1> QED
  BY <1>5 DEF Keeps

(* Whatever lists what is left, its last element is Records.               *)
LEMMA RecordsFacts ==
    ASSUME NEW f \in Seq(Cells)
    PROVE  /\ Records(f) \in Seq(Producers)
           /\ \A u : Keeps(f, u) => Records(f) = u[Len(f)]
<1>1. PICK u \in [0 .. Len(f) -> Seq(Producers)] : Keeps(f, u)
  BY KeepsExists
<1>2. PICK w : Keeps(f, w) /\ Records(f) = w[Len(f)]
  BY <1>1 DEF Keeps, Records
<1>3. ASSUME NEW v, Keeps(f, v) PROVE w[Len(f)] = v[Len(f)]
  BY <1>2, <1>3, KeepsAgree
<1> QED
  BY <1>1, <1>2, <1>3

LEMMA RecordsEmpty == Records(<<>>) = <<>>
<1>0. <<>> \in Seq(Cells) /\ Len(<<>>) = 0
  OBVIOUS
<1>1. PICK u : Keeps(<<>>, u)
  BY <1>0, KeepsExists
<1>2. u[0] = <<>>
  BY <1>1 DEF Keeps
<1> QED
  BY <1>0, <1>1, <1>2, RecordsFacts

LEMMA RecordsAppend ==
    ASSUME NEW f \in Seq(Cells), NEW c \in Cells
    PROVE  Records(Append(f, c)) = IF IsTorn(c) THEN Records(f) ELSE Append(Records(f), c)
<1> DEFINE g == Append(f, c)
<1>1. /\ g \in Seq(Cells) /\ Len(g) = Len(f) + 1 /\ g[Len(g)] = c
      /\ \A i \in 1 .. Len(f) : f[i] = g[i]
  OBVIOUS
<1> HIDE DEF g
<1>2. PICK u : Keeps(f, u)
  BY KeepsExists
<1>3. PICK v : Keeps(g, v)
  BY <1>1, KeepsExists
<1>4. u[Len(f)] = v[Len(f)]
  BY <1>1, <1>2, <1>3, KeepsAgree
<1>5. Len(g) \in 0 .. Len(g) /\ Len(g) # 0 /\ Len(g) - 1 = Len(f)
  BY <1>1
<1>6. v[Len(g)] = IF IsTorn(c) THEN v[Len(f)] ELSE Append(v[Len(f)], c)
  BY <1>1, <1>3, <1>5 DEF Keeps
<1>7. Records(g) = v[Len(g)] /\ Records(f) = u[Len(f)]
  BY <1>1, <1>2, <1>3, RecordsFacts
<1> QED
  BY <1>4, <1>6, <1>7 DEF g

(* Entries put behind the cells come behind the records.                   *)
LEMMA RecordsConcat ==
    ASSUME NEW f \in Seq(Cells), NEW b \in Seq(Producers)
    PROVE  Records(f \o b) = Records(f) \o b
<1> DEFINE part(n) == SubSeq(b, 1, n)
           Bad == {n \in 0 .. Len(b) : Records(f \o part(n)) # Records(f) \o part(n)}
<1>0. Records(f) \in Seq(Producers)
  BY RecordsFacts
<1>1. 0 \notin Bad
  <2>1. part(0) = <<>>
    OBVIOUS
  <2>2. f \o <<>> = f /\ Records(f) \o <<>> = Records(f)
    BY <1>0, ConcatEmptySeq
  <2> QED
    BY <2>1, <2>2
<1>2. ASSUME NEW n \in Bad, n - 1 \in 0 .. Len(b) PROVE n - 1 \in Bad
  <2>1. n \in 1 .. Len(b) /\ b[n] \in Producers /\ b[n] \in Cells /\ ~IsTorn(b[n])
    BY <1>2, WalAssumption DEF Cells, IsTorn
  <2>2. part(n) = Append(part(n - 1), b[n])
    BY <2>1
  <2>3. part(n - 1) \in Seq(Producers) /\ part(n - 1) \in Seq(Cells)
    BY DEF Cells
  <2> HIDE DEF part
  <2>4. f \o Append(part(n - 1), b[n]) = Append(f \o part(n - 1), b[n])
    BY <2>1, <2>3
  <2>5. Records(f) \o Append(part(n - 1), b[n]) = Append(Records(f) \o part(n - 1), b[n])
    BY <1>0, <2>1, <2>3
  <2>6. f \o part(n - 1) \in Seq(Cells)
    BY <2>3
  <2>7. Records(Append(f \o part(n - 1), b[n])) = Append(Records(f \o part(n - 1)), b[n])
    BY <2>1, <2>6, RecordsAppend
  <2> QED
    BY <1>2, <2>2, <2>4, <2>5, <2>7
<1>3. Bad = {}
  <2> SUFFICES ASSUME Bad # {} PROVE FALSE
    OBVIOUS
  <2>1. Bad \in SUBSET Nat /\ \A n \in Bad : n \in 0 .. Len(b)
    OBVIOUS
  <2> HIDE DEF Bad
  <2>2. PICK n \in Bad : \A m \in Bad : n <= m
    BY <2>1, LeastNumber
  <2>3. n # 0 /\ n - 1 \in 0 .. Len(b)
    BY <1>1, <2>1
  <2> QED
    BY <1>2, <2>1, <2>2, <2>3
<1>4. Records(f \o part(Len(b))) = Records(f) \o part(Len(b))
  <2>1. Len(b) \in 0 .. Len(b)
    OBVIOUS
  <2> HIDE DEF part
  <2> QED
    BY <1>3, <2>1
<1> QED
  BY <1>4, SubSeqFull

(* A sequence of entries has no other records.                             *)
LEMMA RecordsOfEntries ==
    ASSUME NEW b \in Seq(Producers)
    PROVE  Records(b) = b
<1>1. <<>> \in Seq(Cells) /\ <<>> \o b = b
  OBVIOUS
<1>2. Records(<<>> \o b) = Records(<<>>) \o b
  BY <1>1, RecordsConcat
<1> QED
  BY <1>1, <1>2, RecordsEmpty

(* A torn record behind the cells adds nothing.                            *)
LEMMA RecordsTear ==
    ASSUME NEW f \in Seq(Cells), NEW torn \in MaybeTorn
    PROVE  /\ f \o torn \in Seq(Cells)
           /\ Records(f \o torn) = Records(f)
<1>1. CASE torn = <<>>
  BY <1>1
<1>2. CASE \E s \in Tears : torn = <<s>>
  <2>1. PICK s \in Tears : torn = <<s>>
    BY <1>2
  <2>2. s \in Cells /\ IsTorn(s)
    BY WalAssumption DEF Cells, IsTorn
  <2>3. f \o torn = Append(f, s) /\ Append(f, s) \in Seq(Cells)
    BY <2>1, <2>2
  <2> QED
    BY <2>2, <2>3, RecordsAppend
<1> QED
  BY <1>1, <1>2 DEF MaybeTorn

-----------------------------------------------------------------------------
(* Prefixes.                                                               *)
LEMMA PrefixFacts ==
    ASSUME NEW S, NEW s \in Seq(S)
    PROVE  /\ IsPrefixOf(<<>>, s)
           /\ IsPrefixOf(s, s)
           /\ \A t \in Seq(S) : IsPrefixOf(s, s \o t)
           /\ \A e \in S : IsPrefixOf(s, Append(s, e))
           /\ \A t \in Seq(S), u \in Seq(S) :
                 IsPrefixOf(s, t) /\ IsPrefixOf(t, u) => IsPrefixOf(s, u)
           /\ \A t \in Seq(S) : IsPrefixOf(s, t) => s = SubSeq(t, 1, Len(s))
  BY DEF IsPrefixOf

(* What is left of the first n cells is a prefix of what is left of m.     *)
LEMMA RecordsPrefix ==
    ASSUME NEW f \in Seq(Cells), NEW m \in 0 .. Len(f), NEW n \in 0 .. m
    PROVE  /\ SubSeq(f, 1, n) \in Seq(Cells)
           /\ IsPrefixOf(Records(SubSeq(f, 1, n)), Records(SubSeq(f, 1, m)))
<1> DEFINE left(i) == Records(SubSeq(f, 1, i))
           Bad == {i \in n .. Len(f) : ~IsPrefixOf(left(n), left(i))}
<1>0. \A i \in 0 .. Len(f) : SubSeq(f, 1, i) \in Seq(Cells)
  OBVIOUS
<1>1. \A i \in 0 .. Len(f) : left(i) \in Seq(Producers)
  BY <1>0, RecordsFacts
<1>2. n \notin Bad
  <2> HIDE DEF left
  <2> QED
    BY <1>1, PrefixFacts
<1>3. ASSUME NEW i \in Bad, i - 1 \in n .. Len(f) PROVE i - 1 \in Bad
  <2>1. i \in 1 .. Len(f) /\ f[i] \in Cells
    BY <1>3
  <2>2. SubSeq(f, 1, i) = Append(SubSeq(f, 1, i - 1), f[i])
    BY <2>1
  <2>3. left(i) = IF IsTorn(f[i]) THEN left(i - 1) ELSE Append(left(i - 1), f[i])
    <3>1. SubSeq(f, 1, i - 1) \in Seq(Cells)
      BY <1>0, <2>1
    <3> QED
      BY <2>1, <2>2, <3>1, RecordsAppend
  <2>4. ~IsTorn(f[i]) => f[i] \in Producers
    BY <2>1 DEF Cells, IsTorn
  <2>5. left(n) \in Seq(Producers) /\ left(i) \in Seq(Producers) /\ left(i - 1) \in Seq(Producers)
    BY <1>1, <2>1
  <2> HIDE DEF left
  <2>6. IsPrefixOf(left(i - 1), left(i))
    BY <2>3, <2>4, <2>5, PrefixFacts
  <2> QED
    BY <1>3, <2>5, <2>6, PrefixFacts
<1>4. Bad = {}
  <2> SUFFICES ASSUME Bad # {} PROVE FALSE
    OBVIOUS
  <2>1. Bad \in SUBSET Nat /\ \A i \in Bad : i \in n .. Len(f)
    OBVIOUS
  <2> HIDE DEF Bad
  <2>2. PICK i \in Bad : \A j \in Bad : i <= j
    BY <2>1, LeastNumber
  <2>3. i # n /\ i - 1 \in n .. Len(f)
    BY <1>2, <2>1
  <2> QED
    BY <1>3, <2>1, <2>2, <2>3
<1> QED
  BY <1>0, <1>4

-----------------------------------------------------------------------------
(* The inductive invariant.                                                *)

(* The batch, until it is in the file.                                     *)
Unwritten == IF pc \in {"sync", "lastSync"} THEN <<>> ELSE batch

(* Where an accepted entry is: in the file, in the batch or in the         *)
(* channel, in this order.  After a write error what is not in the file    *)
(* may be lost, but what is in the channel is not in the file.             *)
NothingMissing ==
    /\ IsPrefixOf(Records(file), accepted)
    /\ Len(Records(file)) + Len(ch) <= Len(accepted)
    /\ ~broken => accepted = (Records(file) \o Unwritten) \o ch

(* run() leaves its loop with nothing in its hands, the channel closed and *)
(* empty; while it waits for an entry its batch has room for one; senders  *)
(* are blocked only while the channel is full.                             *)
LoopInv ==
    /\ pc = "select" => Len(batch) < BatchMax
    /\ pc \in {"lastSync", "stopped", "done"} => ch = <<>> /\ closed
    /\ pc \in {"stopped", "done"} => batch = <<>>
    /\ pc = "down" => ch = <<>> /\ batch = <<>> /\ ~broken
    /\ waiters # <<>> => Len(ch) = ChanSize
    /\ closed => crashes < MaxCrashes

WalInv == TypeOK /\ NothingMissing /\ LoopInv

LEMMA CellFacts ==
    /\ \A s \in Seq(Producers) : s \in Seq(Cells)
    /\ TypeOK => file \in Seq(Cells) /\ Records(file) \in Seq(Producers) /\ Unwritten \in Seq(Producers)
<1>1. ASSUME NEW s \in Seq(Producers) PROVE s \in Seq(Cells)
  BY SeqMonotonic DEF Cells
<1> QED
  BY <1>1, RecordsFacts DEF TypeOK, Cells, Unwritten

(* What a kill may leave after the batch is nothing or one cell.           *)
LEMMA TearsAreCells == \A torn \in MaybeTorn : torn \in Seq(Cells)
<1>1. \A s \in Tears : s \in Cells
  BY WalAssumption DEF Cells
<1>2. <<>> \in Seq(Cells) /\ \A s \in Cells : <<s>> \in Seq(Cells)
  OBVIOUS
<1> QED
  BY <1>1, <1>2 DEF MaybeTorn

(* Cells may be appended piece by piece.                                   *)
LEMMA ConcatOfThree ==
    ASSUME NEW f \in Seq(Cells), NEW s \in Seq(Cells), NEW t \in Seq(Cells)
    PROVE  (f \o s) \o t = f \o (s \o t) /\ s \o t \in Seq(Cells)
<1>1. s \o t \in Seq(Cells)
  OBVIOUS
<1>2. (f \o s) \o t = f \o (s \o t)
  OBVIOUS
<1> QED
  BY <1>1, <1>2

LEMMA ConcatAssoc ==
    ASSUME NEW s \in Seq(Producers), NEW t \in Seq(Producers), NEW u \in Seq(Producers)
    PROVE  (s \o t) \o u = s \o (t \o u)
  OBVIOUS

(* The first entry of the channel moves to the end of the batch.           *)
LEMMA MoveHead ==
    ASSUME NEW r \in Seq(Producers), NEW b \in Seq(Producers), NEW c \in Seq(Producers), c # <<>>
    PROVE  (r \o Append(b, Head(c))) \o Tail(c) = (r \o b) \o c
  OBVIOUS

LEMMA ConcatAppend ==
    ASSUME NEW s \in Seq(Producers), NEW t \in Seq(Producers), NEW e \in Producers
    PROVE  s \o Append(t, e) = Append(s \o t, e)
  OBVIOUS

(* Steps that move no entry keep the entries where they are.               *)
LEMMA NothingMoves ==
    ASSUME TypeOK, NothingMissing, UNCHANGED <<file, accepted, ch>>, Unwritten' = Unwritten,
           broken' = broken
    PROVE  NothingMissing'
  BY DEF NothingMissing

LEMMA PutStep ==
    ASSUME WalInv, NEW p \in Producers, PutCheck(p) \/ Enqueue(p) \/ GiveUp(p)
    PROVE  WalInv'
<1> USE DEF WalInv
<1>1. CASE PutCheck(p)
  <2>1. TypeOK'
    BY <1>1 DEF PutCheck, TypeOK, disk
  <2>2. NothingMissing'
    BY <1>1, NothingMoves DEF PutCheck, Unwritten, disk
  <2> QED
    BY <1>1, <2>1, <2>2 DEF PutCheck, LoopInv
<1>2. CASE GiveUp(p)
  <2>1. PICK i \in 1 .. Len(waiters) :
            waiters' = SubSeq(waiters, 1, i - 1) \o SubSeq(waiters, i + 1, Len(waiters))
    BY <1>2 DEF GiveUp, RemoveAt
  <2>2. waiters \in Seq(Producers) /\ waiters # <<>>
    BY <2>1 DEF TypeOK
  <2>3. /\ SubSeq(waiters, 1, i - 1) \in Seq(Producers)
        /\ SubSeq(waiters, i + 1, Len(waiters)) \in Seq(Producers)
    BY <2>2
  <2>4. waiters' \in Seq(Producers)
    BY <2>1, <2>3
  <2>5. TypeOK'
    BY <1>2, <2>4 DEF GiveUp, TypeOK, disk
  <2>6. NothingMissing'
    BY <1>2, NothingMoves DEF GiveUp, Unwritten, disk
  <2> QED
    BY <1>2, <2>2, <2>5, <2>6 DEF GiveUp, LoopInv
<1>3. CASE Enqueue(p)
  <2>1. /\ UNCHANGED <<pc, batch, count, due, broken, closed, file, synced, unsure, dropped, recovery, crashes>>
        /\ ~closed /\ pc # "down"
    BY <1>3 DEF Enqueue, disk
  <2>2. CASE Len(ch) < ChanSize
    <3>1. /\ ch' = Append(ch, p) /\ accepted' = Append(accepted, p)
          /\ ppc' = [ppc EXCEPT ![p] = "idle"] /\ waiters' = waiters
      BY <1>3, <2>2 DEF Enqueue
    <3>2. TypeOK'
      BY <2>1, <2>2, <3>1, WalAssumption DEF TypeOK
    <3>3. waiters = <<>>
      BY <2>2 DEF LoopInv, TypeOK
    <3>4. LoopInv'
      BY <2>1, <3>1, <3>3 DEF LoopInv
    <3>5. IsPrefixOf(Records(file), accepted')
      <4>1. IsPrefixOf(accepted, accepted')
        BY <3>1, PrefixFacts DEF TypeOK
      <4>2. IsPrefixOf(Records(file), accepted) /\ accepted' \in Seq(Producers)
        BY <3>2 DEF TypeOK, NothingMissing
      <4>3. Records(file) \in Seq(Producers) /\ accepted \in Seq(Producers)
        BY CellFacts DEF TypeOK
      <4> QED
        BY <4>1, <4>2, <4>3, PrefixFacts
    <3>6. ASSUME ~broken PROVE accepted' = (Records(file) \o Unwritten) \o ch'
      <4> DEFINE held == Records(file) \o Unwritten
      <4>1. held \in Seq(Producers) /\ ch \in Seq(Producers)
        BY CellFacts DEF TypeOK
      <4>2. accepted = held \o ch
        BY <3>6 DEF NothingMissing
      <4> HIDE DEF held
      <4>3. held \o Append(ch, p) = Append(held \o ch, p)
        BY <4>1, ConcatAppend
      <4>4. accepted' = held \o ch'
        BY <3>1, <4>2, <4>3
      <4> QED
        BY <4>4 DEF held
    <3>7. Len(Records(file)) + Len(ch') <= Len(accepted')
      <4>1. Len(ch') = Len(ch) + 1 /\ Len(accepted') = Len(accepted) + 1
        BY <3>1 DEF TypeOK
      <4>2. Len(Records(file)) \in Nat /\ Len(ch) \in Nat /\ Len(accepted) \in Nat
        BY CellFacts DEF TypeOK
      <4> QED
        BY <4>1, <4>2 DEF NothingMissing
    <3>8. NothingMissing'
      BY <2>1, <3>5, <3>6, <3>7 DEF NothingMissing, Unwritten
    <3> QED
      BY <3>2, <3>4, <3>8
  <2>3. CASE Len(ch) >= ChanSize
    <3>1. /\ UNCHANGED <<ch, accepted>> /\ ppc' = [ppc EXCEPT ![p] = "waiting"]
          /\ waiters' = Append(waiters, p)
      BY <1>3, <2>3, WalAssumption DEF Enqueue, TypeOK
    <3>2. TypeOK'
      BY <2>1, <3>1 DEF TypeOK
    <3>3. Len(ch) = ChanSize
      BY <2>3, WalAssumption DEF TypeOK
    <3>4. NothingMissing'
      BY <2>1, <3>1, NothingMoves DEF Unwritten
    <3> QED
      BY <2>1, <3>1, <3>2, <3>3, <3>4 DEF LoopInv
  <2> QED
    BY <2>2, <2>3, WalAssumption DEF TypeOK
<1> QED
  BY <1>1, <1>2, <1>3

(* What goes out of a list leaves the entries before it where they are.    *)
LEMMA RemoveFacts ==
    ASSUME NEW S, NEW l \in Seq(S), NEW i \in 1 .. Len(l)
    PROVE  /\ RemoveAt(l, i) \in Seq(S)
           /\ Len(RemoveAt(l, i)) = Len(l) - 1
           /\ \A j \in 1 .. i - 1 : RemoveAt(l, i)[j] = l[j]
<1> DEFINE s == SubSeq(l, 1, i - 1)
           t == SubSeq(l, i + 1, Len(l))
<1>1. /\ s \in Seq(S) /\ Len(s) = i - 1
      /\ \A j \in 1 .. i - 1 : s[j] = l[j]
  OBVIOUS
<1>2. t \in Seq(S) /\ Len(t) = Len(l) - i
  OBVIOUS
<1>3. RemoveAt(l, i) = s \o t
  BY DEF RemoveAt
<1> HIDE DEF s, t
<1>4. s \o t \in Seq(S) /\ Len(s \o t) = Len(s) + Len(t) /\ \A j \in 1 .. Len(s) : (s \o t)[j] = s[j]
  BY <1>1, <1>2
<1> QED
  BY <1>1, <1>2, <1>3, <1>4

LEMMA RemovePrefix ==
    ASSUME NEW r \in Seq(Producers), NEW l \in Seq(Producers), NEW i \in 1 .. Len(l),
           IsPrefixOf(r, l), Len(r) < i
    PROVE  IsPrefixOf(r, RemoveAt(l, i))
  BY RemoveFacts DEF IsPrefixOf

LEMMA RemoveHead ==
    ASSUME NEW s \in Seq(Producers), NEW c \in Seq(Producers), c # <<>>
    PROVE  RemoveAt(s \o c, Len(s \o c) - Len(c) + 1) = s \o Tail(c)
<1> DEFINE l == s \o c
           k == Len(s)
<1>1. l \in Seq(Producers) /\ Len(l) = k + Len(c) /\ Len(c) \in Nat /\ Len(c) >= 1 /\ k \in Nat
  OBVIOUS
<1>2. Len(l) - Len(c) + 1 = k + 1
  BY <1>1
<1>3. SubSeq(l, 1, k) = s
  OBVIOUS
<1>4. SubSeq(l, k + 2, Len(l)) = Tail(c)
  OBVIOUS
<1> HIDE DEF l, k
<1>5. RemoveAt(l, k + 1) = SubSeq(l, 1, k) \o SubSeq(l, k + 2, Len(l))
  <2>1. RemoveAt(l, k + 1) = SubSeq(l, 1, (k + 1) - 1) \o SubSeq(l, (k + 1) + 1, Len(l))
    BY DEF RemoveAt
  <2>2. (k + 1) - 1 = k /\ (k + 1) + 1 = k + 2
    BY <1>1
  <2> QED
    BY <2>1, <2>2
<1>6. RemoveAt(l, Len(l) - Len(c) + 1) = s \o Tail(c)
  BY <1>2, <1>3, <1>4, <1>5
<1> QED
  BY <1>6 DEF l

LEMMA NoneOrOne ==
    ASSUME NEW s \in Seq(Producers), NEW e \in Producers
    PROVE  /\ s \o <<>> = s /\ <<>> \in Seq(Producers)
           /\ Append(s, e) = s \o <<e>> /\ <<e>> \in Seq(Producers)
           /\ Append(s, e) \in Seq(Producers) /\ Len(Append(s, e)) = Len(s) + 1
<1>1. s \o <<>> = s /\ <<>> \in Seq(Producers)
  OBVIOUS
<1>2. Append(s, e) = s \o <<e>> /\ <<e>> \in Seq(Producers)
  OBVIOUS
<1>3. Append(s, e) \in Seq(Producers) /\ Len(Append(s, e)) = Len(s) + 1
  OBVIOUS
<1> QED
  BY <1>1, <1>2, <1>3

(* Receiving takes the head of the channel; what a blocked sender puts in  *)
(* its stead, if there is one, comes at the end of channel and log.        *)
LEMMA ReceiveStep ==
    ASSUME TypeOK, ch # <<>>, waiters # <<>> => Len(ch) = ChanSize,
           NEW log \in Seq(Producers), Receive(log)
    PROVE  /\ ppc' \in [Producers -> {"idle", "putting", "waiting"}]
           /\ waiters' \in Seq(Producers)
           /\ ch' \in Seq(Producers) /\ Len(ch') <= ChanSize
           /\ waiters' # <<>> => Len(ch') = ChanSize
           /\ \E more \in Seq(Producers) : ch' = Tail(ch) \o more /\ accepted' = log \o more
<1>1. /\ ch \in Seq(Producers) /\ Tail(ch) \in Seq(Producers)
      /\ Len(Tail(ch)) = Len(ch) - 1 /\ Len(ch) <= ChanSize /\ Len(ch) \in Nat /\ ChanSize \in Nat
  BY WalAssumption DEF TypeOK
<1>2. CASE waiters = <<>>
  <2>1. ch' = Tail(ch) /\ accepted' = log /\ UNCHANGED <<ppc, waiters>>
    BY <1>2 DEF Receive, prod
  <2> DEFINE rest == Tail(ch)
  <2>2. rest \in Seq(Producers)
    BY <1>1
  <2> HIDE DEF rest
  <2>3. rest \o <<>> = rest /\ log \o <<>> = log /\ <<>> \in Seq(Producers)
    <3>1. ASSUME NEW s \in Seq(Producers) PROVE s \o <<>> = s /\ <<>> \in Seq(Producers)
      OBVIOUS
    <3> QED
      BY <2>2, <3>1
  <2>4. \E more \in Seq(Producers) : ch' = rest \o more /\ accepted' = log \o more
    BY <2>1, <2>3 DEF rest
  <2>5. waiters' = <<>> /\ Len(ch') <= ChanSize /\ ch' \in Seq(Producers)
    BY <1>1, <1>2, <2>1
  <2>6. ppc' \in [Producers -> {"idle", "putting", "waiting"}] /\ waiters' \in Seq(Producers)
    BY <2>1 DEF TypeOK
  <2> QED
    BY <2>4, <2>5, <2>6 DEF rest
<1>3. CASE waiters # <<>>
  <2> DEFINE w == Head(waiters)
  <2>1. /\ ch' = Append(Tail(ch), w) /\ accepted' = Append(log, w)
        /\ ppc' = [ppc EXCEPT ![w] = "idle"] /\ waiters' = Tail(waiters)
    BY <1>3 DEF Receive
  <2>2. w \in Producers /\ Tail(waiters) \in Seq(Producers) /\ ppc' \in [Producers -> {"idle", "putting", "waiting"}]
    BY <1>3, <2>1 DEF TypeOK
  <2> DEFINE rest == Tail(ch)
  <2>3. rest \in Seq(Producers) /\ Len(rest) = Len(ch) - 1
    BY <1>1
  <2> HIDE DEF w, rest
  <2>4. ch' = Append(rest, w)
    BY <2>1 DEF rest
  <2>5. Append(rest, w) = rest \o <<w>> /\ Append(log, w) = log \o <<w>> /\ <<w>> \in Seq(Producers)
    BY <2>2, <2>3, NoneOrOne
  <2>6. \E more \in Seq(Producers) : ch' = rest \o more /\ accepted' = log \o more
    BY <2>1, <2>4, <2>5
  <2>7. ch' \in Seq(Producers) /\ Len(ch') = Len(ch)
    <3>1. Append(rest, w) \in Seq(Producers) /\ Len(Append(rest, w)) = Len(rest) + 1
      BY <2>2, <2>3, NoneOrOne
    <3>2. ch' \in Seq(Producers) /\ Len(ch') = Len(rest) + 1
      BY <2>4, <3>1
    <3>3. Len(ch) \in Nat /\ Len(rest) = Len(ch) - 1
      BY <1>1, <2>3
    <3> QED
      BY <3>2, <3>3
  <2>8. Len(ch') = ChanSize /\ Len(ch') <= ChanSize
    BY <1>1, <1>3, <2>7
  <2>9. waiters' \in Seq(Producers)
    BY <2>1, <2>2
  <2> QED
    BY <2>2, <2>6, <2>7, <2>8, <2>9 DEF rest
<1> QED
  BY <1>2, <1>3

(* The log that is left when the head of the channel has gone into the     *)
(* batch or, not marshalled, nowhere.                                      *)
Left(log) ==
    /\ log \in Seq(Producers)
    /\ IsPrefixOf(Records(file), log)
    /\ Len(log) + 1 >= Len(Records(file)) + Len(ch)
    /\ ~broken => log = (Records(file) \o batch') \o Tail(ch)

LEMMA LeftFits ==
    ASSUME TypeOK, ch # <<>>, batch' \in Seq(Producers), NEW log, Left(log), NEW more \in Seq(Producers)
    PROVE  /\ log \o more \in Seq(Producers)
           /\ IsPrefixOf(Records(file), log \o more)
           /\ Len(Records(file)) + Len(Tail(ch) \o more) <= Len(log \o more)
           /\ ~broken => log \o more = (Records(file) \o batch') \o (Tail(ch) \o more)
<1> DEFINE r == Records(file)
           t == Tail(ch)
<1>1. /\ r \in Seq(Producers) /\ t \in Seq(Producers) /\ Len(t) = Len(ch) - 1
      /\ Len(ch) \in Nat /\ Len(r) \in Nat
  BY CellFacts DEF TypeOK
<1>2. log \in Seq(Producers) /\ IsPrefixOf(r, log) /\ Len(log) + 1 >= Len(r) + Len(ch)
  BY DEF Left
<1>3. ~broken => log = (r \o batch') \o t
  BY DEF Left
<1> HIDE DEF r, t
<1> DEFINE Lengthens(s) == s \o more \in Seq(Producers) /\ Len(s \o more) = Len(s) + Len(more)
<1>4. ASSUME NEW s \in Seq(Producers) PROVE Lengthens(s)
  OBVIOUS
<1>5. Lengthens(log) /\ Lengthens(t)
  BY <1>1, <1>2, <1>4
<1>6. IsPrefixOf(r, log \o more)
  BY <1>1, <1>2, <1>5, PrefixFacts
<1>7. Len(r) + Len(t \o more) <= Len(log \o more)
  <2>1. Len(log) \in Nat /\ Len(more) \in Nat /\ Len(t) \in Nat
    BY <1>1, <1>2
  <2> QED
    BY <1>1, <1>2, <1>5, <2>1
<1>8. ASSUME ~broken PROVE log \o more = (r \o batch') \o (t \o more)
  <2>1. r \o batch' \in Seq(Producers)
    BY <1>1
  <2>2. ((r \o batch') \o t) \o more = (r \o batch') \o (t \o more)
    BY <1>1, <2>1, ConcatAssoc
  <2> QED
    BY <1>3, <1>8, <2>2
<1> QED
  BY <1>5, <1>6, <1>7, <1>8 DEF r, t

(* An entry on its way from the channel into the batch, or lost.           *)
LEMMA TakeStep ==
    ASSUME WalInv, SelectEntry \/ DrainEntry
    PROVE  WalInv'
<1> USE DEF WalInv
<1>1. /\ Take /\ pc \in {"select", "drain"} /\ pc' = "drain"
      /\ Len(batch) < BatchMax
      /\ UNCHANGED <<due, broken, closed, file, synced, unsure, recovery, crashes>>
  BY DEF SelectEntry, DrainEntry, LoopInv, disk
<1>2. /\ ch # <<>> /\ ch \in Seq(Producers) /\ Head(ch) \in Producers
      /\ batch \in Seq(Producers) /\ accepted \in Seq(Producers) /\ Records(file) \in Seq(Producers)
      /\ Len(ch) \in Nat /\ Len(ch) >= 1
  BY <1>1, CellFacts DEF Take, TypeOK
<1>3. PICK log : /\ Receive(log) /\ Left(log)
                 /\ batch' \in Seq(Producers) /\ Len(batch') <= BatchMax
                 /\ count' \in Nat /\ dropped' \in Nat
  <2>1. CASE /\ Receive(accepted) /\ batch' = Append(batch, Head(ch))
             /\ count' = count + 1 /\ dropped' = dropped
    <3>1. batch' \in Seq(Producers) /\ Len(batch') <= BatchMax /\ count' \in Nat /\ dropped' \in Nat
      BY <1>1, <1>2, <2>1, WalAssumption DEF TypeOK
    <3>2. ASSUME ~broken PROVE accepted = (Records(file) \o batch') \o Tail(ch)
      <4> DEFINE r == Records(file)
      <4>1. accepted = (r \o batch) \o ch
        BY <1>1, <3>2 DEF NothingMissing, Unwritten
      <4>2. r \in Seq(Producers)
        BY <1>2
      <4> HIDE DEF r
      <4>3. (r \o Append(batch, Head(ch))) \o Tail(ch) = (r \o batch) \o ch
        BY <1>2, <4>2, MoveHead, Zenon
      <4>4. accepted = (r \o batch') \o Tail(ch)
        BY <2>1, <4>1, <4>3
      <4> QED
        BY <4>4 DEF r
    <3>3. Len(accepted) + 1 >= Len(Records(file)) + Len(ch)
      BY <1>2 DEF NothingMissing
    <3>4. Left(accepted)
      BY <1>2, <3>2, <3>3 DEF Left, NothingMissing
    <3> QED
      BY <2>1, <3>1, <3>4
  <2>2. CASE /\ Receive(RemoveAt(accepted, HeadAt)) /\ batch' = batch
             /\ count' = count /\ dropped' = dropped + 1
    <3>1. batch' \in Seq(Producers) /\ Len(batch') <= BatchMax /\ count' \in Nat /\ dropped' \in Nat
      BY <1>1, <2>2 DEF TypeOK
    <3>2. /\ Len(Records(file)) + Len(ch) <= Len(accepted)
          /\ Len(Records(file)) \in Nat /\ Len(accepted) \in Nat
      BY <1>2 DEF NothingMissing
    <3>3. HeadAt \in 1 .. Len(accepted) /\ Len(Records(file)) < HeadAt
      BY <1>2, <3>2 DEF HeadAt
    <3>4. /\ RemoveAt(accepted, HeadAt) \in Seq(Producers)
          /\ Len(RemoveAt(accepted, HeadAt)) = Len(accepted) - 1
      BY <1>2, <3>3, RemoveFacts
    <3>5. IsPrefixOf(Records(file), RemoveAt(accepted, HeadAt))
      BY <1>2, <3>3, RemovePrefix DEF NothingMissing
    <3>6. ASSUME ~broken PROVE RemoveAt(accepted, HeadAt) = (Records(file) \o batch') \o Tail(ch)
      <4> DEFINE held == Records(file) \o batch
      <4>1. held \in Seq(Producers)
        BY <1>2
      <4>2. accepted = held \o ch
        BY <1>1, <3>6 DEF NothingMissing, Unwritten
      <4> HIDE DEF held
      <4>3. RemoveAt(held \o ch, Len(held \o ch) - Len(ch) + 1) = held \o Tail(ch)
        BY <1>2, <4>1, RemoveHead
      <4>4. RemoveAt(accepted, HeadAt) = held \o Tail(ch)
        BY <4>2, <4>3 DEF HeadAt
      <4> QED
        BY <2>2, <4>4 DEF held
    <3>7. Left(RemoveAt(accepted, HeadAt))
      BY <3>2, <3>4, <3>5, <3>6, <1>2 DEF Left
    <3> QED
      BY <2>2, <3>1, <3>7
  <2> QED
    BY <1>1, <2>1, <2>2 DEF Take
<1>4. log \in Seq(Producers)
  BY <1>3 DEF Left
<1>5. /\ ppc' \in [Producers -> {"idle", "putting", "waiting"}]
      /\ waiters' \in Seq(Producers)
      /\ ch' \in Seq(Producers) /\ Len(ch') <= ChanSize
      /\ waiters' # <<>> => Len(ch') = ChanSize
      /\ \E more \in Seq(Producers) : ch' = Tail(ch) \o more /\ accepted' = log \o more
  BY <1>2, <1>3, <1>4, ReceiveStep DEF LoopInv
<1>6. PICK more \in Seq(Producers) : ch' = Tail(ch) \o more /\ accepted' = log \o more
  BY <1>5
<1>7. /\ accepted' \in Seq(Producers)
      /\ IsPrefixOf(Records(file), accepted')
      /\ Len(Records(file)) + Len(ch') <= Len(accepted')
      /\ ~broken => accepted' = (Records(file) \o batch') \o ch'
  BY <1>2, <1>3, <1>6, LeftFits
<1>8. TypeOK'
  BY <1>1, <1>3, <1>5, <1>7 DEF TypeOK
<1>9. LoopInv'
  BY <1>1, <1>5 DEF LoopInv
<1>10. NothingMissing'
  BY <1>1, <1>7 DEF NothingMissing, Unwritten
<1> QED
  BY <1>8, <1>9, <1>10

(* Steps of run() and Close that leave the entries where they are.         *)
LEMMA StillStep ==
    ASSUME WalInv, \/ SelectDeadline \/ DrainEnd \/ KeepBatching \/ FlushNothing
                   \/ DeadlinePasses \/ CloseChannel \/ CloseFile
    PROVE  WalInv'
<1> USE DEF WalInv
<1>1. /\ UNCHANGED <<ppc, waiters, ch, batch, count, broken, file, accepted, recovery, crashes>>
      /\ synced' \in {synced, Len(file)} /\ unsure' \in BOOLEAN /\ due' \in BOOLEAN
      /\ dropped' = dropped
  BY DEF FileSync, SelectDeadline, DrainEnd, KeepBatching, FlushNothing, DeadlinePasses,
         CloseChannel, CloseFile, TypeOK, prod, disk
<1>2. /\ pc' \in {"select", "drain", "check", "sync", "lastSync", "stopped", "done", "down"}
      /\ closed' \in BOOLEAN
      /\ pc \notin {"sync", "lastSync"} => pc' \notin {"sync", "lastSync"}
      /\ pc \in {"sync", "lastSync"} => pc' = pc
  BY DEF SelectDeadline, DrainEnd, KeepBatching, FlushNothing, DeadlinePasses,
         CloseChannel, CloseFile, Flushing, AtEnd, TypeOK
<1>3. TypeOK'
  BY <1>1, <1>2 DEF TypeOK
<1>4. NothingMissing'
  <2>1. Unwritten' = Unwritten
    BY <1>1, <1>2 DEF Unwritten
  <2> QED
    BY <1>1, <2>1, NothingMoves
<1>5. LoopInv'
  <2>1. pc' = "select" => Len(batch') < BatchMax
    <3>1. CASE KeepBatching
      BY <1>1, <3>1, WalAssumption DEF KeepBatching, MustFlush, TypeOK
    <3>2. CASE FlushNothing
      BY <1>1, <3>2, WalAssumption DEF FlushNothing
    <3> QED
      BY <1>1, <3>1, <3>2 DEF SelectDeadline, DrainEnd, DeadlinePasses, CloseChannel, CloseFile,
                              LoopInv
  <2>2. pc' \in {"lastSync", "stopped", "done"} => ch' = <<>> /\ closed'
    BY <1>1 DEF SelectDeadline, DrainEnd, KeepBatching, FlushNothing, DeadlinePasses,
                CloseChannel, CloseFile, Flushing, AtEnd, LoopInv
  <2>3. pc' \in {"stopped", "done"} => batch' = <<>>
    BY <1>1 DEF SelectDeadline, DrainEnd, KeepBatching, FlushNothing, DeadlinePasses,
                CloseChannel, CloseFile, LoopInv
  <2>4. pc' # "down"
    BY DEF SelectDeadline, DrainEnd, KeepBatching, FlushNothing, DeadlinePasses, Running,
           CloseChannel, CloseFile
  <2>5. closed' => crashes' < MaxCrashes
    BY <1>1 DEF SelectDeadline, DrainEnd, KeepBatching, FlushNothing, DeadlinePasses,
                CloseChannel, CloseFile, LoopInv
  <2>6. waiters' # <<>> => Len(ch') = ChanSize
    BY <1>1 DEF LoopInv
  <2> QED
    BY <2>1, <2>2, <2>3, <2>4, <2>5, <2>6 DEF LoopInv
<1> QED
  BY <1>3, <1>4, <1>5

(* The sync, and the reset of the batch that is in the file.               *)
LEMMA FlushSyncStep ==
    ASSUME WalInv, FlushSync
    PROVE  WalInv'
<1> USE DEF WalInv
<1>1. /\ UNCHANGED <<ppc, waiters, ch, count, broken, closed, file, accepted, recovery, crashes>>
      /\ synced' \in {synced, Len(file)} /\ unsure' \in BOOLEAN /\ due' \in BOOLEAN
      /\ dropped' = dropped
      /\ pc \in {"sync", "lastSync"} /\ pc' = (IF pc = "sync" THEN "select" ELSE "stopped")
      /\ batch' = <<>>
  BY DEF FlushSync, FileSync, TypeOK, prod
<1>2. TypeOK'
  <2>1. batch' \in Seq(Producers) /\ Len(batch') <= BatchMax
    BY <1>1, WalAssumption
  <2>2. synced' \in 0 .. Len(file) /\ dropped' \in Nat /\ pc' \in {"select", "stopped"}
    BY <1>1 DEF TypeOK
  <2> QED
    BY <1>1, <2>1, <2>2 DEF TypeOK
<1>3. NothingMissing'
  <2>1. Unwritten' = Unwritten
    BY <1>1 DEF Unwritten
  <2> QED
    BY <1>1, <2>1, NothingMoves
<1>4. LoopInv'
  BY <1>1, WalAssumption DEF LoopInv
<1> QED
  BY <1>2, <1>3, <1>4

(* What the file may end with after a write that failed or was cut off.    *)
LEMMA PartWritten ==
    ASSUME TypeOK, NEW part \in PartOf(batch), NEW torn \in MaybeTorn
    PROVE  /\ part \in Seq(Producers) /\ IsPrefixOf(part, batch)
           /\ file \o part \in Seq(Cells)
           /\ (file \o part) \o torn \in Seq(Cells)
           /\ Records((file \o part) \o torn) = Records(file) \o part
<1>1. part \in Seq(Producers) /\ IsPrefixOf(part, batch)
  <2>1. PICK n \in 0 .. Len(batch) - 1 : part = SubSeq(batch, 1, n)
    BY DEF PartOf
  <2>2. batch \in Seq(Producers)
    BY DEF TypeOK
  <2> QED
    BY <2>1, <2>2 DEF IsPrefixOf
<1>2. file \in Seq(Cells) /\ part \in Seq(Cells)
  BY <1>1, CellFacts
<1>3. file \o part \in Seq(Cells)
  BY <1>2
<1>4. Records(file \o part) = Records(file) \o part
  BY <1>1, <1>2, RecordsConcat
<1> QED
  BY <1>1, <1>3, <1>4, RecordsTear

LEMMA PrefixConcat ==
    ASSUME NEW r \in Seq(Producers), NEW s \in Seq(Producers), NEW t \in Seq(Producers),
           NEW c \in Seq(Producers), IsPrefixOf(s, t)
    PROVE  IsPrefixOf(r \o s, (r \o t) \o c)
  BY DEF IsPrefixOf

(* The batch on its way into the file.                                     *)
LEMMA FlushWriteStep ==
    ASSUME WalInv, FlushWrite
    PROVE  WalInv'
<1> USE DEF WalInv
<1>1. /\ UNCHANGED <<ppc, waiters, ch, batch, count, due, closed, synced, unsure, dropped, accepted,
                     recovery, crashes>>
      /\ pc' \in {"sync", "lastSync"}
      /\ pc' = "lastSync" => closed /\ ch = <<>>
      /\ pc \notin {"sync", "lastSync", "down"}
  BY DEF FlushWrite, Flushing, AtEnd, prod
<1>2. Unwritten = batch /\ Unwritten' = <<>> /\ LoopInv'
  BY <1>1 DEF Unwritten, LoopInv
<1>3. /\ file \in Seq(Cells) /\ Records(file) \in Seq(Producers) /\ batch \in Seq(Cells)
      /\ batch \in Seq(Producers) /\ ch \in Seq(Producers) /\ accepted \in Seq(Producers)
  BY CellFacts DEF TypeOK
<1>4. ASSUME file' \in Seq(Cells), Len(file') >= Len(file), broken' \in BOOLEAN PROVE TypeOK'
  BY <1>1, <1>4 DEF TypeOK, Cells
<1>5. CASE broken
  <2>1. file' = file /\ broken' = broken
    BY <1>5, <1>3 DEF FlushWrite, Written
  <2>2. TypeOK'
    BY <1>3, <1>4, <2>1 DEF TypeOK
  <2>3. NothingMissing'
    BY <1>1, <1>5, <2>1 DEF NothingMissing
  <2> QED
    BY <1>2, <2>2, <2>3
<1>6. CASE ~broken /\ file' = file \o batch /\ broken' = broken
  <2>1. file' \in Seq(Cells) /\ Len(file') >= Len(file)
    BY <1>3, <1>6
  <2>2. TypeOK'
    BY <1>4, <1>6, <2>1 DEF TypeOK
  <2>3. Records(file') = Records(file) \o batch
    BY <1>3, <1>6, RecordsConcat
  <2>4. accepted = Records(file') \o ch
    BY <1>2, <1>6, <2>3 DEF NothingMissing
  <2>5. Records(file') \in Seq(Producers)
    BY <2>1, RecordsFacts
  <2>6. Records(file') \o <<>> = Records(file')
    BY <2>5, ConcatEmptySeq
  <2>7. IsPrefixOf(Records(file'), accepted)
    BY <1>3, <2>4, <2>5, PrefixFacts
  <2>8. Len(Records(file')) + Len(ch) <= Len(accepted)
    BY <1>3, <2>4, <2>5
  <2>9. NothingMissing'
    BY <1>1, <1>2, <2>4, <2>6, <2>7, <2>8 DEF NothingMissing
  <2> QED
    BY <1>2, <2>2, <2>9
<1>7. CASE /\ ~broken /\ broken' = TRUE
           /\ \E part \in PartOf(batch), torn \in MaybeTorn : file' = (file \o part) \o torn
  <2>1. PICK part \in PartOf(batch), torn \in MaybeTorn : file' = (file \o part) \o torn
    BY <1>7
  <2>2. /\ part \in Seq(Producers) /\ IsPrefixOf(part, batch)
        /\ file' \in Seq(Cells) /\ Records(file') = Records(file) \o part
    BY <2>1, PartWritten
  <2>3. Len(file') >= Len(file)
    BY <1>3, <2>1, <2>2 DEF MaybeTorn
  <2>4. accepted = (Records(file) \o batch) \o ch
    BY <1>2, <1>7 DEF NothingMissing
  <2>5. IsPrefixOf(Records(file'), accepted)
    BY <1>3, <2>2, <2>4, PrefixConcat
  <2>6. NothingMissing'
    <3>1. Len(Records(file) \o part) = Len(Records(file)) + Len(part) /\ Len(part) <= Len(batch)
      BY <1>3, <2>2 DEF IsPrefixOf
    <3>2. Len(accepted) = (Len(Records(file)) + Len(batch)) + Len(ch)
      BY <1>3, <2>4
    <3>3. Len(Records(file)) \in Nat /\ Len(part) \in Nat /\ Len(batch) \in Nat /\ Len(ch) \in Nat
      BY <1>3, <2>2
    <3>4. Len(Records(file')) + Len(ch) <= Len(accepted)
      BY <2>2, <3>1, <3>2, <3>3
    <3> QED
      BY <1>1, <1>7, <2>5, <3>4 DEF NothingMissing
  <2>7. TypeOK'
    BY <1>4, <1>7, <2>2, <2>3
  <2> QED
    BY <1>2, <2>6, <2>7
<1> QED
  BY <1>5, <1>6, <1>7 DEF FlushWrite, Written

LEMMA DieStep ==
    ASSUME TypeOK, NEW f \in Seq(Cells), NEW n \in 0 .. Len(f), Die(f, n),
           crashes' = crashes + 1, crashes < MaxCrashes, unsure' \in BOOLEAN
    PROVE  WalInv'
<1>1. Records(f) \in Seq(Producers)
  BY RecordsFacts
<1>2. TypeOK'
  <2>1. <<>> \in Seq(Producers) /\ Len(<<>>) = 0
    OBVIOUS
  <2>2. NoRecovery \in [read : Seq(Producers), err : BOOLEAN]
    BY <2>1 DEF NoRecovery
  <2>3. crashes' \in 0 .. MaxCrashes
    BY WalAssumption DEF TypeOK
  <2>4. ppc' \in [Producers -> {"idle", "putting", "waiting"}] /\ count' \in Nat /\ dropped' \in Nat
    BY DEF Die
  <2>5. /\ waiters' = <<>> /\ ch' = <<>> /\ batch' = <<>> /\ pc' = "down" /\ due' = FALSE
        /\ broken' = FALSE /\ closed' = FALSE /\ file' = f /\ synced' = n
        /\ accepted' = Records(f) /\ recovery' = NoRecovery
    BY DEF Die
  <2>6. f \in Seq(Producers \cup TornShapes) /\ 0 <= ChanSize /\ 0 <= BatchMax
    BY WalAssumption DEF Cells
  <2> HIDE DEF NoRecovery
  <2> QED
    BY <1>1, <2>1, <2>2, <2>3, <2>4, <2>5, <2>6 DEF TypeOK
<1>3. NothingMissing'
  <2>1. /\ accepted' = Records(f) /\ file' = f /\ ch' = <<>> /\ Unwritten' = <<>>
    BY DEF Die, Unwritten
  <2>2. (Records(f) \o <<>>) \o <<>> = Records(f)
    BY <1>1, ConcatEmptySeq
  <2>3. IsPrefixOf(Records(f), Records(f))
    BY <1>1, PrefixFacts
  <2> QED
    BY <1>1, <2>1, <2>2, <2>3 DEF NothingMissing
<1>4. LoopInv'
  BY DEF LoopInv, Die
<1> QED
  BY <1>2, <1>3, <1>4 DEF WalInv

(* However the process ends, the entries left are a prefix of the accepted *)
(* ones, and those that were on the disk are still on it.                  *)
Crashed(f, n) ==
    /\ f \in Seq(Cells) /\ n \in 0 .. Len(f)
    /\ Die(f, n)
    /\ crashes' = crashes + 1 /\ crashes < MaxCrashes /\ pc # "down"
    /\ unsure' \in BOOLEAN
    /\ IsPrefixOf(Records(f), accepted)
    /\ IsPrefixOf(Records(SubSeq(file, 1, synced)), Records(SubSeq(f, 1, n)))
    /\ IsPrefixOf(SubSeq(file, 1, synced), SubSeq(f, 1, n))

LEMMA CrashStep ==
    ASSUME WalInv, Kill \/ PowerLoss \/ SendOnClosed
    PROVE  \E f, n : Crashed(f, n)
<1> USE DEF WalInv
<1>1. /\ file \in Seq(Cells) /\ synced \in 0 .. Len(file) /\ accepted \in Seq(Producers)
      /\ Records(file) \in Seq(Producers) /\ batch \in Seq(Producers) /\ ch \in Seq(Producers)
  BY CellFacts DEF TypeOK
<1>2. crashes' = crashes + 1 /\ crashes < MaxCrashes /\ pc # "down" /\ unsure' \in BOOLEAN
  BY DEF Kill, PowerLoss, SendOnClosed, LoopInv, TypeOK
<1>3. Records(SubSeq(file, 1, synced)) \in Seq(Producers)
  <2>1. Len(file) \in 0 .. Len(file) /\ synced \in 0 .. Len(file)
    BY <1>1
  <2>2. SubSeq(file, 1, synced) \in Seq(Cells)
    BY <1>1, <2>1, RecordsPrefix
  <2> QED
    BY <2>2, RecordsFacts
<1>4. IsPrefixOf(Records(file), accepted)
  BY DEF NothingMissing
<1>8. IsPrefixOf(SubSeq(file, 1, synced), SubSeq(file, 1, synced))
  BY <1>1 DEF IsPrefixOf
<1>5. CASE Die(file, synced)
  <2>1. IsPrefixOf(Records(SubSeq(file, 1, synced)), Records(SubSeq(file, 1, synced)))
    BY <1>3, PrefixFacts
  <2> QED
    BY <1>1, <1>2, <1>4, <1>5, <1>8, <2>1 DEF Crashed
<1>6. CASE /\ Flushing /\ ~broken
           /\ \E part \in PartOf(batch), torn \in MaybeTorn :
                 Die((file \o part) \o torn, synced)
  <2>1. PICK part \in PartOf(batch), torn \in MaybeTorn : Die((file \o part) \o torn, synced)
    BY <1>6
  <2> DEFINE f == (file \o part) \o torn
  <2>2. /\ part \in Seq(Producers) /\ IsPrefixOf(part, batch)
        /\ f \in Seq(Cells) /\ Records(f) = Records(file) \o part
    BY PartWritten
  <2>3. Len(f) >= Len(file) /\ SubSeq(f, 1, synced) = SubSeq(file, 1, synced)
    <3>1. part \in Seq(Cells) /\ torn \in Seq(Cells)
      BY <2>2, CellFacts, TearsAreCells
    <3>2. (file \o part) \o torn = file \o (part \o torn) /\ part \o torn \in Seq(Cells)
      BY <1>1, <3>1, ConcatOfThree
    <3> QED
      BY <1>1, <3>2
  <2> HIDE DEF f
  <2>4. Unwritten = batch
    BY <1>6 DEF Unwritten, Flushing, AtEnd
  <2>5. accepted = (Records(file) \o batch) \o ch
    BY <1>6, <2>4 DEF NothingMissing
  <2>6. IsPrefixOf(Records(f), accepted)
    BY <1>1, <2>2, <2>5, PrefixConcat
  <2>7. IsPrefixOf(Records(SubSeq(file, 1, synced)), Records(SubSeq(f, 1, synced)))
    BY <1>3, <2>3, PrefixFacts
  <2>8. Die(f, synced)
    BY <2>1 DEF f
  <2>9. synced \in 0 .. Len(f)
    BY <1>1, <2>2, <2>3
  <2> QED
    BY <1>2, <1>8, <2>2, <2>3, <2>6, <2>7, <2>8, <2>9 DEF Crashed
<1>7. CASE \E m \in synced .. Len(file) :
              \/ Die(SubSeq(file, 1, m), m)
              \/ \E s \in Tears : Die(Append(SubSeq(file, 1, m), s), m + 1)
  <2>1. PICK m \in synced .. Len(file) :
              \/ Die(SubSeq(file, 1, m), m)
              \/ \E s \in Tears : Die(Append(SubSeq(file, 1, m), s), m + 1)
    BY <1>7
  <2> DEFINE kept == SubSeq(file, 1, m)
  <2>2. m \in 0 .. Len(file) /\ synced \in 0 .. m /\ Len(file) \in 0 .. Len(file)
    BY <1>1
  <2>3. kept \in Seq(Cells) /\ Len(kept) = m
    BY <1>1, <2>2
  <2>4. IsPrefixOf(Records(SubSeq(file, 1, synced)), Records(kept))
    BY <1>1, <2>2, RecordsPrefix
  <2>5. IsPrefixOf(Records(kept), Records(file))
    BY <1>1, <2>2, RecordsPrefix, SubSeqFull
  <2>10. \A g \in Seq(Cells) : IsPrefixOf(kept, g) /\ Len(g) \in m .. m + 1 =>
            IsPrefixOf(SubSeq(file, 1, synced), SubSeq(g, 1, Len(g)))
    BY <1>1, <2>2, <2>3 DEF IsPrefixOf
  <2> HIDE DEF kept
  <2>6. Records(kept) \in Seq(Producers)
    BY <2>3, RecordsFacts
  <2>7. IsPrefixOf(Records(kept), accepted)
    BY <1>1, <1>4, <2>5, <2>6, PrefixFacts
  <2>8. CASE Die(kept, m)
    <3>1. SubSeq(kept, 1, m) = kept
      BY <2>3, SubSeqFull
    <3>2. m \in 0 .. Len(kept)
      BY <2>2, <2>3
    <3>3. IsPrefixOf(SubSeq(file, 1, synced), SubSeq(kept, 1, m))
      BY <2>2, <2>3, <2>10 DEF IsPrefixOf
    <3> QED
      BY <1>2, <2>3, <2>4, <2>7, <2>8, <3>1, <3>2, <3>3 DEF Crashed
  <2>9. CASE \E s \in Tears : Die(Append(kept, s), m + 1)
    <3>1. PICK s \in Tears : Die(Append(kept, s), m + 1)
      BY <2>9
    <3> DEFINE f == Append(kept, s)
    <3>2. s \in Cells /\ IsTorn(s)
      BY WalAssumption DEF Cells, IsTorn
    <3>3. f \in Seq(Cells) /\ Len(f) = m + 1
      BY <2>3, <3>2
    <3>4. Records(f) = Records(kept)
      BY <2>3, <3>2, RecordsAppend
    <3>5. Die(f, m + 1)
      BY <3>1
    <3>8. IsPrefixOf(kept, f)
      BY <2>3, <3>2 DEF IsPrefixOf
    <3> HIDE DEF f
    <3>9. IsPrefixOf(SubSeq(file, 1, synced), SubSeq(f, 1, m + 1))
      BY <2>2, <2>10, <3>3, <3>8
    <3>6. SubSeq(f, 1, m + 1) = f
      BY <3>3, SubSeqFull
    <3>7. m + 1 \in 0 .. Len(f)
      BY <2>2, <3>3
    <3> QED
      BY <1>2, <2>4, <2>7, <3>3, <3>4, <3>5, <3>6, <3>7, <3>9 DEF Crashed
  <2> QED
    BY <2>1, <2>8, <2>9 DEF kept
<1> QED
  BY <1>5, <1>6, <1>7 DEF Kill, PowerLoss, SendOnClosed

(* What a restart reads.                                                   *)
LEMMA DeliveredFacts ==
    ASSUME NEW f \in Seq(Cells)
    PROVE  /\ Delivered(f) \in Seq(Producers)
           /\ ReadErrors(f) \subseteq BOOLEAN
           /\ TornAt(f) # {} =>
                 FirstTorn(f) \in TornAt(f) /\ \A j \in TornAt(f) : FirstTorn(f) <= j
<1>1. ReadErrors(f) \subseteq BOOLEAN
  BY DEF ReadErrors
<1>2. \A i \in 1 .. Len(f) : i \notin TornAt(f) => f[i] \in Producers
  BY DEF TornAt, IsTorn, Cells
<1>3. ASSUME TornAt(f) # {}
      PROVE  FirstTorn(f) \in TornAt(f) /\ \A j \in TornAt(f) : FirstTorn(f) <= j
  <2>1. TornAt(f) \in SUBSET Nat
    BY DEF TornAt
  <2>2. \E i \in TornAt(f) : \A j \in TornAt(f) : i <= j
    BY <1>3, <2>1, LeastNumber
  <2> QED
    BY <2>2 DEF FirstTorn
<1>4. Delivered(f) \in Seq(Producers)
  <2>1. CASE TornAt(f) = {}
    BY <1>2, <2>1 DEF Delivered
  <2>2. CASE TornAt(f) # {}
    <3> DEFINE k == FirstTorn(f)
    <3>1. k \in 1 .. Len(f) /\ \A i \in 1 .. k - 1 : i \notin TornAt(f)
      BY <1>3, <2>2 DEF TornAt
    <3> HIDE DEF k
    <3>2. \A i \in 1 .. k - 1 : f[i] \in Producers
      BY <1>2, <3>1
    <3>3. SubSeq(f, 1, k - 1) \in Seq(Producers)
      BY <3>1, <3>2
    <3> QED
      BY <2>2, <3>3 DEF Delivered, k
  <2> QED
    BY <2>1, <2>2
<1> QED
  BY <1>1, <1>3, <1>4

LEMMA RestartStep ==
    ASSUME WalInv, Restart
    PROVE  WalInv'
<1> USE DEF WalInv
<1>1. /\ UNCHANGED <<ppc, waiters, ch, batch, count, due, broken, closed, file, synced,
                     unsure, dropped, accepted, crashes>>
      /\ pc = "down" /\ pc' = "select"
      /\ \E e \in ReadErrors(file) : recovery' = [read |-> Delivered(file), err |-> e]
  BY DEF Restart, prod, disk
<1>2. recovery' \in [read : Seq(Producers), err : BOOLEAN]
  BY <1>1, CellFacts, DeliveredFacts
<1>3. TypeOK'
  BY <1>1, <1>2 DEF TypeOK
<1>4. NothingMissing'
  BY <1>1, NothingMoves DEF Unwritten
<1>5. LoopInv'
  BY <1>1, WalAssumption DEF LoopInv
<1> QED
  BY <1>3, <1>4, <1>5

LEMMA WalInvHolds == Spec => []WalInv
<1>1. Init => WalInv
  <2> SUFFICES ASSUME Init PROVE WalInv
    OBVIOUS
  <2>1. <<>> \in Seq(Producers) /\ <<>> \in Seq(Cells) /\ Len(<<>>) = 0 /\ <<>> \o <<>> = <<>>
    OBVIOUS
  <2>2. NoRecovery \in [read : Seq(Producers), err : BOOLEAN]
    BY <2>1 DEF NoRecovery
  <2>3. TypeOK
    <3>1. /\ ppc \in [Producers -> {"idle", "putting", "waiting"}] /\ pc = "select"
          /\ waiters = <<>> /\ ch = <<>> /\ batch = <<>> /\ count = 0 /\ file = <<>>
          /\ due = FALSE /\ broken = FALSE /\ closed = FALSE
          /\ synced = 0 /\ unsure = FALSE /\ dropped = 0 /\ accepted = <<>> /\ recovery = NoRecovery /\ crashes = 0
      BY DEF Init
    <3>2. 0 <= ChanSize /\ 0 <= BatchMax /\ 0 \in 0 .. MaxCrashes
      BY WalAssumption
    <3>3. <<>> \in Seq(Producers \cup TornShapes)
      OBVIOUS
    <3>4. ch \in Seq(Producers) /\ Len(ch) <= ChanSize /\ batch \in Seq(Producers) /\ Len(batch) <= BatchMax
      BY <2>1, <3>1, <3>2
    <3>5. file \in Seq(Producers \cup TornShapes) /\ synced \in 0 .. Len(file)
      BY <2>1, <3>1, <3>3
    <3>6. recovery \in [read : Seq(Producers), err : BOOLEAN] /\ crashes \in 0 .. MaxCrashes
      BY <2>2, <3>1, <3>2
    <3> HIDE DEF NoRecovery
    <3> QED
      BY <2>1, <3>1, <3>4, <3>5, <3>6 DEF TypeOK
  <2>4. NothingMissing
    <3>1. /\ file = <<>> /\ accepted = <<>> /\ ch = <<>> /\ batch = <<>>
          /\ pc = "select"
      BY DEF Init
    <3>2. Records(file) = <<>> /\ Unwritten = <<>>
      BY <3>1, RecordsEmpty DEF Unwritten
    <3>3. IsPrefixOf(<<>>, <<>>)
      BY <2>1 DEF IsPrefixOf
    <3>4. Len(<<>>) + Len(<<>>) <= Len(<<>>)
      BY <2>1
    <3> QED
      BY <2>1, <3>1, <3>2, <3>3, <3>4 DEF NothingMissing
  <2>5. LoopInv
    BY WalAssumption DEF Init, LoopInv
  <2> QED
    BY <2>3, <2>4, <2>5 DEF WalInv
<1>2. WalInv /\ [Next]_vars => WalInv'
  <2> SUFFICES ASSUME WalInv, [Next]_vars PROVE WalInv'
    OBVIOUS
  <2>1. CASE \E p \in Producers : PutCheck(p) \/ Enqueue(p) \/ GiveUp(p)
    BY <2>1, PutStep
  <2>2. CASE Loop
    BY <2>2, TakeStep, StillStep, FlushWriteStep, FlushSyncStep DEF Loop
  <2>3. CASE DeadlinePasses \/ CloseChannel
    BY <2>3, StillStep
  <2>4. CASE Kill \/ PowerLoss \/ SendOnClosed
    <3>1. PICK f, n : Crashed(f, n)
      BY <2>4, CrashStep
    <3> QED
      BY <3>1, DieStep DEF Crashed, WalInv
  <2>5. CASE Restart
    BY <2>5, RestartStep
  <2>6. CASE UNCHANGED vars
    <3>1. /\ UNCHANGED <<ppc, waiters, ch, pc, batch, count, due, broken, closed>>
          /\ UNCHANGED <<file, synced, unsure, dropped, accepted, recovery, crashes>>
      BY <2>6 DEF vars, disk
    <3>2. TypeOK'
      BY <3>1 DEF WalInv, TypeOK
    <3>3. NothingMissing' /\ LoopInv'
      BY <3>1 DEF WalInv, NothingMissing, LoopInv, Unwritten
    <3> QED
      BY <3>2, <3>3 DEF WalInv
  <2> QED
    BY <2>1, <2>2, <2>3, <2>4, <2>5, <2>6 DEF Next
<1> QED
  BY <1>1, <1>2, PTL DEF Spec

(* Every variable keeps its type: the channel and the batch never hold     *)
(* more than their capacity, and no more of the file is on the disk than   *)
(* was written (walShard.ch, batchBuf, run, flush).                        *)
THEOREM TypeCorrect == Spec => []TypeOK
<1>1. WalInv => TypeOK
  BY DEF WalInv
<1> QED
  BY <1>1, WalInvHolds, PTL

(* The file holds a prefix of what Put accepted and encodeAppend could     *)
(* marshal, in the same order and without another gap, whatever fails      *)
(* (flush, and the bufio.Writer that stays broken after an error).         *)
THEOREM FileHoldsPrefix == Spec => []FileIsPrefix
<1>1. WalInv => FileIsPrefix
  BY DEF WalInv, NothingMissing, FileIsPrefix
<1> QED
  BY <1>1, WalInvHolds, PTL

(* A Close without an error leaves every accepted entry that could be      *)
(* marshalled on the disk, unless a write or a sync before it failed       *)
(* (walShard.Close, and run(), which drains the closed channel first).     *)
THEOREM CloseLosesNothing == Spec => []CloseKeepsAll
<1>1. Init => CloseKeepsAll
  BY DEF Init, CloseKeepsAll
<1>2. WalInv /\ CloseKeepsAll /\ [Next]_vars => CloseKeepsAll'
  <2> SUFFICES ASSUME WalInv, CloseKeepsAll, [Next]_vars PROVE CloseKeepsAll'
    OBVIOUS
  <2>1. CASE CloseFile
    <3> SUFFICES ASSUME ~broken, ~unsure', SyncPolicy # "never"
                 PROVE  Records(SubSeq(file', 1, synced')) = accepted'
      BY <2>1 DEF CloseFile, CloseKeepsAll
    <3>1. /\ synced' = Len(file) /\ file' = file /\ accepted' = accepted
          /\ pc = "stopped"
      BY <2>1 DEF CloseFile, FileSync
    <3>2. accepted = (Records(file) \o <<>>) \o <<>>
      BY <3>1 DEF WalInv, NothingMissing, LoopInv, Unwritten
    <3>3. accepted = Records(file)
      BY <3>2, CellFacts, ConcatEmptySeq DEF WalInv
    <3>4. SubSeq(file, 1, Len(file)) = file
      BY CellFacts, SubSeqFull DEF WalInv
    <3> QED
      BY <3>1, <3>3, <3>4
  <2>2. CASE pc # "done" /\ ~CloseFile
    <3>1. pc' # "done"
      <4>1. CASE Kill \/ PowerLoss \/ SendOnClosed
        BY <4>1, CrashStep DEF Crashed, Die
      <4> QED
        BY <2>2, <4>1 DEF Next, Loop, PutCheck, Enqueue, GiveUp, SelectEntry, SelectDeadline,
              DrainEntry, DrainEnd, KeepBatching, FlushNothing, FlushWrite, FlushSync,
              DeadlinePasses, CloseChannel, Restart, vars
    <3> QED
      BY <3>1 DEF CloseKeepsAll
  <2>3. CASE pc = "done"
    <3>1. closed
      BY <2>3 DEF WalInv, LoopInv
    <3>2. \/ UNCHANGED <<file, synced, accepted, broken, unsure, pc>>
          \/ Kill \/ PowerLoss \/ SendOnClosed
      BY <2>3, <3>1 DEF Next, Loop, PutCheck, Enqueue, GiveUp, SelectEntry, SelectDeadline,
              DrainEntry, DrainEnd, KeepBatching, FlushNothing, FlushWrite, FlushSync, CloseFile,
              DeadlinePasses, CloseChannel, Restart, vars, Flushing, AtEnd, Running, disk
    <3>3. CASE UNCHANGED <<file, synced, accepted, broken, unsure, pc>>
      BY <3>3 DEF CloseKeepsAll
    <3>4. CASE Kill \/ PowerLoss \/ SendOnClosed
      BY <3>4, CrashStep DEF Crashed, Die, CloseKeepsAll
    <3> QED
      BY <3>2, <3>3, <3>4
  <2> QED
    BY <2>1, <2>2, <2>3
<1> QED
  BY <1>1, <1>2, WalInvHolds, PTL DEF Spec

-----------------------------------------------------------------------------
(* What the disk holds.                                                    *)

(* flush appends to the file.                                              *)
LEMMA FileAppended ==
    ASSUME TypeOK, FlushWrite
    PROVE  \E t \in Seq(Cells) : file' = file \o t
<1>1. Written \in Seq(Cells)
  BY CellFacts DEF Written, TypeOK
<1>2. ASSUME NEW part \in PartOf(batch), NEW torn \in MaybeTorn
      PROVE  (file \o part) \o torn = file \o (part \o torn) /\ part \o torn \in Seq(Cells)
  <2>1. part \in Seq(Cells) /\ file \in Seq(Cells)
    BY PartWritten, CellFacts
  <2>2. torn \in Seq(Cells)
    BY TearsAreCells
  <2> QED
    BY <2>1, <2>2, ConcatOfThree
<1>3. \/ file' = file \o Written
      \/ \E part \in PartOf(batch), torn \in MaybeTorn : file' = (file \o part) \o torn
  BY DEF FlushWrite
<1>4. CASE file' = file \o Written
  BY <1>1, <1>4
<1>5. CASE \E part \in PartOf(batch), torn \in MaybeTorn : file' = (file \o part) \o torn
  <2>1. PICK part \in PartOf(batch), torn \in MaybeTorn : file' = (file \o part) \o torn
    BY <1>5
  <2>2. file' = file \o (part \o torn) /\ part \o torn \in Seq(Cells)
    BY <1>2, <2>1
  <2> QED
    BY <2>2
<1> QED
  BY <1>3, <1>4, <1>5

LEMMA SubSeqPrefix ==
    ASSUME NEW f \in Seq(Cells), NEW m \in 0 .. Len(f), NEW n \in 0 .. m
    PROVE  /\ SubSeq(f, 1, n) \in Seq(Cells) /\ SubSeq(f, 1, m) \in Seq(Cells)
           /\ IsPrefixOf(SubSeq(f, 1, n), SubSeq(f, 1, m))
  BY DEF IsPrefixOf

(* The first torn record of a file is the first of every file it begins,   *)
(* so a longer file delivers no less.                                      *)
LEMMA DeliveredPrefix ==
    ASSUME NEW f \in Seq(Cells), NEW g \in Seq(Cells), IsPrefixOf(f, g)
    PROVE  IsPrefixOf(Delivered(f), Delivered(g))
<1> DEFINE i == FirstTorn(f)
           j == FirstTorn(g)
<1>1. Len(f) \in Nat /\ Len(g) \in Nat /\ Len(f) <= Len(g) /\ \A n \in 1 .. Len(f) : f[n] = g[n]
  BY DEF IsPrefixOf
<1>2. TornAt(f) # {} => i \in TornAt(f) /\ \A n \in TornAt(f) : i <= n
  BY DeliveredFacts
<1>3. TornAt(g) # {} => j \in TornAt(g) /\ \A n \in TornAt(g) : j <= n
  BY DeliveredFacts
<1>4. \A n \in 1 .. Len(f) : n \in TornAt(f) <=> n \in TornAt(g)
  BY <1>1 DEF TornAt
<1>5. TornAt(f) \subseteq 1 .. Len(f) /\ TornAt(g) \subseteq 1 .. Len(g)
  BY DEF TornAt
<1>6. Delivered(f) = IF TornAt(f) = {} THEN f ELSE SubSeq(f, 1, i - 1)
  BY DEF Delivered
<1>7. Delivered(g) = IF TornAt(g) = {} THEN g ELSE SubSeq(g, 1, j - 1)
  BY DEF Delivered
<1> HIDE DEF i, j
<1>8. CASE TornAt(f) = {} /\ TornAt(g) = {}
  BY <1>6, <1>7, <1>8
<1>9. CASE TornAt(f) = {} /\ TornAt(g) # {}
  <2>1. j \in 1 .. Len(g) /\ j > Len(f)
    BY <1>1, <1>3, <1>4, <1>5, <1>9
  <2>2. Delivered(f) = f /\ Delivered(g) = SubSeq(g, 1, j - 1)
    BY <1>6, <1>7, <1>9
  <2> QED
    BY <1>1, <2>1, <2>2 DEF IsPrefixOf
<1>10. CASE TornAt(f) # {}
  <2>1. i \in 1 .. Len(f) /\ i \in TornAt(g) /\ TornAt(g) # {}
    BY <1>2, <1>4, <1>5, <1>10
  <2>2. j \in 1 .. Len(g) /\ j <= i
    BY <1>3, <1>5, <2>1
  <2>3. j \in TornAt(f)
    BY <1>1, <1>3, <1>4, <2>1, <2>2
  <2>4. i = j
    BY <1>2, <1>10, <2>1, <2>2, <2>3
  <2>5. Delivered(f) = SubSeq(f, 1, i - 1) /\ Delivered(g) = SubSeq(g, 1, i - 1)
    BY <1>6, <1>7, <1>10, <2>1, <2>4
  <2> QED
    BY <1>1, <2>1, <2>5 DEF IsPrefixOf
<1> QED
  BY <1>8, <1>9, <1>10

(* What is on the disk stays there, and at its place.                      *)
LEMMA DiskGrows ==
    ASSUME WalInv, WalInv', [Next]_vars
    PROVE  /\ OnDisk \in Seq(Cells) /\ OnDisk' \in Seq(Cells)
           /\ IsPrefixOf(OnDisk, OnDisk')
<1>1. /\ file \in Seq(Cells) /\ synced \in 0 .. Len(file) /\ Len(file) \in 0 .. Len(file)
      /\ file' \in Seq(Cells) /\ synced' \in 0 .. Len(file')
  BY DEF WalInv, TypeOK, Cells
<1>2. OnDisk \in Seq(Cells) /\ OnDisk' \in Seq(Cells)
  BY <1>1, SubSeqPrefix DEF OnDisk
<1>3. CASE file' = file /\ synced' \in {synced, Len(file)}
  <2>1. IsPrefixOf(SubSeq(file, 1, synced), SubSeq(file, 1, synced'))
    BY <1>1, <1>3, SubSeqPrefix
  <2> QED
    BY <1>2, <1>3, <2>1 DEF OnDisk
<1>4. CASE FlushWrite
  <2>1. PICK t \in Seq(Cells) : file' = file \o t
    BY <1>4, FileAppended DEF WalInv
  <2>2. synced' = synced
    BY <1>4 DEF FlushWrite
  <2>3. SubSeq(file \o t, 1, synced) = SubSeq(file, 1, synced)
    BY <1>1
  <2>4. OnDisk' = OnDisk
    BY <2>1, <2>2, <2>3 DEF OnDisk
  <2> QED
    BY <1>2, <2>4, PrefixFacts
<1>5. CASE Kill \/ PowerLoss \/ SendOnClosed
  <2>1. PICK f, n : Crashed(f, n)
    BY <1>5, CrashStep
  <2> QED
    BY <1>2, <2>1 DEF Crashed, Die, OnDisk
<1> QED
  BY <1>2, <1>3, <1>4, <1>5 DEF Next, Loop, PutCheck, Enqueue, GiveUp, SelectEntry, SelectDeadline,
     DrainEntry, DrainEnd, KeepBatching, FlushNothing, FlushSync, FileSync, CloseFile,
     DeadlinePasses, CloseChannel, Restart, vars, disk

(* What a recovery would get from the disk only grows: appending behind a  *)
(* torn record, further crashes and failed syncs take nothing of it back   *)
(* (recoverShard, which stops at the first torn record, and O_APPEND).     *)
THEOREM RecoverableNeverShrinks == Spec => RecoverableStays
<1>1. WalInv /\ WalInv' /\ [Next]_vars => IsPrefixOf(Delivered(OnDisk), Delivered(OnDisk'))
  <2> SUFFICES ASSUME WalInv, WalInv', [Next]_vars
               PROVE  IsPrefixOf(Delivered(OnDisk), Delivered(OnDisk'))
    OBVIOUS
  <2>1. OnDisk \in Seq(Cells) /\ OnDisk' \in Seq(Cells) /\ IsPrefixOf(OnDisk, OnDisk')
    BY DiskGrows
  <2> QED
    BY <2>1, DeliveredPrefix
<1> QED
  BY <1>1, WalInvHolds, PTL DEF Spec, RecoverableStays

-----------------------------------------------------------------------------
(* The refinement.                                                         *)

Safe == Len(Records(SubSeq(file, 1, synced)))

LEMMA SafeFacts ==
    ASSUME TypeOK
    PROVE  /\ SubSeq(file, 1, synced) \in Seq(Cells)
           /\ Safe \in 0 .. Len(Records(file))
           /\ SubSeq(file, 1, Len(file)) = file
<1>1. file \in Seq(Cells) /\ synced \in 0 .. Len(file) /\ Len(file) \in 0 .. Len(file)
  BY CellFacts DEF TypeOK
<1>2. SubSeq(file, 1, Len(file)) = file
  BY <1>1, SubSeqFull
<1>3. /\ SubSeq(file, 1, synced) \in Seq(Cells)
      /\ IsPrefixOf(Records(SubSeq(file, 1, synced)), Records(file))
  BY <1>1, <1>2, RecordsPrefix
<1>4. Records(SubSeq(file, 1, synced)) \in Seq(Producers)
  BY <1>3, RecordsFacts
<1> QED
  BY <1>2, <1>3, <1>4 DEF Safe, IsPrefixOf

(* A step that keeps the file and the entries makes more of them safe, or  *)
(* is none of the promise's steps.                                         *)
LEMMA SyncSteps ==
    ASSUME TypeOK, NothingMissing, TypeOK', UNCHANGED <<file, accepted>>,
           synced' \in {synced, Len(file)}
    PROVE  Promise!Persist \/ UNCHANGED Promise!vars
<1>1. Safe \in 0 .. Len(Records(file)) /\ Safe' \in {Safe, Len(Records(file))}
  BY SafeFacts DEF Safe
<1>2. Len(Records(file)) \in 0 .. Len(accepted)
  <2>1. Records(file) \in Seq(Producers)
    BY CellFacts
  <2> QED
    BY <2>1 DEF NothingMissing, IsPrefixOf, TypeOK
<1>3. Len(accepted) \in Nat
  BY DEF TypeOK
<1>4. CASE Safe' = Safe
  BY <1>4 DEF Safe, Promise!vars
<1>5. CASE Safe' = Len(Records(file)) /\ Safe' # Safe
  <2>1. Safe' \in (Safe + 1) .. Len(accepted)
    BY <1>1, <1>2, <1>3, <1>5
  <2> QED
    BY <2>1 DEF Safe, Promise!Persist
<1> QED
  BY <1>1, <1>4, <1>5

(* The shard implements the promise of a log, for any capacities, sync     *)
(* policy, torn shapes and faults: run() and Put append, syncs make        *)
(* entries safe, an entry that is not safe may be lost to the marshalling, *)
(* a crash cuts the log at its end and never into the safe ones.           *)
THEOREM WalImplementsDurableLog == Spec => ImplementsDurableLog
<1>1. Init => Promise!Init
  <2> SUFFICES ASSUME Init PROVE accepted = <<>> /\ Safe = 0
    BY DEF Promise!Init, Safe
  <2>1. SubSeq(<<>>, 1, 0) = <<>> /\ Len(<<>>) = 0
    OBVIOUS
  <2>2. file = <<>> /\ synced = 0 /\ accepted = <<>>
    BY DEF Init
  <2> QED
    BY <2>1, <2>2, RecordsEmpty, Zenon DEF Safe
<1>2. WalInv /\ WalInv' /\ [Next]_vars => [Promise!Next]_(Promise!vars)
  <2> SUFFICES ASSUME WalInv, WalInv', [Next]_vars
               PROVE  Promise!Next \/ UNCHANGED Promise!vars
    OBVIOUS
  <2> USE DEF WalInv
  <2>1. CASE UNCHANGED <<file, accepted>> /\ synced' \in {synced, Len(file)}
    BY <2>1, SyncSteps DEF Promise!Next
  <2>2. CASE UNCHANGED <<file, synced>> /\ \E e \in Producers : accepted' = Append(accepted, e)
    BY <2>2 DEF Promise!Next, Promise!Append1
  <2>3. CASE FlushWrite
    <3>1. /\ UNCHANGED <<synced, accepted>>
          /\ \E t \in Seq(Cells) : file' = file \o t
      BY <2>3, FileAppended DEF FlushWrite
    <3>2. PICK t \in Seq(Cells) : file' = file \o t
      BY <3>1
    <3>3. SubSeq(file \o t, 1, synced) = SubSeq(file, 1, synced)
      <4>1. file \in Seq(Cells) /\ synced \in 0 .. Len(file)
        BY CellFacts DEF TypeOK
      <4> QED
        BY <4>1
    <3> QED
      BY <3>1, <3>2, <3>3 DEF Promise!vars
  <2>4. CASE Kill \/ PowerLoss \/ SendOnClosed
    <3>1. PICK f, n : Crashed(f, n)
      BY <2>4, CrashStep
    <3>2. file' = f /\ synced' = n /\ accepted' = Records(f)
      BY <3>1 DEF Crashed, Die
    <3>3. Records(f) \in Seq(Producers) /\ accepted \in Seq(Producers)
      BY <3>1, RecordsFacts DEF Crashed, TypeOK
    <3>4. f \in Seq(Cells) /\ n \in 0 .. Len(f) /\ Len(f) \in 0 .. Len(f)
      BY <3>1 DEF Crashed
    <3>5. /\ Records(SubSeq(file, 1, synced)) \in Seq(Producers)
          /\ Records(SubSeq(f, 1, n)) \in Seq(Producers)
          /\ IsPrefixOf(Records(SubSeq(f, 1, n)), Records(f))
      <4>1. SubSeq(f, 1, n) \in Seq(Cells) /\ SubSeq(f, 1, Len(f)) = f
        BY <3>4, RecordsPrefix, SubSeqFull
      <4>2. IsPrefixOf(Records(SubSeq(f, 1, n)), Records(f))
        BY <3>4, <4>1, RecordsPrefix
      <4> QED
        BY <4>1, <4>2, SafeFacts, RecordsFacts
    <3>6. Safe <= Safe' /\ Safe \in Nat
      BY <3>1, <3>2, <3>5 DEF Safe, Crashed, IsPrefixOf
    <3>7. Safe' <= Len(Records(f)) /\ Safe' \in Nat
      BY <3>2, <3>5 DEF Safe, IsPrefixOf
    <3>8. Len(Records(f)) \in 0 .. Len(accepted) /\ Len(accepted) \in Nat
      BY <3>1, <3>3 DEF Crashed, IsPrefixOf
    <3>9. accepted' = SubSeq(accepted, 1, Len(Records(f)))
      BY <3>1, <3>2, <3>3, PrefixFacts DEF Crashed
    <3> DEFINE k == Len(Records(f))
    <3>10. k \in Safe .. Len(accepted) /\ Safe' \in Safe .. k
      BY <3>6, <3>7, <3>8
    <3> HIDE DEF k
    <3>11. \E j \in Safe .. Len(accepted) : accepted' = SubSeq(accepted, 1, j) /\ Safe' \in Safe .. j
      BY <3>9, <3>10 DEF k
    <3> QED
      BY <3>11 DEF Promise!Next, Promise!Crash, Safe
  <2>5. CASE SelectEntry \/ DrainEntry
    <3>1. \/ UNCHANGED accepted
          \/ waiters # <<>> /\ accepted' = Append(accepted, Head(waiters))
          \/ ch # <<>> /\ accepted' = RemoveAt(accepted, HeadAt)
          \/ ch # <<>> /\ waiters # <<>>
             /\ accepted' = Append(RemoveAt(accepted, HeadAt), Head(waiters))
      BY <2>5 DEF SelectEntry, DrainEntry, Take, Receive
    <3>2. waiters # <<>> => Head(waiters) \in Producers
      <4>1. waiters \in Seq(Producers)
        BY DEF TypeOK
      <4> QED
        BY <4>1
    <3>3. UNCHANGED <<file, synced>>
      BY <2>5 DEF SelectEntry, DrainEntry, disk
    <3>4. ch # <<>> => HeadAt \in (Safe + 1) .. Len(accepted)
      <4>1. TypeOK /\ NothingMissing
        OBVIOUS
      <4>2. ch \in Seq(Producers) /\ Len(ch) \in Nat /\ Len(accepted) \in Nat
        <5>1. ch \in Seq(Producers) /\ accepted \in Seq(Producers)
          BY <4>1 DEF TypeOK
        <5> QED
          BY <5>1
      <4>3. Len(Records(file)) \in Nat
        <5>1. Records(file) \in Seq(Producers)
          BY <4>1, CellFacts
        <5> QED
          BY <5>1
      <4>4. Safe \in 0 .. Len(Records(file))
        BY <4>1, SafeFacts
      <4>5. Len(Records(file)) + Len(ch) <= Len(accepted)
        BY <4>1 DEF NothingMissing
      <4>6. ch # <<>> => Len(ch) >= 1
        BY <4>2
      <4> QED
        BY <4>2, <4>3, <4>4, <4>5, <4>6 DEF HeadAt
    <3>5. Safe' = Safe
      BY <3>3 DEF Safe
    <3>6. ASSUME NEW i \in (Safe + 1) .. Len(accepted),
                 \/ accepted' = RemoveAt(accepted, i)
                 \/ \E e \in Producers : accepted' = Append(RemoveAt(accepted, i), e)
          PROVE  Promise!Next
      <4>1. Promise!GiveUp
        BY <3>5, <3>6 DEF Promise!GiveUp, Promise!Without, RemoveAt, Safe
      <4> QED
        BY <4>1 DEF Promise!Next
    <3> QED
      BY <2>1, <2>2, <3>1, <3>2, <3>3, <3>4, <3>6
  <2> QED
    BY <2>1, <2>2, <2>3, <2>4, <2>5 DEF Next, Loop, PutCheck, Enqueue, GiveUp, SelectDeadline,
       DrainEnd, KeepBatching, FlushNothing, FlushSync, CloseFile, DeadlinePasses, CloseChannel,
       FileSync, Restart, vars, disk
<1> QED
  BY <1>1, <1>2, WalInvHolds, PTL DEF Spec, ImplementsDurableLog, Promise!Spec
=============================================================================
