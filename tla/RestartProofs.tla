----------------------------- MODULE RestartProofs -----------------------------
(***************************************************************************)
(* Proofs about Restart, for any keys, hashes and shard counts.            *)
(***************************************************************************)
EXTENDS Restart, RingProofs

(* The ring of a process has the hashes of its shards.                     *)
LEMMA RingFacts ==
    ASSUME NEW count \in Counts
    PROVE  /\ DOMAIN RingOf(count) = {Hash[s] : s \in 0 .. count - 1}
           /\ DOMAIN RingOf(count) \in SUBSET Nat
           /\ DOMAIN RingOf(count) # {}
           /\ \A s \in 0 .. count - 1 : RingOf(count)[Hash[s]] = s
<1>1. count \in Nat \ {0} /\ 0 .. count - 1 \subseteq ShardIds
  BY RestartAssumption DEF ShardIds
<1>2. DOMAIN RingOf(count) = {Hash[s] : s \in 0 .. count - 1}
  BY DEF RingOf
<1>3. \A s \in 0 .. count - 1 : Hash[s] \in Nat
  BY <1>1, RestartAssumption
<1>4. 0 \in 0 .. count - 1
  BY <1>1
<1>5. ASSUME NEW s \in 0 .. count - 1 PROVE RingOf(count)[Hash[s]] = s
  <2>1. \A t \in 0 .. count - 1 : Hash[t] = Hash[s] => t = s
    BY <1>1, RestartAssumption
  <2>2. RingOf(count)[Hash[s]] = CHOOSE t \in 0 .. count - 1 : Hash[t] = Hash[s]
    BY DEF RingOf
  <2> QED
    BY <2>1, <2>2
<1> QED
  BY <1>2, <1>3, <1>4, <1>5

(* A key whose shard of the larger count is one of the smaller count has   *)
(* that shard under both.                                                  *)
LEMMA FewerShards ==
    ASSUME NEW few \in Counts, NEW many \in Counts, few <= many, NEW k \in Keys
    PROVE  \/ GetShardByKey(many, k) = GetShardByKey(few, k)
           \/ GetShardByKey(many, k) \in few .. many - 1
<1>0. Hash[k] \in Nat /\ few \in Nat \ {0} /\ many \in Nat \ {0}
  BY RestartAssumption
<1>1. 0 .. few - 1 \subseteq 0 .. many - 1
  BY <1>0
<1>2. PICK ring : ring = RingOf(few)
  OBVIOUS
<1>3. PICK larger : larger = RingOf(many)
  OBVIOUS
<1>4. /\ DOMAIN ring = {Hash[s] : s \in 0 .. few - 1} /\ DOMAIN ring # {}
      /\ \A s \in 0 .. few - 1 : ring[Hash[s]] = s
  BY <1>2, RingFacts
<1>5. /\ DOMAIN larger = {Hash[s] : s \in 0 .. many - 1} /\ DOMAIN larger \in SUBSET Nat
      /\ \A s \in 0 .. many - 1 : larger[Hash[s]] = s
  BY <1>3, RingFacts
<1>6. DOMAIN ring \subseteq DOMAIN larger /\ \A h \in DOMAIN ring : larger[h] = ring[h]
  BY <1>1, <1>4, <1>5
<1>7. \/ GetNode(larger, Hash[k]) = GetNode(ring, Hash[k])
      \/ \E h \in DOMAIN larger \ DOMAIN ring : GetNode(larger, Hash[k]) = larger[h]
  BY <1>0, <1>4, <1>5, <1>6, GrowRing
<1>8. ASSUME NEW h \in DOMAIN larger \ DOMAIN ring PROVE larger[h] \in few .. many - 1
  <2>1. PICK s \in 0 .. many - 1 : h = Hash[s]
    BY <1>5
  <2>2. s \notin 0 .. few - 1
    BY <1>4, <2>1
  <2> QED
    BY <1>0, <1>5, <2>1, <2>2
<1> QED
  BY <1>2, <1>3, <1>7, <1>8 DEF GetShardByKey

CountInv == n \in Counts

LEMMA CountsStay == CountInv /\ [Next]_vars => CountInv'
  BY DEF CountInv, Next, vars, SetKey, DeleteKey, ExpireKey, GetKey, TtlKey, Tick, Stop, Start, RecoverShard

(* GetShardByKey under a changed shard count: keys move only to shards     *)
(* that are new, and only from shards that are gone.                       *)
THEOREM GrowthTheorem == Spec => GrowthMovesOnlyToNew
<1>1. Init => CountInv
  BY DEF Init, CountInv
<1>2. CountInv /\ CountInv' => KeysMove
  BY FewerShards, RestartAssumption DEF KeysMove, CountInv
<1>3. CountInv /\ [Next]_vars => [KeysMove]_vars
  BY <1>2, CountsStay
<1> QED
  BY <1>1, <1>3, CountsStay, PTL DEF Spec, GrowthMovesOnlyToNew

-----------------------------------------------------------------------------
(* Induction without a predicate: a set that has 0 and, with a number      *)
(* below N, the next one, has all numbers up to N.                         *)
LEMMA UpTo ==
    ASSUME NEW N \in Nat, NEW S, 0 \in S, \A i \in 0 .. N - 1 : i \in S => i + 1 \in S
    PROVE  \A i \in 0 .. N : i \in S
<1> DEFINE Bad == {i \in 0 .. N : i \notin S}
<1> SUFFICES ASSUME Bad # {} PROVE FALSE
  OBVIOUS
<1>1. Bad \in SUBSET Nat
  OBVIOUS
<1>2. PICK i \in Bad : \A j \in Bad : i <= j
  BY <1>1, LeastExists
<1>3. i # 0 /\ i - 1 \in 0 .. N - 1 /\ i - 1 \in S
  BY <1>2
<1> QED
  BY <1>2, <1>3

(* Durations and deadlines are 64-bit integers.                            *)
LEMMA Remainder ==
    ASSUME NEW a \in Int, NEW b \in Nat, b > 0
    PROVE  a % b \in 0 .. b - 1
  OBVIOUS

LEMMA WrapFacts == \A x \in Int : Wrap(x) \in Deadlines
<1> SUFFICES ASSUME NEW x \in Int PROVE Wrap(x) \in Deadlines
  OBVIOUS
<1>1. PICK b \in Nat : b = 2 * (IntMax + 1) /\ b > 0
  BY RestartAssumption
<1>2. PICK a \in Int : a = x + IntMax + 1
  BY RestartAssumption
<1>3. a % b \in 0 .. b - 1
  BY <1>1, Remainder
<1> QED
  BY <1>1, <1>2, <1>3, RestartAssumption DEF Wrap, Deadlines

LEMMA DeadlineFacts ==
    /\ Deadlines \subseteq Int /\ 0 \in Deadlines
    /\ \A d \in Durations : Seconds(d) \in Deadlines
    /\ \A x \in Deadlines, t \in Nat : Wrap(t + x) \in Deadlines
<1>1. Deadlines \subseteq Int /\ 0 \in Deadlines
  BY RestartAssumption DEF Deadlines
<1>2. ASSUME NEW d \in Durations PROVE Seconds(d) \in Deadlines
  <2>1. d.num * (CASE d.unit = "s" -> 1 [] d.unit = "m" -> 60) \in Int
    BY RestartAssumption
  <2> QED
    BY <2>1, WrapFacts DEF Seconds
<1> QED
  BY <1>1, <1>2, WrapFacts

LEMMA ObjectFacts ==
    /\ NoObj \in Objects /\ NoObj.val = Nothing /\ NoObj.dl = 0
    /\ \A v \in Texts, dl \in Deadlines :
          [val |-> v, dl |-> dl] \in Objects /\ [val |-> v, dl |-> dl] # NoObj
    /\ \A o \in Objects : o # NoObj => o.val \in Texts /\ o.val # Nothing
    /\ \A o \in Objects : o.dl \in Deadlines /\ o.val \in Texts \cup {Nothing}
    /\ \A o \in Objects, dl \in Deadlines :
          o # NoObj => [o EXCEPT !.dl = dl] = [val |-> o.val, dl |-> dl]
  BY RestartAssumption, DeadlineFacts DEF Objects, NoObj

-----------------------------------------------------------------------------
(* What the replay of a file leaves.                                       *)
Memories == [Keys -> Objects]
Files == Seq(LogEntries)

(* What an entry brings, whatever was there before.                        *)
Brings(e) ==
    IF e.val = Nothing THEN NoObj
    ELSE [val |-> e.val, dl |-> IF e.dl - now > 0 THEN e.dl ELSE 0]

LEMMA ReplayFacts ==
    ASSUME NEW m \in Memories, NEW e \in LogEntries
    PROVE  /\ e.key \in Keys /\ Brings(e) \in Objects
           /\ Replay(m, e) \in Memories
           /\ Replay(m, e)[e.key] = Brings(e)
           /\ \A k \in Keys : k # e.key => Replay(m, e)[k] = m[k]
<1>1. e.key \in Keys /\ e.val \in Texts \cup {Nothing} /\ e.dl \in Deadlines
  BY DEF LogEntries
<1>2. Brings(e) \in Objects
  BY <1>1, ObjectFacts, DeadlineFacts DEF Brings
<1>3. Replay(m, e) = [m EXCEPT ![e.key] = Brings(e)]
  BY DEF Replay, Brings
<1> QED
  BY <1>1, <1>2, <1>3 DEF Memories

(* u lists the memories while f is replayed into m: u[i] after i entries.  *)
Plays(m, f, u) ==
    u = [i \in 0 .. Len(f) |-> IF i = 0 THEN m ELSE Replay(u[i - 1], f[i])]

LEMMA PlaysExists ==
    ASSUME NEW m \in Memories, NEW f \in Files
    PROVE  \E u : Plays(m, f, u)
<1> DEFINE Steps(i, u) == u[0] = m /\ \A j \in 1 .. i : u[j] = Replay(u[j - 1], f[j])
           Reach == {i \in Nat : \E u \in [0 .. i -> Memories] : Steps(i, u)}
<1>0. Len(f) \in Nat
  BY DEF Files
<1>1. 0 \in Reach
  <2> DEFINE u == [i \in 0 .. 0 |-> m]
  <2>1. u \in [0 .. 0 -> Memories] /\ u[0] = m
    OBVIOUS
  <2>2. \A j \in 1 .. 0 : FALSE
    OBVIOUS
  <2> HIDE DEF u
  <2> QED
    BY <2>1, <2>2
<1>2. ASSUME NEW i \in 0 .. Len(f) - 1, i \in Reach PROVE i + 1 \in Reach
  <2>1. PICK u \in [0 .. i -> Memories] : Steps(i, u)
    BY <1>2
  <2>2. i \in Nat /\ u[i] \in Memories /\ f[i + 1] \in LogEntries
    BY <1>0, <2>1 DEF Files
  <2> DEFINE next == Replay(u[i], f[i + 1])
             w == [j \in 0 .. i + 1 |-> IF j = i + 1 THEN next ELSE u[j]]
  <2>3. next \in Memories
    BY <2>2, ReplayFacts
  <2> HIDE DEF next
  <2>4. w \in [0 .. i + 1 -> Memories] /\ w[0] = m
    BY <2>1, <2>2, <2>3
  <2>5. ASSUME NEW j \in 1 .. i + 1 PROVE w[j] = Replay(w[j - 1], f[j])
    <3>1. CASE j = i + 1
      <4>1. w[j] = next /\ w[j - 1] = u[i]
        BY <2>2, <3>1
      <4> QED
        BY <3>1, <4>1 DEF next
    <3>2. CASE j # i + 1
      <4>1. w[j] = u[j] /\ w[j - 1] = u[j - 1] /\ j \in 1 .. i
        BY <2>2, <3>2
      <4> HIDE DEF w
      <4> QED
        BY <2>1, <4>1
    <3> QED
      BY <3>1, <3>2
  <2> HIDE DEF w
  <2> QED
    BY <2>2, <2>4, <2>5
<1>3. Len(f) \in Reach
  <2> HIDE DEF Reach
  <2>1. \A i \in 0 .. Len(f) : i \in Reach
    BY <1>0, <1>1, <1>2, UpTo
  <2> QED
    BY <1>0, <2>1
<1>4. PICK u \in [0 .. Len(f) -> Memories] : Steps(Len(f), u)
  BY <1>3
<1> DEFINE w == [i \in 0 .. Len(f) |-> IF i = 0 THEN m ELSE Replay(u[i - 1], f[i])]
<1>5. u = w
  <2>1. ASSUME NEW i \in 0 .. Len(f) PROVE u[i] = w[i]
    <3>1. CASE i = 0
      BY <1>4, <3>1
    <3>2. CASE i # 0
      <4>1. i \in 1 .. Len(f)
        BY <1>0, <3>2
      <4>2. u[i] = Replay(u[i - 1], f[i])
        BY <1>4, <4>1
      <4> QED
        BY <3>2, <4>2
    <3> QED
      BY <3>1, <3>2
  <2>2. u = [i \in 0 .. Len(f) |-> u[i]] /\ w = [i \in 0 .. Len(f) |-> w[i]]
    OBVIOUS
  <2> HIDE DEF w
  <2> QED
    BY <2>1, <2>2
<1> QED
  BY <1>5 DEF Plays

(* After i entries a key has what its last entry brings, or what it had.   *)
Told(m, f, i, v) ==
    \A k \in Keys :
        \/ v[k] = m[k] /\ \A j \in 1 .. i : f[j].key # k
        \/ \E j \in 1 .. i : /\ f[j].key = k /\ v[k] = Brings(f[j])
                             /\ \A l \in j + 1 .. i : f[l].key # k

LEMMA ReplayedFacts ==
    ASSUME NEW m \in Memories, NEW f \in Files
    PROVE  Replayed(m, f) \in Memories /\ Told(m, f, Len(f), Replayed(m, f))
<1>0. Len(f) \in Nat
  BY DEF Files
<1>1. PICK u : Plays(m, f, u) /\ Replayed(m, f) = u[Len(f)]
  <2>1. \E u : Plays(m, f, u)
    BY PlaysExists
  <2> QED
    BY <2>1 DEF Plays, Replayed
<1> DEFINE Good == {i \in Nat : u[i] \in Memories /\ Told(m, f, i, u[i])}
<1>2. 0 \in Good
  <2>1. u[0] = m
    BY <1>0, <1>1 DEF Plays
  <2> QED
    BY <2>1 DEF Told
<1>3. ASSUME NEW i \in 0 .. Len(f) - 1, i \in Good PROVE i + 1 \in Good
  <2> DEFINE e == f[i + 1]
  <2>1. i \in Nat /\ e \in LogEntries /\ u[i] \in Memories /\ Told(m, f, i, u[i])
    BY <1>0, <1>3 DEF Files
  <2>2. u[i + 1] = Replay(u[i], e)
    <3>1. i + 1 \in 0 .. Len(f) /\ i + 1 # 0 /\ (i + 1) - 1 = i
      BY <1>0
    <3> QED
      BY <1>1, <3>1 DEF Plays
  <2>3. /\ u[i + 1] \in Memories /\ u[i + 1][e.key] = Brings(e)
        /\ \A k \in Keys : k # e.key => u[i + 1][k] = u[i][k]
    BY <2>1, <2>2, ReplayFacts
  <2>4. ASSUME NEW k \in Keys
        PROVE  \/ u[i + 1][k] = m[k] /\ \A j \in 1 .. i + 1 : f[j].key # k
               \/ \E j \in 1 .. i + 1 : /\ f[j].key = k /\ u[i + 1][k] = Brings(f[j])
                                        /\ \A l \in j + 1 .. i + 1 : f[l].key # k
    <3>1. CASE k = e.key
      <4>1. i + 1 \in 1 .. i + 1 /\ \A l \in (i + 1) + 1 .. i + 1 : FALSE
        BY <2>1
      <4> QED
        BY <2>3, <3>1, <4>1
    <3>2. CASE k # e.key
      <4>1. u[i + 1][k] = u[i][k]
        BY <2>3, <3>2
      <4>2. CASE u[i][k] = m[k] /\ \A j \in 1 .. i : f[j].key # k
        <5>1. \A j \in 1 .. i + 1 : j \in 1 .. i \/ j = i + 1
          BY <2>1
        <5> QED
          BY <3>2, <4>1, <4>2, <5>1
      <4>3. CASE \E j \in 1 .. i : /\ f[j].key = k /\ u[i][k] = Brings(f[j])
                                   /\ \A l \in j + 1 .. i : f[l].key # k
        <5>1. PICK j \in 1 .. i : /\ f[j].key = k /\ u[i][k] = Brings(f[j])
                                  /\ \A l \in j + 1 .. i : f[l].key # k
          BY <4>3
        <5>2. j \in 1 .. i + 1 /\ \A l \in j + 1 .. i + 1 : l \in j + 1 .. i \/ l = i + 1
          BY <2>1
        <5> QED
          BY <3>2, <4>1, <5>1, <5>2
      <4> QED
        BY <2>1, <4>2, <4>3 DEF Told
    <3> QED
      BY <3>1, <3>2
  <2>5. Told(m, f, i + 1, u[i + 1])
    BY <2>4 DEF Told
  <2> QED
    BY <2>1, <2>3, <2>5
<1>4. Len(f) \in Good
  <2> HIDE DEF Good
  <2>1. \A i \in 0 .. Len(f) : i \in Good
    BY <1>0, <1>2, <1>3, UpTo
  <2> QED
    BY <1>0, <2>1
<1> QED
  BY <1>1, <1>4

(* The last entry of a key in a file.                                      *)
IsLast(f, k, i) ==
    i \in DOMAIN f /\ f[i].key = k /\ \A j \in i + 1 .. Len(f) : f[j].key # k

LEMMA LastUnique ==
    ASSUME NEW f \in Files, NEW k, NEW i, IsLast(f, k, i)
    PROVE  LastAt(f, k) = i
<1>1. ASSUME NEW j, IsLast(f, k, j) PROVE j = i
  <2>1. i \in 1 .. Len(f) /\ j \in 1 .. Len(f) /\ Len(f) \in Nat
    BY <1>1 DEF IsLast, Files
  <2>2. ~(i < j) /\ ~(j < i)
    BY <1>1, <2>1 DEF IsLast
  <2> QED
    BY <2>1, <2>2
<1> QED
  BY <1>1 DEF LastAt, IsLast

LEMMA LastExists ==
    ASSUME NEW f \in Files, NEW k, \E i \in DOMAIN f : f[i].key = k
    PROVE  IsLast(f, k, LastAt(f, k))
<1> DEFINE behind == {Len(f) - i : i \in {j \in DOMAIN f : f[j].key = k}}
<1>0. Len(f) \in Nat /\ DOMAIN f = 1 .. Len(f)
  BY DEF Files
<1>1. behind \in SUBSET Nat /\ behind # {}
  BY <1>0
<1>2. PICK b \in behind : \A c \in behind : b <= c
  BY <1>1, LeastExists
<1>3. PICK i \in DOMAIN f : f[i].key = k /\ b = Len(f) - i
  BY <1>2
<1>4. ASSUME NEW j \in i + 1 .. Len(f), f[j].key = k PROVE FALSE
  <2>1. j \in DOMAIN f /\ Len(f) - j \in behind
    BY <1>0, <1>3, <1>4
  <2>2. Len(f) - i <= Len(f) - j
    BY <1>2, <1>3, <2>1, Zenon
  <2>3. i \in 1 .. Len(f) /\ j \in i + 1 .. Len(f)
    BY <1>0
  <2> QED
    BY <1>0, <2>2, <2>3
<1>5. IsLast(f, k, i)
  BY <1>3, <1>4 DEF IsLast
<1> QED
  BY <1>5, LastUnique

(* g is f with e put at its end, seen by key: e is the last entry of its   *)
(* key, and the other keys keep theirs.                                    *)
Speaks(f, k) == \E i \in DOMAIN f : f[i].key = k
Extends(f, e, g) ==
    /\ g \in Files
    /\ Speaks(g, e.key) /\ g[LastAt(g, e.key)] = e
    /\ \A k \in Keys : k # e.key =>
          /\ Speaks(g, k) <=> Speaks(f, k)
          /\ Speaks(f, k) => g[LastAt(g, k)] = f[LastAt(f, k)]

LEMMA LastAppend ==
    ASSUME NEW f \in Files, NEW e \in LogEntries
    PROVE  Extends(f, e, Append(f, e))
<1>0. PICK g : g = Append(f, e)
  OBVIOUS
<1>1. /\ g \in Files /\ Len(f) \in Nat /\ Len(g) = Len(f) + 1
      /\ DOMAIN f = 1 .. Len(f) /\ DOMAIN g = 1 .. Len(f) + 1
      /\ g[Len(f) + 1] = e /\ \A i \in 1 .. Len(f) : g[i] = f[i]
  BY <1>0 DEF Files
<1>2. IsLast(g, e.key, Len(f) + 1)
  BY <1>1 DEF IsLast
<1>3. LastAt(g, e.key) = Len(f) + 1
  BY <1>1, <1>2, LastUnique
<1>4. ASSUME NEW k \in Keys, k # e.key
      PROVE  /\ (\E i \in DOMAIN g : g[i].key = k) <=> (\E i \in DOMAIN f : f[i].key = k)
             /\ (\E i \in DOMAIN f : f[i].key = k) => g[LastAt(g, k)] = f[LastAt(f, k)]
  <2>1. (\E i \in DOMAIN g : g[i].key = k) <=> (\E i \in DOMAIN f : f[i].key = k)
    BY <1>1, <1>4
  <2>2. ASSUME \E i \in DOMAIN f : f[i].key = k PROVE g[LastAt(g, k)] = f[LastAt(f, k)]
    <3> DEFINE i == LastAt(f, k)
    <3>1. IsLast(f, k, i)
      BY <2>2, LastExists
    <3> HIDE DEF i
    <3>2. IsLast(g, k, i)
      BY <1>1, <1>4, <3>1 DEF IsLast
    <3>3. LastAt(g, k) = i /\ i \in 1 .. Len(f)
      BY <1>1, <3>1, <3>2, LastUnique DEF IsLast
    <3> QED
      BY <1>1, <3>3 DEF i
  <2> QED
    BY <2>1, <2>2
<1>5. Len(f) + 1 \in DOMAIN g /\ g[LastAt(g, e.key)] = e
  BY <1>1, <1>3
<1>6. \E i \in DOMAIN g : g[i].key = e.key
  BY <1>1, <1>5
<1> QED
  BY <1>0, <1>1, <1>4, <1>5, <1>6, Zenon DEF Extends, Speaks

-----------------------------------------------------------------------------
(* The inductive invariant: while files are replayed, the memory is what   *)
(* those replayed so far say.                                              *)

(* The files that say anything of k and have been replayed.                *)
Read(k) == FilesOf(k) \cap ((0 .. n - 1) \ todo)

AsLogged(k) ==
    IF Read(k) = {} THEN mem[k] = NoObj ELSE \E s \in Read(k) : Agrees(mem[k], LastIn(s, k))

(* A deletion is logged without a deadline.                                *)
DeletionsAreBare ==
    \A s \in ShardIds : \A i \in DOMAIN files[s] : files[s][i].val = Nothing => files[s][i].dl = 0

RestartInv ==
    /\ TypeOK /\ DeletionsAreBare
    /\ todo \subseteq 0 .. n - 1
    /\ ~up => todo = {} /\ \A k \in Keys : mem[k] = NoObj
    /\ up => \A k \in Keys \ skipped : AsLogged(k)

LEMMA ShardFacts ==
    ASSUME NEW count \in Counts
    PROVE  /\ count \in Nat \ {0} /\ 0 .. count - 1 \subseteq ShardIds
           /\ \A k \in Keys : GetShardByKey(count, k) \in 0 .. count - 1
<1>1. count \in Nat \ {0} /\ 0 .. count - 1 \subseteq ShardIds
  BY RestartAssumption DEF ShardIds
<1>2. ASSUME NEW k \in Keys PROVE GetShardByKey(count, k) \in 0 .. count - 1
  <2>1. PICK ring : ring = RingOf(count)
    OBVIOUS
  <2>2. /\ DOMAIN ring = {Hash[s] : s \in 0 .. count - 1}
        /\ DOMAIN ring \in SUBSET Nat /\ DOMAIN ring # {}
        /\ \A s \in 0 .. count - 1 : ring[Hash[s]] = s
    BY <2>1, RingFacts
  <2>3. PICK h \in DOMAIN ring : GetNode(ring, Hash[k]) = ring[h]
    BY <2>2, RestartAssumption, EveryKeyHasANode
  <2> QED
    BY <2>1, <2>2, <2>3 DEF GetShardByKey
<1> QED
  BY <1>1, <1>2

(* A command that changes a key and logs what it makes of it.              *)
LEMMA PutStep ==
    ASSUME RestartInv, Serving, NEW k \in Keys, NEW obj \in Objects, Put(k, obj),
           mem' = [mem EXCEPT ![k] = obj], skipped' \in {skipped, skipped \ {k}},
           UNCHANGED <<n, up, todo, now, restarts>>
    PROVE  RestartInv' /\ files' # files
<1>0. TypeOK /\ DeletionsAreBare /\ up /\ todo = {}
  BY DEF RestartInv, Serving
<1>1. PICK e : e = [key |-> k, val |-> obj.val, dl |-> obj.dl]
  OBVIOUS
<1>2. PICK home : home = GetShardByKey(n, k)
  OBVIOUS
<1>3. e \in LogEntries /\ e.key = k /\ e.val = obj.val /\ e.dl = obj.dl
  BY <1>1, ObjectFacts DEF LogEntries
<1>4. home \in 0 .. n - 1 /\ home \in ShardIds
  BY <1>0, <1>2, ShardFacts DEF TypeOK
<1>5. files' = [files EXCEPT ![home] = Append(files[home], e)]
  BY <1>1, <1>2 DEF Put
<1>6. obj.val = Nothing => obj.dl = 0
  BY ObjectFacts
<1>7. /\ files[home] \in Files /\ files'[home] = Append(files[home], e)
      /\ \A s \in ShardIds : s # home => files'[s] = files[s]
  BY <1>0, <1>4, <1>5 DEF TypeOK, Files
<1>8. Extends(files[home], e, files'[home])
  BY <1>3, <1>7, LastAppend
<1>9. TypeOK'
  <2>1. files' \in [ShardIds -> Seq(LogEntries)]
    BY <1>0, <1>4, <1>5, <1>7, <1>8 DEF TypeOK, Files, Extends
  <2>2. mem' \in [Keys -> Objects]
    BY <1>0 DEF TypeOK
  <2> QED
    BY <1>0, <2>1, <2>2 DEF TypeOK
<1>10. DeletionsAreBare'
  <2>1. ASSUME NEW s \in ShardIds, NEW i \in DOMAIN files'[s], files'[s][i].val = Nothing
        PROVE  files'[s][i].dl = 0
    <3>1. CASE s # home
      BY <1>0, <1>7, <2>1, <3>1 DEF DeletionsAreBare
    <3>2. CASE s = home
      <4>1. i \in 1 .. Len(files[home]) + 1 /\ Len(files[home]) \in Nat
        BY <1>7, <2>1, <3>2 DEF Files
      <4>2. CASE i = Len(files[home]) + 1
        <5>1. files'[s][i] = e
          BY <1>7, <3>2, <4>1, <4>2 DEF Files
        <5> QED
          BY <1>3, <1>6, <2>1, <5>1
      <4>3. CASE i # Len(files[home]) + 1
        <5>1. i \in DOMAIN files[home] /\ files'[s][i] = files[home][i]
          BY <1>3, <1>7, <3>2, <4>1, <4>3 DEF Files
        <5> QED
          BY <1>0, <1>4, <2>1, <5>1 DEF DeletionsAreBare
      <4> QED
        BY <4>2, <4>3
    <3> QED
      BY <3>1, <3>2
  <2> QED
    BY <2>1 DEF DeletionsAreBare
<1>11. AsLogged(k)'
  <2>1. home \in Read(k)'
    BY <1>0, <1>3, <1>4, <1>8 DEF Read, FilesOf, Extends, Speaks
  <2>2. LastIn(home, k)' = e
    BY <1>3, <1>8 DEF LastIn, Extends
  <2>3. mem'[k] = obj
    BY <1>0 DEF TypeOK
  <2>4. mem'[k].val = LastIn(home, k)'.val /\ mem'[k].dl = LastIn(home, k)'.dl
    BY <1>3, <2>2, <2>3
  <2>5. Agrees(mem[k], LastIn(home, k))'
    BY <2>4 DEF Agrees
  <2>6. Read(k)' # {} /\ \E s \in Read(k)' : Agrees(mem[k], LastIn(s, k))'
    BY <2>1, <2>5, Zenon
  <2> QED
    BY <2>6 DEF AsLogged
<1>12. ASSUME NEW j \in Keys, j # k, AsLogged(j) PROVE AsLogged(j)'
  <2>1. mem'[j] = mem[j]
    BY <1>0, <1>12 DEF TypeOK
  <2>2. ASSUME NEW s \in ShardIds
        PROVE  /\ Speaks(files'[s], j) <=> Speaks(files[s], j)
               /\ Speaks(files[s], j) => LastIn(s, j)' = LastIn(s, j)
    <3>1. CASE s = home
      BY <1>3, <1>8, <1>12, <3>1 DEF LastIn, Extends
    <3>2. CASE s # home
      BY <1>7, <3>2 DEF LastIn
    <3> QED
      BY <3>1, <3>2
  <2>3. Read(j)' = Read(j)
    BY <1>0, <2>2 DEF Read, FilesOf, Speaks
  <2>4. \A s \in Read(j) : LastIn(s, j)' = LastIn(s, j)
    BY <1>0, <2>2 DEF Read, FilesOf, Speaks
  <2> QED
    BY <1>12, <2>1, <2>3, <2>4 DEF AsLogged, Agrees
<1>13. files' # files
  <2>1. Append(files[home], e) # files[home]
    BY <1>3, <1>7 DEF Files
  <2> QED
    BY <1>7, <2>1
<1>14. \A j \in Keys \ skipped' : AsLogged(j)'
  BY <1>0, <1>11, <1>12 DEF RestartInv
<1> QED
  BY <1>0, <1>9, <1>10, <1>13, <1>14 DEF RestartInv

(* A command that finds the deadline of a key reached drops the key, and   *)
(* logs nothing: the log has that deadline too.                            *)
Drop(k) ==
    /\ mem[k].dl # 0 /\ mem[k].dl <= now
    /\ mem' = [mem EXCEPT ![k] = NoObj]
    /\ UNCHANGED <<n, up, todo, files, now, skipped, restarts>>

LEMMA DropStep ==
    ASSUME RestartInv, up, NEW k \in Keys, Drop(k)
    PROVE  RestartInv'
<1>0. TypeOK /\ DeletionsAreBare
  BY DEF RestartInv
<1>1. mem' \in [Keys -> Objects] /\ mem'[k] = NoObj /\ \A j \in Keys : j # k => mem'[j] = mem[j]
  BY <1>0, ObjectFacts DEF TypeOK, Drop
<1>2. TypeOK' /\ DeletionsAreBare'
  BY <1>0, <1>1 DEF TypeOK, DeletionsAreBare, Drop
<1>3. ASSUME NEW j \in Keys, AsLogged(j) PROVE AsLogged(j)'
  <2>1. Read(j)' = Read(j) /\ \A s \in Read(j) : LastIn(s, j)' = LastIn(s, j)
    BY DEF Read, FilesOf, LastIn, Drop
  <2>2. CASE j # k
    BY <1>1, <1>3, <2>1, <2>2 DEF AsLogged, Agrees, Drop
  <2>3. CASE j = k
    <3>1. mem[k] # NoObj
      BY ObjectFacts DEF Drop
    <3>2. PICK s \in Read(k) : Agrees(mem[k], LastIn(s, k))
      BY <1>3, <2>3, <3>1 DEF AsLogged
    <3>3. LastIn(s, k).dl = mem[k].dl
      BY <3>1, <3>2 DEF Agrees, Drop
    <3>4. Agrees(mem[k], LastIn(s, k))'
      BY <1>1, <2>1, <2>3, <3>2, <3>3 DEF Agrees, Drop
    <3>5. Read(k)' # {} /\ \E t \in Read(k)' : Agrees(mem[k], LastIn(t, k))'
      BY <2>1, <2>3, <3>2, <3>4, Zenon
    <3> QED
      BY <2>3, <3>5 DEF AsLogged
  <2> QED
    BY <2>2, <2>3
<1> QED
  BY <1>0, <1>2, <1>3 DEF RestartInv, Drop

(* Each command logs what it does, or drops a key.                         *)
LEMMA CommandStep ==
    ASSUME RestartInv, NEW k \in Keys,
           \/ \E v \in Texts : SetKey(k, v)
           \/ DeleteKey(k)
           \/ \E d \in Durations : ExpireKey(k, d)
           \/ GetKey(k) \/ TtlKey(k)
    PROVE  RestartInv' /\ (files' # files \/ Drop(k))
<1>0. mem \in [Keys -> Objects] /\ now \in Nat
  BY DEF RestartInv, TypeOK
<1>1. ASSUME NEW v \in Texts, SetKey(k, v) PROVE RestartInv' /\ files' # files
  <2>1. PICK obj \in Objects : obj = [val |-> v, dl |-> 0]
    BY ObjectFacts, DeadlineFacts
  <2> QED
    BY <1>1, <2>1, PutStep DEF SetKey, Room
<1>2. ASSUME DeleteKey(k) PROVE RestartInv' /\ files' # files
  <2>1. NoObj \in Objects
    BY ObjectFacts
  <2> QED
    BY <1>2, <2>1, PutStep DEF DeleteKey, Room
<1>3. ASSUME NEW d \in Durations, ExpireKey(k, d) PROVE RestartInv' /\ (files' # files \/ Drop(k))
  <2>1. CASE mem[k].dl > 0 /\ now >= mem[k].dl
    <3>1. mem[k].dl \in Int
      BY <1>0, ObjectFacts, DeadlineFacts
    <3>2. Drop(k)
      BY <1>0, <1>3, <2>1, <3>1 DEF ExpireKey, Drop
    <3>3. up
      BY <1>3 DEF ExpireKey, Room, Serving
    <3> QED
      BY <3>2, <3>3, DropStep
  <2>2. CASE ~(mem[k].dl > 0 /\ now >= mem[k].dl)
    <3>1. PICK ttl \in Deadlines : ttl = Seconds(d)
      BY DeadlineFacts
    <3>2. PICK dl \in Deadlines : dl = IF ttl > 0 THEN Wrap(now + ttl) ELSE 0
      BY <1>0, DeadlineFacts
    <3>3. mem[k] \in Objects /\ mem[k] # NoObj
      BY <1>0, <1>3 DEF ExpireKey
    <3>4. PICK obj \in Objects : obj = [mem[k] EXCEPT !.dl = dl]
      <4>1. PICK o \in Objects : o = mem[k]
        BY <3>3
      <4>2. [o EXCEPT !.dl = dl] = [val |-> o.val, dl |-> dl] /\ o.val \in Texts
        BY <3>3, <4>1, ObjectFacts, Zenon
      <4>3. [o EXCEPT !.dl = dl] \in Objects
        BY <4>2, ObjectFacts, Zenon
      <4> QED
        BY <4>1, <4>3
    <3>5. mem' = [mem EXCEPT ![k] = obj] /\ Put(k, obj)
      BY <1>3, <2>2, <3>1, <3>2, <3>4 DEF ExpireKey
    <3> QED
      BY <1>3, <3>5, PutStep DEF ExpireKey, Room
  <2> QED
    BY <2>1, <2>2
<1>4. ASSUME GetKey(k) \/ TtlKey(k) PROVE RestartInv' /\ Drop(k)
  <2>1. mem[k].dl \in Int
    BY <1>0, ObjectFacts, DeadlineFacts
  <2>2. Drop(k)
    BY <1>0, <1>4, <2>1 DEF GetKey, TtlKey, Expired, Drop
  <2>3. up
    BY <1>4 DEF GetKey, TtlKey, Serving
  <2> QED
    BY <2>2, <2>3, DropStep
<1> QED
  BY <1>1, <1>2, <1>3, <1>4

(* Time only makes more deadlines pass.                                    *)
LEMMA TickStep ==
    ASSUME RestartInv, Tick
    PROVE  RestartInv'
<1>0. TypeOK /\ DeletionsAreBare
  BY DEF RestartInv
<1>1. TypeOK' /\ DeletionsAreBare'
  BY <1>0 DEF TypeOK, DeletionsAreBare, Tick
<1>2. ASSUME NEW k \in Keys, AsLogged(k) PROVE AsLogged(k)'
  <2>1. Read(k)' = Read(k)
    BY DEF Read, FilesOf, Tick
  <2>2. ASSUME NEW s \in Read(k), Agrees(mem[k], LastIn(s, k))
        PROVE  Agrees(mem[k], LastIn(s, k))'
    <3>1. PICK f \in Files : f = files[s]
      BY <1>0 DEF TypeOK, Read, FilesOf, Files
    <3>2. IsLast(f, k, LastAt(f, k))
      BY <3>1, LastExists DEF Read, FilesOf
    <3>3. LastIn(s, k) \in LogEntries
      BY <3>1, <3>2 DEF IsLast, Files, LastIn
    <3>4. LastIn(s, k).dl \in Int /\ now \in Nat /\ now' = now + 1
      BY <1>0, <3>3, DeadlineFacts DEF LogEntries, TypeOK, Tick
    <3>5. LastIn(s, k)' = LastIn(s, k) /\ mem' = mem
      BY DEF LastIn, Tick
    <3> QED
      BY <2>2, <3>4, <3>5 DEF Agrees
  <2> QED
    BY <1>2, <2>1, <2>2 DEF AsLogged, Tick
<1> QED
  BY <1>0, <1>1, <1>2 DEF RestartInv, Tick

(* A file that is replayed makes the memory agree with it.                 *)
LEMMA RecoverStep ==
    ASSUME RestartInv, NEW s \in ShardIds, RecoverShard(s)
    PROVE  RestartInv'
<1>0. TypeOK /\ DeletionsAreBare /\ up /\ s \in 0 .. n - 1 /\ s \in todo
  BY DEF RestartInv, RecoverShard
<1>1. PICK f \in Files : f = files[s]
  BY <1>0 DEF TypeOK, Files
<1>2. PICK m \in Memories : m = mem
  BY <1>0 DEF TypeOK, Memories
<1>3. mem' \in Memories /\ Told(m, f, Len(f), mem')
  BY <1>1, <1>2, ReplayedFacts DEF RecoverShard
<1>4. TypeOK' /\ DeletionsAreBare'
  BY <1>0, <1>3 DEF TypeOK, DeletionsAreBare, RecoverShard, Memories
<1>5. ASSUME NEW k \in Keys, AsLogged(k) PROVE AsLogged(k)'
  <2>0. \A t : LastIn(t, k)' = LastIn(t, k)
    BY DEF LastIn, RecoverShard
  <2>1. CASE mem'[k] = m[k] /\ \A j \in 1 .. Len(f) : f[j].key # k
    <3>1. s \notin FilesOf(k)
      BY <1>1, <2>1 DEF FilesOf, Files
    <3>2. Read(k)' = Read(k)
      BY <3>1 DEF Read, FilesOf, RecoverShard
    <3> QED
      BY <1>2, <1>5, <2>0, <2>1, <3>2 DEF AsLogged, Agrees, RecoverShard
  <2>2. CASE \E j \in 1 .. Len(f) : /\ f[j].key = k /\ mem'[k] = Brings(f[j])
                                    /\ \A l \in j + 1 .. Len(f) : f[l].key # k
    <3>1. PICK j \in 1 .. Len(f) : /\ f[j].key = k /\ mem'[k] = Brings(f[j])
                                   /\ \A l \in j + 1 .. Len(f) : f[l].key # k
      BY <2>2
    <3>2. IsLast(f, k, j)
      BY <3>1 DEF IsLast, Files
    <3>3. LastIn(s, k) = f[j] /\ f[j] \in LogEntries
      BY <1>1, <3>2, LastUnique DEF LastIn, Files
    <3>4. f[j].val = Nothing => f[j].dl = 0
      BY <1>0, <1>1, <3>2 DEF DeletionsAreBare, IsLast
    <3>5. PICK e \in LogEntries : e = f[j]
      BY <3>3
    <3>6. Agrees(mem[k], LastIn(s, k))'
      <4>1. e.dl \in Int /\ now \in Nat /\ now' = now
        BY <1>0, DeadlineFacts DEF LogEntries, TypeOK, RecoverShard
      <4>2. mem'[k] = Brings(e) /\ LastIn(s, k)' = e
        BY <2>0, <3>1, <3>3, <3>5
      <4> QED
        BY <3>4, <3>5, <4>1, <4>2, ObjectFacts DEF Agrees, Brings
    <3>7. s \in Read(k)'
      BY <1>0, <1>1, <3>2 DEF Read, FilesOf, IsLast, RecoverShard
    <3>8. Read(k)' # {} /\ \E t \in Read(k)' : Agrees(mem[k], LastIn(t, k))'
      BY <3>6, <3>7, Zenon
    <3> QED
      BY <3>8 DEF AsLogged
  <2> QED
    BY <1>3, <2>1, <2>2 DEF Told
<1> QED
  BY <1>0, <1>4, <1>5 DEF RestartInv, RecoverShard

(* The process ends, and the next one starts with an empty memory.         *)
LEMMA StopStep ==
    ASSUME RestartInv, Stop
    PROVE  RestartInv'
<1>1. mem' \in [Keys -> Objects] /\ \A k \in Keys : mem'[k] = NoObj
  BY ObjectFacts DEF Stop
<1>2. TypeOK'
  <2>1. up' \in BOOLEAN /\ todo' \subseteq ShardIds
    BY DEF Stop
  <2> QED
    BY <1>1, <2>1 DEF RestartInv, TypeOK, Stop
<1>3. DeletionsAreBare'
  BY DEF RestartInv, DeletionsAreBare, Stop
<1> QED
  BY <1>1, <1>2, <1>3 DEF RestartInv, Stop

LEMMA StartStep ==
    ASSUME RestartInv, NEW count \in Counts, NEW enable \in BOOLEAN, Start(count, enable)
    PROVE  RestartInv'
<1>0. TypeOK /\ DeletionsAreBare /\ \A k \in Keys : mem'[k] = NoObj
  BY DEF RestartInv, Start
<1>1. todo' \subseteq 0 .. n' - 1 /\ todo' \subseteq ShardIds
  BY ShardFacts DEF Start
<1>2. TypeOK' /\ DeletionsAreBare'
  BY <1>0, <1>1 DEF TypeOK, DeletionsAreBare, Start
<1>3. ASSUME NEW k \in Keys \ skipped' PROVE AsLogged(k)'
  <2>1. todo' = 0 .. n' - 1
    BY <1>3 DEF Start
  <2>2. Read(k)' = {}
    BY <2>1 DEF Read
  <2> QED
    BY <1>0, <2>2 DEF AsLogged
<1> QED
  BY <1>1, <1>2, <1>3 DEF RestartInv, Start

LEMMA InitInv == Init => RestartInv
<1> SUFFICES ASSUME Init PROVE RestartInv
  OBVIOUS
<1>1. mem \in [Keys -> Objects] /\ \A k \in Keys : mem[k] = NoObj
  BY ObjectFacts DEF Init
<1>2. <<>> \in Seq(LogEntries) /\ DOMAIN <<>> = {}
  OBVIOUS
<1>3. files \in [ShardIds -> Seq(LogEntries)] /\ \A s \in ShardIds : DOMAIN files[s] = {}
  BY <1>2 DEF Init
<1>4. TypeOK /\ DeletionsAreBare
  BY <1>1, <1>3 DEF Init, TypeOK, DeletionsAreBare
<1>5. \A k \in Keys : Read(k) = {}
  BY <1>3 DEF Read, FilesOf
<1> QED
  BY <1>1, <1>4, <1>5 DEF Init, RestartInv, AsLogged

LEMMA StepInv == RestartInv /\ [Next]_vars => RestartInv'
<1> SUFFICES ASSUME RestartInv, [Next]_vars PROVE RestartInv'
  OBVIOUS
<1>1. CASE UNCHANGED vars
  BY <1>1 DEF RestartInv, TypeOK, DeletionsAreBare, AsLogged, Read, FilesOf, LastIn, Agrees, vars
<1>2. CASE Next
  BY <1>2, CommandStep, TickStep, StopStep, StartStep, RecoverStep DEF Next
<1> QED
  BY <1>1, <1>2

-----------------------------------------------------------------------------
(* Every variable keeps its type.                                          *)
THEOREM TypeCorrect == Spec => []TypeOK
<1>1. RestartInv => TypeOK
  BY DEF RestartInv
<1> QED
  BY <1>1, InitInv, StepInv, PTL DEF Spec

(* RecoverMemory and the commands after it: whatever the shard counts of   *)
(* the processes were, a process that serves has for each key what one of  *)
(* the files it reads says last, and nothing when none says anything.      *)
THEOREM RecoveryFollowsTheFiles == Spec => []RecoveredAsLogged
<1>1. RestartInv => RecoveredAsLogged
  <2> SUFFICES ASSUME RestartInv, Serving, NEW k \in Keys \ skipped
               PROVE  LET read == FilesOf(k) \cap (0 .. n - 1)
                      IN IF read = {} THEN mem[k] = NoObj
                         ELSE \E s \in read : Agrees(mem[k], LastIn(s, k))
    BY DEF RecoveredAsLogged
  <2>1. AsLogged(k) /\ Read(k) = FilesOf(k) \cap (0 .. n - 1)
    BY DEF RestartInv, Serving, Read
  <2> QED
    BY <2>1 DEF AsLogged
<1> QED
  BY <1>1, InitInv, StepInv, PTL DEF Spec

(* No command makes a key vanish unlogged before its deadline.             *)
THEOREM NoKeyLeavesEarly == Spec => KeysLeaveWhenDue
<1> DEFINE Due(k) ==
              mem[k] # NoObj /\ mem'[k] = NoObj =>
                \/ ~up' \/ files' # files \/ todo # {}
                \/ mem[k].dl > 0 /\ mem[k].dl <= now
                \/ mem[k].dl < 0
<1>1. ASSUME RestartInv, Next, NEW k \in Keys PROVE Due(k)
  <2>0. mem \in [Keys -> Objects]
    BY <1>1 DEF RestartInv, TypeOK
  <2>1. ASSUME NEW j \in Keys, files' # files \/ Drop(j) PROVE Due(k)
    <3>1. CASE files' # files
      BY <3>1
    <3>2. CASE Drop(j) /\ j # k
      BY <2>0, <3>2 DEF Drop
    <3>3. CASE Drop(j) /\ j = k
      <4>1. mem[k].dl \in Int
        BY <2>0, ObjectFacts, DeadlineFacts
      <4> QED
        BY <3>3, <4>1 DEF Drop
    <3> QED
      BY <2>1, <3>1, <3>2, <3>3
  <2>2. CASE \E j \in Keys : \/ \E v \in Texts : SetKey(j, v)
                             \/ DeleteKey(j)
                             \/ \E d \in Durations : ExpireKey(j, d)
                             \/ GetKey(j) \/ TtlKey(j)
    BY <1>1, <2>1, <2>2, CommandStep
  <2>3. CASE Tick \/ Stop \/ \E count \in Counts, enable \in BOOLEAN : Start(count, enable)
    BY <2>3 DEF Tick, Stop, Start
  <2>4. CASE \E s \in ShardIds : RecoverShard(s)
    BY <2>4 DEF RecoverShard
  <2> HIDE DEF Due
  <2> QED
    BY <1>1, <2>2, <2>3, <2>4 DEF Next
<1>2. RestartInv /\ [Next]_vars
        => [\A k \in Keys : mem[k] # NoObj /\ mem'[k] = NoObj =>
              \/ ~up' \/ files' # files \/ todo # {}
              \/ mem[k].dl > 0 /\ mem[k].dl <= now
              \/ mem[k].dl < 0]_vars
  BY <1>1
<1> QED
  BY <1>2, InitInv, StepInv, PTL DEF Spec, KeysLeaveWhenDue
=============================================================================
