---------------------------- MODULE MemoryProofs ----------------------------
(***************************************************************************)
(* Proofs about Memory, for any goroutines, keys, objects and lifetimes.   *)
(***************************************************************************)
EXTENDS Memory, TLAPS

Active == {"called", "rlocked", "wlocked", "check", "reap", "ttlReap"}

(* A goroutine in a call has a call with one of its keys.                  *)
CallOK ==
    \A t \in Threads : pc[t] \in Active => call[t] \in Calls /\ KeyOf(t) \in Touches[t]

TypeInv == TypeOK /\ CallOK

LEMMA CallFacts ==
    ASSUME NEW c \in Calls \cup {NoCall}
    PROVE  c.ttl \in Nat
<1>1. CASE c = NoCall
  BY <1>1 DEF NoCall
<1>2. CASE c \in [op : Ops \cap TimedOps, key : Keys, ttl : TTLs]
  BY <1>2, MemoryAssumption
<1>3. CASE c \in [op : Ops \ TimedOps, key : Keys, ttl : {0}]
  BY <1>3
<1> QED
  BY <1>1, <1>2, <1>3 DEF Calls

LEMMA CallKey ==
    ASSUME NEW c \in Calls
    PROVE  c.key \in Keys
<1>1. CASE c \in [op : Ops \cap TimedOps, key : Keys, ttl : TTLs]
  BY <1>1
<1>2. CASE c \in [op : Ops \ TimedOps, key : Keys, ttl : {0}]
  BY <1>2
<1> QED
  BY <1>1, <1>2 DEF Calls

LEMMA DeadlineType ==
    ASSUME now \in Nat, NEW d \in Nat
    PROVE  Deadline(d) \in Nat
  BY DEF Deadline

(* The types of the variables are preserved.                               *)
LEMMA TypeStep == TypeInv /\ [Next]_vars => TypeInv'
<1> SUFFICES ASSUME TypeOK, CallOK, [Next]_vars PROVE TypeInv'
  BY DEF TypeInv
<1> USE DEF TypeInv, TypeOK, CallOK
<1>0. ASSUME NEW t \in Threads, pc[t] \in Active
      PROVE  KeyOf(t) \in Keys /\ call[t].ttl \in Nat
  BY <1>0, CallKey, CallFacts DEF KeyOf
<1>1. ASSUME NEW t \in Threads, Invoke(t) PROVE TypeInv'
  BY <1>1 DEF Invoke, Active, KeyOf
<1>2. ASSUME NEW t \in Threads, RLock(t) \/ Lock(t) PROVE TypeInv'
  BY <1>2 DEF RLock, Lock, Goto, Active, KeyOf
<1>3. ASSUME NEW t \in Threads, GetLookup(t) PROVE TypeInv'
  BY <1>3, <1>0 DEF GetLookup, Goto, Return, Active, KeyOf
<1>4. ASSUME NEW t \in Threads, GetCheck(t) PROVE TypeInv'
  BY <1>4 DEF GetCheck, Goto, Return, Active, KeyOf
<1>5. ASSUME NEW t \in Threads, GetReap(t) PROVE TypeInv'
  BY <1>5 DEF GetReap, Return, Active, KeyOf
<1>6. ASSUME NEW t \in Threads, TTLCheck(t) \/ TTLReap(t) PROVE TypeInv'
  BY <1>6 DEF TTLCheck, TTLReap, Goto, Return, Active, KeyOf
<1>7. ASSUME NEW t \in Threads, Set(t) PROVE TypeInv'
  <2>1. PICK o \in ObjIds :
            /\ mem' = [mem EXCEPT ![KeyOf(t)] = o]
            /\ ts' = [ts EXCEPT ![o] = 0]
    BY <1>7 DEF Set, Bind, Free
  <2> QED
    BY <1>7, <2>1 DEF Set, Return, Active, KeyOf
<1>8. ASSUME NEW t \in Threads, SetWithTTL(t) PROVE TypeInv'
  <2>1. Deadline(call[t].ttl) \in Nat
    BY <1>8, <1>0, DeadlineType DEF SetWithTTL, Active
  <2>2. PICK o \in ObjIds :
            /\ mem' = [mem EXCEPT ![KeyOf(t)] = o]
            /\ ts' = [ts EXCEPT ![o] = Deadline(call[t].ttl)]
    BY <1>8 DEF SetWithTTL, Bind, Free
  <2>3. Return(t) /\ UNCHANGED <<now, hold>>
    BY <1>8 DEF SetWithTTL
  <2> QED
    BY <2>1, <2>2, <2>3 DEF Return, Active, KeyOf
<1>9. ASSUME NEW t \in Threads, Delete(t) PROVE TypeInv'
  BY <1>9 DEF Delete, Return, Active, KeyOf
<1>10. ASSUME NEW t \in Threads, Expire(t) PROVE TypeInv'
  <2>1. Deadline(call[t].ttl) \in Nat
    BY <1>10, <1>0, DeadlineType DEF Expire, Active
  <2> QED
    BY <1>10, <2>1 DEF Expire, Return, Active, KeyOf
<1>11. ASSUME NEW t \in Threads, CleanupExpired(t) PROVE TypeInv'
  BY <1>11 DEF CleanupExpired, Return, Active, KeyOf
<1>12. CASE MapFault
  BY <1>12 DEF MapFault, Active, KeyOf
<1>13. CASE Tick
  BY <1>13 DEF Tick, Active, KeyOf
<1>14. CASE UNCHANGED vars
  BY <1>14 DEF vars, Active, KeyOf
<1> QED
  BY <1>1, <1>2, <1>3, <1>4, <1>5, <1>6, <1>7, <1>8, <1>9, <1>10, <1>11, <1>12, <1>13, <1>14
  DEF Next, Body

(* Every variable keeps its type, whatever the goroutines do.              *)
THEOREM TypeCorrect == Spec => []TypeOK
<1>1. Init => TypeInv
  BY DEF Init, TypeInv, TypeOK, CallOK, Active
<1>2. TypeInv => TypeOK
  BY DEF TypeInv
<1> QED
  BY <1>1, <1>2, TypeStep, PTL DEF Spec

-----------------------------------------------------------------------------
(* The lock.  Mutual exclusion is over the states that hold it; a body     *)
(* never keeps it, so only Lock and RLock have something to show.          *)

Locked == {"rlocked", "ttlReap"}

LockInv ==
    \A t, u \in Threads : t # u /\ pc[t] = "wlocked" => pc[u] \notin Locked \cup {"wlocked"}

LEMMA LockStep == TypeInv /\ LockInv /\ [Next]_vars => LockInv'
<1> SUFFICES ASSUME TypeOK, LockInv, [Next]_vars PROVE LockInv'
  BY DEF TypeInv
<1> USE DEF TypeOK, LockInv, Locked
<1>1. ASSUME NEW t \in Threads, Invoke(t) PROVE LockInv'
  BY <1>1 DEF Invoke
<1>2. ASSUME NEW t \in Threads, RLock(t) PROVE LockInv'
  BY <1>2 DEF RLock, Goto, Writers
<1>3. ASSUME NEW t \in Threads, Lock(t) PROVE LockInv'
  BY <1>3 DEF Lock, Goto, Writers, Readers
<1>4. ASSUME NEW t \in Threads, Body(t) PROVE LockInv'
  <2>1. CASE GetLookup(t)
    BY <2>1 DEF GetLookup, Goto, Return
  <2>2. CASE GetCheck(t) \/ GetReap(t)
    BY <2>2 DEF GetCheck, GetReap, Goto, Return
  <2>3. CASE TTLCheck(t) \/ TTLReap(t)
    BY <2>3 DEF TTLCheck, TTLReap, Goto, Return
  <2>4. CASE Set(t) \/ SetWithTTL(t) \/ Delete(t)
    BY <2>4 DEF Set, SetWithTTL, Delete, Return
  <2>5. CASE Expire(t) \/ CleanupExpired(t)
    BY <2>5 DEF Expire, CleanupExpired, Return
  <2> QED
    BY <1>4, <2>1, <2>2, <2>3, <2>4, <2>5 DEF Body
<1>5. CASE MapFault
  BY <1>5 DEF MapFault
<1>6. CASE Tick \/ UNCHANGED vars
  BY <1>6 DEF Tick, vars
<1> QED
  BY <1>1, <1>2, <1>3, <1>4, <1>5, <1>6 DEF Next

LEMMA LockInvariant == Spec => [](TypeInv /\ LockInv)
<1>1. Init => TypeInv /\ LockInv
  BY DEF Init, TypeInv, TypeOK, CallOK, LockInv, Active
<1> QED
  BY <1>1, TypeStep, LockStep, PTL DEF Spec

(* Whatever the deadlines and whoever shares the keys, the map is raced    *)
(* for only while a Get or a TTL is removing an expired key.               *)
THEOREM RacesComeFromReaping == Spec => []OnlyReapsRace
<1>1. LockInv => OnlyReapsRace
  BY DEF LockInv, OnlyReapsRace, MapRace, InMap, InMapWrite, Reaping, Locked
<1> QED
  BY <1>1, LockInvariant, PTL

-----------------------------------------------------------------------------
(* Whoever has a key for himself.  What a Get holds is, by the time it     *)
(* judges it, still the object of its key or no key's object any more, and *)
(* an object found expired stays expired until it is removed.              *)

Judging(t) == pc[t] \in {"check", "reap"}

OneKeyPerObject == \A k, l \in Keys : mem[k] = mem[l] /\ mem[k] # Nil => k = l

HeldObject ==
    \A t \in Threads :
        Judging(t) =>
            /\ call[t].op = "Get"
            /\ hold[t] \in ObjIds
            /\ mem[KeyOf(t)] \in {hold[t], Nil}
            /\ \A k \in Keys : mem[k] = hold[t] => k = KeyOf(t)

ReapedIsExpired ==
    \A t \in Threads :
        /\ pc[t] = "reap" => Expired(hold[t])
        /\ pc[t] = "ttlReap" => mem[KeyOf(t)] = Nil \/ Expired(mem[KeyOf(t)])

StoreInv == TypeInv /\ LockInv /\ OneKeyPerObject /\ HeldObject /\ ReapedIsExpired

LEMMA StoreInit == Init => StoreInv
  BY MemoryAssumption DEF Init, StoreInv, TypeInv, TypeOK, CallOK, Active, LockInv,
     OneKeyPerObject, HeldObject, ReapedIsExpired, Judging

(* Two goroutines in a call have different keys.                           *)
LEMMA DifferentKeys ==
    ASSUME DisjointKeys, TypeInv,
           NEW t \in Threads, NEW u \in Threads, t # u,
           pc[t] \in Active, pc[u] \in Active
    PROVE  KeyOf(t) # KeyOf(u)
  BY DEF DisjointKeys, TypeInv, CallOK

(* One step per way the store can change: a key is bound to a new object,  *)
(* keys are unbound, or an object gets a new deadline.                     *)
LEMMA StoreStep == DisjointKeys /\ StoreInv /\ [Next]_vars => StoreInv'
<1> SUFFICES ASSUME DisjointKeys, StoreInv, [Next]_vars
             PROVE  OneKeyPerObject' /\ HeldObject' /\ ReapedIsExpired'
  BY TypeStep, LockStep DEF StoreInv
<1> USE DEF StoreInv, OneKeyPerObject, HeldObject, ReapedIsExpired, Judging
<1>0. /\ TypeOK /\ CallOK
      /\ \A u \in Threads : pc[u] \in Active => KeyOf(u) \in Keys
      /\ Nil \notin ObjIds
  BY CallKey, MemoryAssumption DEF TypeInv, CallOK, KeyOf
<1>1. ASSUME NEW t \in Threads, Invoke(t) \/ RLock(t) \/ Lock(t)
      PROVE  OneKeyPerObject' /\ HeldObject' /\ ReapedIsExpired'
  BY <1>0, <1>1 DEF Invoke, RLock, Lock, Goto, TypeOK, KeyOf, Expired
<1>2. ASSUME NEW t \in Threads, GetLookup(t)
      PROVE  OneKeyPerObject' /\ HeldObject' /\ ReapedIsExpired'
  BY <1>0, <1>2 DEF GetLookup, Goto, Return, TypeOK, KeyOf, Expired, Active
<1>3. ASSUME NEW t \in Threads, GetCheck(t)
      PROVE  OneKeyPerObject' /\ HeldObject' /\ ReapedIsExpired'
  BY <1>0, <1>3 DEF GetCheck, Goto, Return, TypeOK, KeyOf, Expired, GetExpired
<1>4. ASSUME NEW t \in Threads, GetReap(t)
      PROVE  OneKeyPerObject' /\ HeldObject' /\ ReapedIsExpired'
  BY <1>0, <1>4 DEF GetReap, Return, TypeOK, KeyOf, Expired, Active
<1>5. ASSUME NEW t \in Threads, TTLCheck(t)
      PROVE  OneKeyPerObject' /\ HeldObject' /\ ReapedIsExpired'
  BY <1>0, <1>5 DEF TTLCheck, Goto, Return, TypeOK, KeyOf, Expired
<1>6. ASSUME NEW t \in Threads, TTLReap(t)
      PROVE  OneKeyPerObject' /\ HeldObject' /\ ReapedIsExpired'
  BY <1>0, <1>6 DEF TTLReap, Return, TypeOK, KeyOf, Expired, Active
<1>7. ASSUME NEW t \in Threads, NEW d \in Nat, pc[t] = "wlocked", Bind(t, d), Return(t),
             UNCHANGED <<now, hold>>
      PROVE  OneKeyPerObject' /\ HeldObject' /\ ReapedIsExpired'
  <2>1. PICK o \in Free : /\ mem' = [mem EXCEPT ![KeyOf(t)] = o]
                          /\ ts' = [ts EXCEPT ![o] = d]
    BY <1>7 DEF Bind
  <2>2. /\ o \in ObjIds
        /\ \A k \in Keys : mem[k] # o
        /\ \A u \in Threads : hold[u] # o
    BY <2>1 DEF Free
  <2>3. \A u \in Threads : u # t => call'[u] = call[u] /\ pc'[u] = pc[u]
    BY <1>0, <1>7 DEF Return, TypeOK
  <2>4. pc'[t] = "idle"
    BY <1>0, <1>7 DEF Return, TypeOK
  <2>5. \A u \in Threads : u # t /\ pc[u] \in Active => KeyOf(u) # KeyOf(t)
    BY <1>7, DifferentKeys DEF Active
  <2>6. OneKeyPerObject'
    BY <1>0, <2>1, <2>2 DEF TypeOK
  <2>7. HeldObject'
    BY <1>0, <1>7, <2>1, <2>2, <2>3, <2>4, <2>5 DEF TypeOK, KeyOf, Active
  <2>8. ASSUME NEW u \in Threads, pc'[u] = "reap" PROVE Expired(hold[u])'
    BY <1>0, <1>7, <2>1, <2>2, <2>3, <2>4, <2>8 DEF TypeOK, Expired
  <2>9. \A u \in Threads : pc'[u] # "ttlReap"
    BY <1>7, <2>3, <2>4 DEF LockInv, Locked
  <2> QED
    BY <2>6, <2>7, <2>8, <2>9
<1>8. ASSUME NEW t \in Threads, Set(t)
      PROVE  OneKeyPerObject' /\ HeldObject' /\ ReapedIsExpired'
  BY <1>7, <1>8 DEF Set
<1>9. ASSUME NEW t \in Threads, SetWithTTL(t)
      PROVE  OneKeyPerObject' /\ HeldObject' /\ ReapedIsExpired'
  <2>1. Deadline(call[t].ttl) \in Nat
    BY <1>0, CallFacts, DeadlineType DEF TypeOK
  <2> QED
    BY <1>7, <1>9, <2>1 DEF SetWithTTL
<1>10. ASSUME NEW t \in Threads, Delete(t)
      PROVE  OneKeyPerObject' /\ HeldObject' /\ ReapedIsExpired'
  BY <1>0, <1>10 DEF Delete, Return, TypeOK, KeyOf, Expired, Active
<1>11. ASSUME NEW t \in Threads, Expire(t)
      PROVE  OneKeyPerObject' /\ HeldObject' /\ ReapedIsExpired'
  <2>1. \A u \in Threads : pc'[u] # "ttlReap"
    BY <1>0, <1>11 DEF Expire, Return, TypeOK, LockInv, Locked
  <2>2. \A u \in Threads : u # t /\ pc[u] \in Active => KeyOf(u) # KeyOf(t)
    BY <1>11, DifferentKeys DEF Expire, Active
  <2>3. CASE ts' = ts
    BY <1>0, <1>11, <2>1, <2>3 DEF Expire, Return, TypeOK, KeyOf, Expired, Active
  <2>4. CASE /\ mem[KeyOf(t)] # Nil
             /\ ts' = [ts EXCEPT ![mem[KeyOf(t)]] = Deadline(call[t].ttl)]
             /\ mem' = mem
    <3>1. \A u \in Threads : Judging(u) => hold[u] # mem[KeyOf(t)]
      BY <1>0, <1>11, <2>2, <2>4 DEF Expire, Active
    <3> QED
      BY <1>0, <1>11, <2>1, <2>4, <3>1 DEF Expire, Return, TypeOK, KeyOf, Expired, Active
  <2> QED
    BY <1>11, <2>3, <2>4 DEF Expire
<1>12. ASSUME NEW t \in Threads, CleanupExpired(t)
      PROVE  OneKeyPerObject' /\ HeldObject' /\ ReapedIsExpired'
  BY <1>0, <1>12 DEF CleanupExpired, Return, TypeOK, KeyOf, Expired, Active
<1>13. CASE MapFault
  BY <1>0, <1>13 DEF MapFault
<1>14. CASE Tick
  BY <1>0, <1>14 DEF Tick, TypeOK, KeyOf, Expired, Active
<1>15. CASE UNCHANGED vars
  BY <1>0, <1>15 DEF vars, KeyOf, Expired
<1> QED
  BY <1>1, <1>2, <1>3, <1>4, <1>5, <1>6, <1>8, <1>9, <1>10, <1>11, <1>12, <1>13, <1>14, <1>15
  DEF Next, Body

LEMMA StoreInvariant ==
    ASSUME DisjointKeys
    PROVE  Spec => []StoreInv
<1>1. StoreInv /\ [Next]_vars => StoreInv'
  BY StoreStep
<1> QED
  BY StoreInit, <1>1, PTL DEF Spec

(* When no two goroutines share a key, no reading, no dating and no clean-  *)
(* up takes a live value away: only the DELETE of that key does.            *)
THEOREM NoLiveKeyLost ==
    ASSUME DisjointKeys
    PROVE  Spec => NoLiveKeyDropped
<1>1. StoreInv /\ [Next]_vars => LiveKeyKept \/ UNCHANGED vars
  <2> SUFFICES ASSUME StoreInv, [Next]_vars, NEW k \in Keys, mem[k] # Nil, mem'[k] = Nil
               PROVE  Expired(mem[k]) \/ \E t \in Threads : Deleting(t, k)
    BY DEF LiveKeyKept
  <2>0. TypeOK /\ Nil \notin ObjIds
    BY MemoryAssumption DEF StoreInv, TypeInv
  <2>1. ASSUME NEW t \in Threads, GetReap(t) PROVE Expired(mem[k])
    BY <2>0, <2>1 DEF GetReap, StoreInv, HeldObject, ReapedIsExpired, Judging, TypeOK
  <2>2. ASSUME NEW t \in Threads, TTLReap(t) PROVE Expired(mem[k])
    BY <2>0, <2>2 DEF TTLReap, StoreInv, ReapedIsExpired, TypeOK
  <2>3. ASSUME NEW t \in Threads, Set(t) \/ SetWithTTL(t) PROVE FALSE
    BY <2>0, <2>3 DEF Set, SetWithTTL, Bind, Free, TypeOK
  <2>4. ASSUME NEW t \in Threads, Delete(t) PROVE Deleting(t, k)
    BY <2>0, <2>4 DEF Delete, Deleting, TypeOK
  <2>5. ASSUME NEW t \in Threads, Expire(t) PROVE Expired(mem[k])
    BY <2>0, <2>5 DEF Expire, TypeOK
  <2>6. ASSUME NEW t \in Threads, CleanupExpired(t) PROVE Expired(mem[k])
    BY <2>0, <2>6 DEF CleanupExpired
  <2>7. ASSUME mem' = mem PROVE FALSE
    BY <2>7
  <2> QED
    BY <2>1, <2>2, <2>3, <2>4, <2>5, <2>6, <2>7
    DEF Next, Body, Invoke, RLock, Lock, GetLookup, GetCheck, TTLCheck, MapFault, Tick, vars
<1> QED
  BY <1>1, StoreInvariant, PTL DEF Spec, NoLiveKeyDropped

-----------------------------------------------------------------------------
(* The store implements TtlStore: each body is one abstract step, and the  *)
(* lock and Get's walk to its delete are stutters.                         *)

IdleInv ==
    \A t \in Threads :
        /\ pc[t] = "idle" => call[t] = NoCall
        /\ pc[t] = "ttlReap" => call[t].op = "TTL"

LEMMA IdleStep == TypeInv /\ IdleInv /\ [Next]_vars => IdleInv'
  BY DEF TypeInv, TypeOK, IdleInv, Next, Body, Invoke, RLock, Lock, Goto, Return, GetLookup,
     GetCheck, GetReap, TTLCheck, TTLReap, Set, SetWithTTL, Delete, Expire, CleanupExpired,
     MapFault, Tick, vars

(* A call that starts no DELETE and ends none changes nothing asked for.   *)
LEMMA AskedSame ==
    ASSUME TypeOK, NEW t \in Threads, call[t].op # "Delete",
           Return(t) \/ UNCHANGED call
    PROVE  KeyAsked' = KeyAsked
  BY DEF TypeOK, Return, KeyAsked, KeyOf, NoCall

(* Keys that lose their object are the keys that lose their deadline.      *)
LEMMA UnbindKeys ==
    ASSUME TypeOK, NEW S \in SUBSET Keys, ts' = ts, now' = now,
           mem' = [k \in Keys |-> IF k \in S THEN Nil ELSE mem[k]]
    PROVE  Promise!Unbind(S)
  BY DEF TypeOK, Promise!Unbind, DeadlineOfKey

(* What Expired finds expired is due.                                      *)
LEMMA ExpiredIsDue ==
    ASSUME TypeOK, NEW k \in Keys, mem[k] # Nil
    PROVE  Promise!Due(k) <=> Expired(mem[k])
  BY DEF TypeOK, Promise!Due, DeadlineOfKey, Expired

LEMMA ReapKeys ==
    ASSUME TypeOK, NEW S \in SUBSET Keys, ts' = ts, now' = now, KeyAsked' = KeyAsked,
           \A k \in S : mem[k] # Nil /\ Expired(mem[k]),
           mem' = [k \in Keys |-> IF k \in S THEN Nil ELSE mem[k]]
    PROVE  Promise!Reap
<1>1. S \in SUBSET {k \in Keys : Promise!Due(k)}
  BY ExpiredIsDue
<1> QED
  BY <1>1, UnbindKeys DEF Promise!Reap

(* One key found expired, and perhaps unbound by then.                     *)
LEMMA ReapOne ==
    ASSUME TypeOK, NEW l \in Keys, ts' = ts, now' = now, KeyAsked' = KeyAsked,
           mem[l] = Nil \/ Expired(mem[l]),
           mem' = [mem EXCEPT ![l] = Nil]
    PROVE  Promise!Reap
<1> DEFINE S == {l} \ {k \in Keys : mem[k] = Nil}
<1>1. mem' = [k \in Keys |-> IF k \in S THEN Nil ELSE mem[k]]
  BY DEF TypeOK
<1>2. S \in SUBSET Keys /\ \A k \in S : mem[k] # Nil /\ Expired(mem[k])
  OBVIOUS
<1> HIDE DEF S
<1> QED
  BY <1>1, <1>2, ReapKeys

LEMMA PutKey ==
    ASSUME TypeOK, NEW l \in Keys, NEW ttl \in TTLs \cup {0}, NEW o \in Free,
           mem' = [mem EXCEPT ![l] = o], ts' = [ts EXCEPT ![o] = Deadline(ttl)],
           now' = now, KeyAsked' = KeyAsked
    PROVE  Promise!Put(l)
<1>1. o \in ObjIds /\ o # Nil /\ \A k \in Keys : mem[k] # o
  BY MemoryAssumption DEF Free
<1>2. DeadlineOfKey' = [DeadlineOfKey EXCEPT ![l] = Promise!Dates(ttl)]
  BY <1>1 DEF TypeOK, DeadlineOfKey, Promise!Dates, Deadline
<1> QED
  BY <1>1, <1>2 DEF Promise!Put

LEMMA RedateKey ==
    ASSUME TypeOK, OneKeyPerObject, NEW l \in Keys, NEW ttl \in TTLs,
           mem[l] # Nil, ~Expired(mem[l]),
           ts' = [ts EXCEPT ![mem[l]] = Deadline(ttl)],
           mem' = mem, now' = now, KeyAsked' = KeyAsked
    PROVE  Promise!Redate(l)
<1>1. DeadlineOfKey' = [DeadlineOfKey EXCEPT ![l] = Promise!Dates(ttl)]
  BY DEF TypeOK, OneKeyPerObject, DeadlineOfKey, Promise!Dates, Deadline
<1>2. ~Promise!Due(l)
  BY ExpiredIsDue
<1> QED
  BY <1>1, <1>2 DEF Promise!Redate

(* One step of the store is one step of the promise, or none.              *)
LEMMA PromiseStep ==
    StoreInv /\ IdleInv /\ [Next]_vars => [Promise!Next]_(Promise!vars)
<1> SUFFICES ASSUME StoreInv, IdleInv, [Next]_vars
             PROVE  Promise!Next \/ UNCHANGED Promise!vars
  OBVIOUS
<1>0. /\ TypeOK /\ CallOK
      /\ \A u \in Threads : pc[u] \in Active => call[u] \in Calls /\ KeyOf(u) \in Keys
      /\ Nil \notin ObjIds /\ Nil \notin Keys
  BY CallKey, MemoryAssumption DEF StoreInv, TypeInv, CallOK, KeyOf
<1>a. ASSUME UNCHANGED <<mem, ts, now>>, KeyAsked' = KeyAsked
      PROVE  UNCHANGED Promise!vars
  BY <1>a DEF Promise!vars, DeadlineOfKey
<1>b. ASSUME NEW u \in Threads, call[u].op \in TimedOps, pc[u] \in Active
      PROVE  call[u].ttl \in TTLs
  BY <1>0, <1>b DEF Calls
<1>1. ASSUME NEW t \in Threads, Invoke(t)
      PROVE  Promise!AskRemove(t) \/ UNCHANGED Promise!vars
  <2>1. KeyAsked[t] = Nil
    BY <1>1 DEF Invoke, IdleInv, KeyAsked, NoCall
  <2>2. PICK c \in Calls : call' = [call EXCEPT ![t] = c]
    BY <1>1 DEF Invoke
  <2>3. CASE c.op = "Delete"
    <3>1. KeyAsked' = [KeyAsked EXCEPT ![t] = c.key]
      BY <1>0, <2>2, <2>3 DEF KeyAsked, KeyOf, TypeOK
    <3>2. DeadlineOfKey' = DeadlineOfKey
      BY <1>1 DEF Invoke, DeadlineOfKey
    <3> QED
      BY <1>1, <2>1, <3>1, <3>2, CallKey DEF Invoke, Promise!AskRemove
  <2>4. CASE c.op # "Delete"
    <3>1. KeyAsked' = KeyAsked
      BY <1>0, <2>1, <2>2, <2>4 DEF KeyAsked, KeyOf, TypeOK
    <3> QED
      BY <1>1, <1>a, <3>1 DEF Invoke
  <2> QED
    BY <2>3, <2>4
<1>2. ASSUME NEW t \in Threads, RLock(t) \/ Lock(t) \/ GetLookup(t) \/ GetCheck(t) \/ TTLCheck(t)
      PROVE  UNCHANGED Promise!vars
  <2>1. call' = call \/ (call[t].op # "Delete" /\ Return(t))
    BY <1>0, <1>2
    DEF RLock, Lock, GetLookup, GetCheck, TTLCheck, Goto, StoreInv, HeldObject, Judging
  <2>2. KeyAsked' = KeyAsked
    BY <1>0, <2>1, AskedSame DEF KeyAsked, KeyOf
  <2> QED
    BY <1>2, <1>a, <2>2 DEF RLock, Lock, GetLookup, GetCheck, TTLCheck
<1>3. ASSUME NEW t \in Threads, GetReap(t) PROVE Promise!Reap
  <2>1. call[t].op # "Delete" /\ KeyOf(t) \in Keys
    BY <1>0, <1>3 DEF GetReap, StoreInv, HeldObject, Judging, Active
  <2>2. mem[KeyOf(t)] = Nil \/ Expired(mem[KeyOf(t)])
    BY <1>3 DEF GetReap, StoreInv, HeldObject, ReapedIsExpired, Judging
  <2> QED
    BY <1>0, <1>3, <2>1, <2>2, AskedSame, ReapOne DEF GetReap
<1>4. ASSUME NEW t \in Threads, TTLReap(t) PROVE Promise!Reap
  <2>1. call[t].op # "Delete" /\ KeyOf(t) \in Keys
    BY <1>0, <1>4 DEF TTLReap, IdleInv, Active
  <2>2. mem[KeyOf(t)] = Nil \/ Expired(mem[KeyOf(t)])
    BY <1>4 DEF TTLReap, StoreInv, ReapedIsExpired
  <2> QED
    BY <1>0, <1>4, <2>1, <2>2, AskedSame, ReapOne DEF TTLReap
<1>5. ASSUME NEW t \in Threads, Set(t) PROVE Promise!Put(KeyOf(t))
  <2>1. KeyOf(t) \in Keys /\ KeyAsked' = KeyAsked /\ Deadline(0) = 0
    BY <1>0, <1>5, AskedSame DEF Set, Active, Deadline
  <2> QED
    BY <1>0, <1>5, <2>1, PutKey DEF Set, Bind
<1>6. ASSUME NEW t \in Threads, SetWithTTL(t) PROVE Promise!Put(KeyOf(t))
  <2>1. KeyOf(t) \in Keys /\ KeyAsked' = KeyAsked /\ call[t].ttl \in TTLs
    BY <1>0, <1>6, <1>b, AskedSame DEF SetWithTTL, Active, TimedOps
  <2> QED
    BY <1>0, <1>6, <2>1, PutKey DEF SetWithTTL, Bind
<1>7. ASSUME NEW t \in Threads, Delete(t) PROVE Promise!Remove(t)
  <2>1. KeyOf(t) \in Keys
    BY <1>0, <1>7 DEF Delete, Active
  <2>2. KeyAsked[t] = KeyOf(t) /\ KeyAsked' = [KeyAsked EXCEPT ![t] = Nil]
    BY <1>0, <1>7 DEF Delete, Return, KeyAsked, KeyOf, NoCall, TypeOK
  <2>3. mem' = [k \in Keys |-> IF k \in {KeyOf(t)} THEN Nil ELSE mem[k]]
    BY <1>0, <1>7 DEF Delete, TypeOK
  <2>4. Promise!Unbind({KeyOf(t)})
    BY <1>0, <1>7, <2>1, <2>3, UnbindKeys DEF Delete
  <2> QED
    BY <1>0, <2>1, <2>2, <2>4 DEF Promise!Remove
<1>8. ASSUME NEW t \in Threads, Expire(t)
      PROVE  Promise!Reap \/ Promise!Redate(KeyOf(t)) \/ UNCHANGED Promise!vars
  <2>1. KeyOf(t) \in Keys /\ KeyAsked' = KeyAsked /\ call[t].ttl \in TTLs
    BY <1>0, <1>8, <1>b, AskedSame DEF Expire, Active, TimedOps
  <2>2. CASE UNCHANGED <<mem, ts>>
    BY <1>8, <1>a, <2>1, <2>2 DEF Expire
  <2>3. CASE Expired(mem[KeyOf(t)]) /\ mem' = [mem EXCEPT ![KeyOf(t)] = Nil] /\ ts' = ts
    BY <1>0, <1>8, <2>1, <2>3, ReapOne DEF Expire
  <2>4. CASE /\ mem[KeyOf(t)] # Nil /\ ~Expired(mem[KeyOf(t)])
             /\ ts' = [ts EXCEPT ![mem[KeyOf(t)]] = Deadline(call[t].ttl)]
             /\ mem' = mem
    BY <1>0, <1>8, <2>1, <2>4, RedateKey DEF Expire, StoreInv
  <2> QED
    BY <1>8, <2>2, <2>3, <2>4 DEF Expire
<1>9. ASSUME NEW t \in Threads, CleanupExpired(t) PROVE Promise!Reap
  <2> DEFINE dead == {k \in Keys : mem[k] # Nil /\ Expired(mem[k])}
  <2>1. KeyAsked' = KeyAsked
    BY <1>0, <1>9, AskedSame DEF CleanupExpired
  <2>2. mem' = [k \in Keys |-> IF k \in dead THEN Nil ELSE mem[k]]
    BY <1>9 DEF CleanupExpired
  <2>3. dead \in SUBSET Keys /\ \A k \in dead : mem[k] # Nil /\ Expired(mem[k])
    OBVIOUS
  <2>4. ts' = ts /\ now' = now
    BY <1>9 DEF CleanupExpired
  <2> HIDE DEF dead
  <2> QED
    BY <1>0, <2>1, <2>2, <2>3, <2>4, ReapKeys
<1>10. ASSUME MapFault PROVE UNCHANGED Promise!vars
  BY <1>a, <1>10 DEF MapFault, KeyAsked, KeyOf
<1>11. ASSUME Tick PROVE Promise!Tick
  BY <1>11 DEF Tick, Promise!Tick, DeadlineOfKey, KeyAsked, KeyOf
<1>12. ASSUME UNCHANGED vars PROVE UNCHANGED Promise!vars
  BY <1>a, <1>12 DEF vars, KeyAsked, KeyOf
<1>13. \A t \in Threads : pc[t] = "wlocked" => KeyOf(t) \in Keys
  BY <1>0 DEF Active
<1>14. \A t \in Threads : Body(t) => Promise!Next \/ UNCHANGED Promise!vars
  BY <1>2, <1>3, <1>4, <1>5, <1>6, <1>7, <1>8, <1>9, <1>13
  DEF Body, Set, SetWithTTL, Expire, Promise!Next
<1> QED
  BY <1>1, <1>2, <1>10, <1>11, <1>12, <1>14 DEF Next, Promise!Next

(* When no two goroutines share a key, the store is a map whose calls take *)
(* effect in single steps, for all its unlocked removals and its pointers. *)
THEOREM StoreImplementsPromise ==
    ASSUME DisjointKeys
    PROVE  Spec => ImplementsTtlStore
<1>1. Init => IdleInv /\ Promise!Init
  BY DEF Init, IdleInv, Promise!Init, DeadlineOfKey, KeyAsked, NoCall
<1>2. StoreInv => TypeInv
  BY DEF StoreInv
<1> QED
  BY <1>1, <1>2, StoreInvariant, IdleStep, PromiseStep, PTL
  DEF Spec, ImplementsTtlStore, Promise!Spec
=============================================================================
