------------------------------- MODULE Memory -------------------------------
(***************************************************************************)
(* The key space of one shard: internal/store/mem.go.                      *)
(*                                                                         *)
(* A Go map from keys to *comm.Object, guarded by an RWMutex, used by one  *)
(* goroutine per connection.  Objects have an identity (ObjIds) because    *)
(* the code hands out pointers: Expire changes the Timestamp of an object  *)
(* other goroutines may hold, and Get judges the pointer it looked up      *)
(* after it has let the lock go.  Values play no part here; two writes     *)
(* differ by the object they bind.                                         *)
(*                                                                         *)
(* pc[t] says where goroutine t is, and the lock follows from it:          *)
(*   idle      between calls                                               *)
(*   called    waiting for the lock                                        *)
(*   rlocked   holds the read lock, about to run the body                  *)
(*   wlocked   holds the write lock, about to run the body                 *)
(*   check     Get: lock released, the looked-up pointer in hold[t]        *)
(*   reap      Get: inside delete(m.Mem, key), without any lock            *)
(*   ttlReap   TTL: inside delete(m.Mem, key), under the read lock         *)
(*   dead      the runtime has ended the process                           *)
(***************************************************************************)
EXTENDS Naturals

CONSTANTS
    Threads,     \* goroutines that call the store
    Keys,        \* keys of the shard
    ObjIds,      \* heap objects; a freed one is used again
    Nil,         \* no object
    TTLs,        \* lifetimes callers pass, 0 for the ttlSeconds <= 0 of the code
    Ops,         \* the operations callers use
    Touches,     \* Touches[t]: the keys goroutine t calls the store with
    MaxTime      \* bound on the clock

OpNames == {"Get", "Set", "SetWithTTL", "Delete", "TTL", "Expire", "CleanupExpired"}

ASSUME MemoryAssumption ==
    /\ Nil \notin ObjIds \cup Keys
    /\ TTLs \subseteq Nat
    /\ Ops \subseteq OpNames
    /\ Touches \in [Threads -> SUBSET Keys]
    /\ MaxTime \in Nat

VARIABLES
    mem,      \* Memory.Mem: the object bound to each key, Nil for none
    ts,       \* Object.Timestamp of each object, 0 for no expiry
    now,      \* time.Now().Unix()
    pc,       \* where each goroutine is
    call,     \* the call each goroutine is in
    hold      \* the object pointer a Get holds between lookup and return

vars == <<mem, ts, now, pc, call, hold>>

ReadOps == {"Get", "TTL"}
TimedOps == {"SetWithTTL", "Expire"}
Calls == [op : Ops \cap TimedOps, key : Keys, ttl : TTLs]
            \cup [op : Ops \ TimedOps, key : Keys, ttl : {0}]
NoCall == [op |-> "none", key |-> Nil, ttl |-> 0]

Readers == {t \in Threads : pc[t] \in {"rlocked", "ttlReap"}}
Writers == {t \in Threads : pc[t] = "wlocked"}

Init ==
    /\ mem = [k \in Keys |-> Nil]
    /\ ts = [o \in ObjIds |-> 0]
    /\ now = 1
    /\ pc = [t \in Threads |-> "idle"]
    /\ call = [t \in Threads |-> NoCall]
    /\ hold = [t \in Threads |-> Nil]

-----------------------------------------------------------------------------
(* Expiry tests.  Get waits one second longer than the others.             *)

(* Mutant: a timestamp of 0 is taken for a deadline.                      *)
GetExpired_ZeroIsADeadline(o) == now > ts[o]

GetExpired(o) == ts[o] > 0 /\ now > ts[o]
Expired(o) == ts[o] > 0 /\ now >= ts[o]

(* Mutant: the remaining time is stored instead of the deadline.           *)
Deadline_Remaining(ttl) == IF ttl > 0 THEN ttl - now ELSE 0

Deadline(ttl) == IF ttl > 0 THEN now + ttl ELSE 0

(* Objects nothing refers to: what new(comm.Object) may return.            *)
Free == {o \in ObjIds : (\A k \in Keys : mem[k] # o) /\ (\A t \in Threads : hold[t] # o)}

Goto(t, p) == pc' = [pc EXCEPT ![t] = p] /\ UNCHANGED call
Return(t) ==
    /\ pc' = [pc EXCEPT ![t] = "idle"]
    /\ call' = [call EXCEPT ![t] = NoCall]
KeyOf(t) == call[t].key

(* Bind a new object with timestamp d to the key of t's call.              *)
Bind(t, d) ==
    \E o \in Free :
        /\ mem' = [mem EXCEPT ![KeyOf(t)] = o]
        /\ ts' = [ts EXCEPT ![o] = d]

-----------------------------------------------------------------------------
(* Calls and the RWMutex.                                                  *)

Invoke(t) ==
    /\ pc[t] = "idle"
    /\ \E c \in Calls : c.key \in Touches[t] /\ call' = [call EXCEPT ![t] = c]
    /\ pc' = [pc EXCEPT ![t] = "called"]
    /\ UNCHANGED <<mem, ts, now, hold>>

RLock(t) ==
    /\ pc[t] = "called"
    /\ call[t].op \in ReadOps
    /\ Writers = {}
    /\ Goto(t, "rlocked")
    /\ UNCHANGED <<mem, ts, now, hold>>

(* Mutant: the writer does not wait for the readers.                       *)
Lock_PastReaders(t) ==
    /\ pc[t] = "called"
    /\ call[t].op \notin ReadOps
    /\ Writers = {}
    /\ Goto(t, "wlocked")
    /\ UNCHANGED <<mem, ts, now, hold>>

Lock(t) ==
    /\ pc[t] = "called"
    /\ call[t].op \notin ReadOps
    /\ Writers \cup Readers = {}
    /\ Goto(t, "wlocked")
    /\ UNCHANGED <<mem, ts, now, hold>>

-----------------------------------------------------------------------------
(* Get: three steps, only the first of them under the lock.                *)

GetLookup(t) ==
    /\ pc[t] = "rlocked" /\ call[t].op = "Get"
    /\ IF mem[KeyOf(t)] = Nil
       THEN Return(t) /\ UNCHANGED hold
       ELSE Goto(t, "check") /\ hold' = [hold EXCEPT ![t] = mem[KeyOf(t)]]
    /\ UNCHANGED <<mem, ts, now>>

GetCheck(t) ==
    /\ pc[t] = "check"
    /\ IF GetExpired(hold[t])
       THEN Goto(t, "reap") /\ UNCHANGED hold
       ELSE Return(t) /\ hold' = [hold EXCEPT ![t] = Nil]
    /\ UNCHANGED <<mem, ts, now>>

GetReap(t) ==
    /\ pc[t] = "reap"
    /\ mem' = [mem EXCEPT ![KeyOf(t)] = Nil]
    /\ hold' = [hold EXCEPT ![t] = Nil]
    /\ Return(t)
    /\ UNCHANGED <<ts, now>>

(* TTL: judged, and the key removed, under the read lock.                  *)
TTLCheck(t) ==
    /\ pc[t] = "rlocked" /\ call[t].op = "TTL"
    /\ IF mem[KeyOf(t)] # Nil /\ Expired(mem[KeyOf(t)])
       THEN Goto(t, "ttlReap")
       ELSE Return(t)
    /\ UNCHANGED <<mem, ts, now, hold>>

(* Mutant: the write lock is taken while the read lock is still held.      *)
TTLReap_Upgrade(t) ==
    /\ pc[t] = "ttlReap"
    /\ Writers \cup Readers = {}
    /\ mem' = [mem EXCEPT ![KeyOf(t)] = Nil]
    /\ Return(t)
    /\ UNCHANGED <<ts, now, hold>>

TTLReap(t) ==
    /\ pc[t] = "ttlReap"
    /\ mem' = [mem EXCEPT ![KeyOf(t)] = Nil]
    /\ Return(t)
    /\ UNCHANGED <<ts, now, hold>>

-----------------------------------------------------------------------------
(* Bodies that run under the write lock and release it.                    *)

Set(t) ==
    /\ pc[t] = "wlocked" /\ call[t].op = "Set"
    /\ Bind(t, 0)
    /\ Return(t)
    /\ UNCHANGED <<now, hold>>

SetWithTTL(t) ==
    /\ pc[t] = "wlocked" /\ call[t].op = "SetWithTTL"
    /\ Bind(t, Deadline(call[t].ttl))
    /\ Return(t)
    /\ UNCHANGED <<now, hold>>

Delete(t) ==
    /\ pc[t] = "wlocked" /\ call[t].op = "Delete"
    /\ mem' = [mem EXCEPT ![KeyOf(t)] = Nil]
    /\ Return(t)
    /\ UNCHANGED <<ts, now, hold>>

(* Mutant: an expired key that is still there gets a new deadline.         *)
Expire_Revives(t) ==
    LET o == mem[KeyOf(t)] IN
    /\ pc[t] = "wlocked" /\ call[t].op = "Expire"
    /\ \/ o = Nil /\ UNCHANGED ts
       \/ o # Nil /\ ts' = [ts EXCEPT ![o] = Deadline(call[t].ttl)]
    /\ Return(t)
    /\ UNCHANGED <<mem, now, hold>>

(* Changes the bound object in place; an expired key is removed instead.   *)
Expire(t) ==
    LET o == mem[KeyOf(t)] IN
    /\ pc[t] = "wlocked" /\ call[t].op = "Expire"
    /\ \/ o = Nil /\ UNCHANGED <<mem, ts>>
       \/ /\ o # Nil /\ Expired(o)
          /\ mem' = [mem EXCEPT ![KeyOf(t)] = Nil]
          /\ UNCHANGED ts
       \/ /\ o # Nil /\ ~Expired(o)
          /\ ts' = [ts EXCEPT ![o] = Deadline(call[t].ttl)]
          /\ UNCHANGED mem
    /\ Return(t)
    /\ UNCHANGED <<now, hold>>

CleanupExpired(t) ==
    LET dead == {k \in Keys : mem[k] # Nil /\ Expired(mem[k])} IN
    /\ pc[t] = "wlocked" /\ call[t].op = "CleanupExpired"
    /\ mem' = [k \in Keys |-> IF k \in dead THEN Nil ELSE mem[k]]
    /\ Return(t)
    /\ UNCHANGED <<ts, now, hold>>

-----------------------------------------------------------------------------
(* A map write that overlaps another access is undefined: the build runs   *)
(* on as if the accesses had been made in some order, or the runtime finds *)
(* out ("fatal error: concurrent map writes") and ends the process.        *)
InMap(t) == pc[t] \in {"rlocked", "wlocked", "reap", "ttlReap"}
InMapWrite(t) == pc[t] \in {"wlocked", "reap", "ttlReap"}
MapRace == \E t, u \in Threads : t # u /\ InMapWrite(t) /\ InMap(u)

MapFault ==
    /\ MapRace
    /\ pc' = [t \in Threads |-> "dead"]
    /\ UNCHANGED <<mem, ts, now, call, hold>>

Tick ==
    /\ now < MaxTime
    /\ now' = now + 1
    /\ UNCHANGED <<mem, ts, pc, call, hold>>

(* What a goroutine does by itself once it has entered a call.             *)
Body(t) ==
    \/ GetLookup(t) \/ GetCheck(t) \/ GetReap(t)
    \/ TTLCheck(t) \/ TTLReap(t)
    \/ Set(t) \/ SetWithTTL(t) \/ Delete(t) \/ Expire(t) \/ CleanupExpired(t)

Next ==
    \/ \E t \in Threads : Invoke(t) \/ RLock(t) \/ Lock(t) \/ Body(t)
    \/ MapFault
    \/ Tick

Spec == Init /\ [][Next]_vars

(* A runnable goroutine runs, and sync.RWMutex admits every waiter that    *)
(* finds it free again and again (its starvation mode, and readers queue   *)
(* behind a waiting writer).  No call is ever forced.                      *)
Fairness == \A t \in Threads : WF_vars(Body(t)) /\ SF_vars(RLock(t) \/ Lock(t))

FairSpec == Spec /\ Fairness

-----------------------------------------------------------------------------
TypeOK ==
    /\ mem \in [Keys -> ObjIds \cup {Nil}]
    /\ ts \in [ObjIds -> Nat]
    /\ now \in Nat
    /\ pc \in [Threads -> {"idle", "called", "rlocked", "wlocked", "check", "reap", "ttlReap", "dead"}]
    /\ call \in [Threads -> Calls \cup {NoCall}]
    /\ hold \in [Threads -> ObjIds \cup {Nil}]

(* Map writes under the lock never overlap another access: what races     *)
(* there are come from delete(m.Mem, key) in Get, which holds no lock, and *)
(* in TTL, which holds the read lock.                                      *)
Reaping(t) == pc[t] \in {"reap", "ttlReap"}
OnlyReapsRace == MapRace => \E t \in Threads : Reaping(t)

(* A key loses its object only by a DELETE of that key or because the      *)
(* object that is bound at that moment is past its deadline: reading never *)
(* destroys a live value.                                                  *)
Deleting(t, k) == pc[t] = "wlocked" /\ call[t].op = "Delete" /\ KeyOf(t) = k

LiveKeyKept ==
    \A k \in Keys :
        mem[k] # Nil /\ mem'[k] = Nil =>
            \/ Expired(mem[k])
            \/ \E t \in Threads : Deleting(t, k)

NoLiveKeyDropped == [][LiveKeyKept]_vars

(* Every call comes to its end, or the process does: no path waits for a   *)
(* lock it holds, or leaves with one that others wait for.                 *)
CallsReturn ==
    \A t \in Threads : pc[t] \notin {"idle", "dead"} ~> pc[t] \in {"idle", "dead"}

(* The store implements the atomic TTL map of TtlStore: the objects are    *)
(* the values, and a DELETE is asked for from its call to its body.        *)
DeadlineOfKey == [k \in Keys |-> IF mem[k] = Nil THEN 0 ELSE ts[mem[k]]]
KeyAsked == [t \in Threads |-> IF call[t].op = "Delete" THEN KeyOf(t) ELSE Nil]

Promise == INSTANCE TtlStore WITH
    Clients <- Threads,
    Values <- ObjIds,
    bound <- mem,
    deadline <- DeadlineOfKey,
    asked <- KeyAsked

ImplementsTtlStore == Promise!Spec

(* Keys belong to goroutines: no two of them call with the same key.       *)
DisjointKeys == \A t, u \in Threads : t # u => Touches[t] \cap Touches[u] = {}
=============================================================================
