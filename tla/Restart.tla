------------------------------- MODULE Restart -------------------------------
(***************************************************************************)
(* Restarts, seen by keys with deadlines: internal/shard/shard_manager.go  *)
(* over the ring, the memory's clock and the log files.                    *)
(*                                                                         *)
(* A process has n shards, each with a log file of the same number.  The   *)
(* ring gives a key its shard.  The next process may have another number   *)
(* of shards, starts at a later time, and replays the files of ITS shards, *)
(* in any order, with SetWithTTL for entries that have a deadline.  The    *)
(* log is written whether persistence is enabled or not; only the replay   *)
(* is left out.                                                            *)
(*                                                                         *)
(* Each command is one step here: the memory and the log together (their   *)
(* gaps are in Persistence and Commands), nothing is lost from a file, and *)
(* clients come when the replay is over.  A file is replayed within one    *)
(* second.                                                                 *)
(***************************************************************************)
EXTENDS Integers, Sequences, FiniteSetsExt, Ring

CONSTANTS
    Keys,
    Counts,       \* how many shards a process may have: Shard.ShardCount
    Hash,         \* hashKey, of the keys and of the shards 0 .. n - 1
    Texts,        \* values
    Nothing,      \* no value
    Durations,    \* what TTL.EXPIRE may be given: a number and a unit
    IntMax,       \* the largest int64
    MaxNow,       \* bound on the clock
    MaxLog,       \* bound on the entries of all files
    MaxRestarts   \* bound on the number of restarts

ShardIds == UNION {0 .. n - 1 : n \in Counts}

ASSUME RestartAssumption ==
    /\ Counts \subseteq Nat \ {0}
    /\ \A k \in Keys : Hash[k] \in Nat
    /\ \A s \in ShardIds : Hash[s] \in Nat
    /\ \A s, t \in ShardIds : Hash[s] = Hash[t] => s = t
    /\ Nothing \notin Texts
    /\ \A d \in Durations : d.num \in Int /\ d.unit \in {"s", "m"}
    /\ IntMax \in Nat

VARIABLES
    n,        \* shards of the process
    up,       \* whether there is a process
    todo,     \* shards whose file it has yet to replay
    mem,      \* the object of each key: [val, dl], dl 0 for no deadline
    files,    \* each file's entries: [key, val, dl], val Nothing for a deletion
    now,      \* the clock, in seconds
    skipped,  \* history: keys left out of a replay and not set since
    restarts

vars == <<n, up, todo, mem, files, now, skipped, restarts>>

NoObj == [val |-> Nothing, dl |-> 0]
Wrap(x) == ((x + IntMax + 1) % (2 * (IntMax + 1))) - IntMax - 1

Init ==
    /\ n \in Counts
    /\ up = TRUE /\ todo = {}
    /\ mem = [k \in Keys |-> NoObj]
    /\ files = [s \in ShardIds |-> <<>>]
    /\ now = 1
    /\ skipped = {}
    /\ restarts = 0

(* Mutant: the remainder of the hash, not the ring.                        *)
GetShardByKey_Modulo(count, k) == Hash[k] % count

(* NewShardManager puts 0 .. count - 1 on the ring; GetShardByKey.         *)
RingOf(count) ==
    [h \in {Hash[s] : s \in 0 .. count - 1} |-> CHOOSE s \in 0 .. count - 1 : Hash[s] = h]
GetShardByKey(count, k) == GetNode(RingOf(count), Hash[k])

Serving == up /\ todo = {}
Logged(s) == Len(files[s])
Room == Serving /\ FoldSet(LAMBDA s, sum : sum + Logged(s), 0, ShardIds) < MaxLog

Put(k, obj) ==
    files' = [files EXCEPT ![GetShardByKey(n, k)] =
                 Append(@, [key |-> k, val |-> obj.val, dl |-> obj.dl])]

-----------------------------------------------------------------------------
(* Commands.                                                               *)

SetKey(k, v) ==
    LET obj == [val |-> v, dl |-> 0]
    IN /\ Room
       /\ mem' = [mem EXCEPT ![k] = obj]
       /\ Put(k, obj)
       /\ skipped' = skipped \ {k}
       /\ UNCHANGED <<n, up, todo, now, restarts>>

DeleteKey(k) ==
    /\ Room /\ mem[k] # NoObj
    /\ mem' = [mem EXCEPT ![k] = NoObj]
    /\ Put(k, NoObj)
    /\ UNCHANGED <<n, up, todo, now, skipped, restarts>>

(* ParseDurationToSeconds.  Hours and days are as minutes, with a larger   *)
(* factor.                                                                 *)
Seconds(d) == Wrap(d.num * (CASE d.unit = "s" -> 1 [] d.unit = "m" -> 60))

(* Mutant: a duration that is not positive deletes the key.                *)
ExpireKey_DropsPast(k, d) ==
    LET ttl == Seconds(d)
    IN /\ Room /\ mem[k] # NoObj
       /\ IF ttl <= 0 \/ (mem[k].dl > 0 /\ now >= mem[k].dl)
          THEN mem' = [mem EXCEPT ![k] = NoObj] /\ UNCHANGED files
          ELSE LET obj == [mem[k] EXCEPT !.dl = Wrap(now + ttl)]
               IN mem' = [mem EXCEPT ![k] = obj] /\ Put(k, obj)
       /\ UNCHANGED <<n, up, todo, now, skipped, restarts>>

(* Mutant: the sum of clock and duration has room.                         *)
ExpireKey_Wide(k, d) ==
    LET ttl == Seconds(d)
    IN /\ Room /\ mem[k] # NoObj
       /\ IF mem[k].dl > 0 /\ now >= mem[k].dl
          THEN mem' = [mem EXCEPT ![k] = NoObj] /\ UNCHANGED files
          ELSE LET obj == [mem[k] EXCEPT !.dl = IF ttl > 0 THEN now + ttl ELSE 0]
               IN mem' = [mem EXCEPT ![k] = obj] /\ Put(k, obj)
       /\ UNCHANGED <<n, up, todo, now, skipped, restarts>>

(* TTL.EXPIRE: Memory.Expire, and the object with its deadline is logged.  *)
ExpireKey(k, d) ==
    LET ttl == Seconds(d)
    IN /\ Room /\ mem[k] # NoObj
       /\ IF mem[k].dl > 0 /\ now >= mem[k].dl
          THEN mem' = [mem EXCEPT ![k] = NoObj] /\ UNCHANGED files
          ELSE LET obj == [mem[k] EXCEPT !.dl = IF ttl > 0 THEN Wrap(now + ttl) ELSE 0]
               IN mem' = [mem EXCEPT ![k] = obj] /\ Put(k, obj)
       /\ UNCHANGED <<n, up, todo, now, skipped, restarts>>

(* Memory.Get and Memory.TTL drop what has expired, and nothing is logged. *)
(* They differ in the second of the deadline, and in a deadline that the   *)
(* addition has made negative.                                             *)
Expired(obj) == obj.dl > 0 /\ now > obj.dl

GetKey(k) ==
    /\ Serving /\ mem[k] # NoObj /\ Expired(mem[k])
    /\ mem' = [mem EXCEPT ![k] = NoObj]
    /\ UNCHANGED <<n, up, todo, files, now, skipped, restarts>>

TtlKey(k) ==
    /\ Serving /\ mem[k] # NoObj /\ mem[k].dl # 0 /\ now >= mem[k].dl
    /\ mem' = [mem EXCEPT ![k] = NoObj]
    /\ UNCHANGED <<n, up, todo, files, now, skipped, restarts>>

Tick ==
    /\ now < MaxNow
    /\ now' = now + 1
    /\ UNCHANGED <<n, up, todo, mem, files, skipped, restarts>>

-----------------------------------------------------------------------------
(* Restarts.                                                               *)

Stop ==
    /\ up /\ restarts < MaxRestarts
    /\ up' = FALSE /\ todo' = {}
    /\ mem' = [k \in Keys |-> NoObj]
    /\ restarts' = restarts + 1
    /\ UNCHANGED <<n, files, now, skipped>>

(* Start: RecoverMemory only if Persistence.Enable.                        *)
Start(count, enable) ==
    /\ ~up
    /\ up' = TRUE
    /\ n' = count
    /\ todo' = IF enable THEN 0 .. count - 1 ELSE {}
    /\ skipped' = IF enable THEN {} ELSE Keys
    /\ UNCHANGED <<mem, files, now, restarts>>

(* Mutant: the entry of a deletion is not told from one without an object. *)
Replay_IgnoresDeletes(m, e) ==
    IF e.val = Nothing THEN m
    ELSE [m EXCEPT ![e.key] = [val |-> e.val, dl |-> IF e.dl - now > 0 THEN e.dl ELSE 0]]

(* The callback of RecoverMemory: Delete, SetWithTTL with what is left of  *)
(* the deadline, or Set.  SetWithTTL gives no deadline when nothing is.    *)
Replay(m, e) ==
    [m EXCEPT ![e.key] = IF e.val = Nothing THEN NoObj
                         ELSE [val |-> e.val, dl |-> IF e.dl - now > 0 THEN e.dl ELSE 0]]

(* recoverShard: the callback for one entry of the file after the other.   *)
Replayed(m, f) ==
    LET upTo[i \in 0 .. Len(f)] == IF i = 0 THEN m ELSE Replay(upTo[i - 1], f[i])
    IN  upTo[Len(f)]

RecoverShard(s) ==
    /\ up /\ s \in todo
    /\ todo' = todo \ {s}
    /\ mem' = Replayed(mem, files[s])
    /\ UNCHANGED <<n, up, files, now, skipped, restarts>>

Next ==
    \/ \E k \in Keys : \/ \E v \in Texts : SetKey(k, v)
                       \/ DeleteKey(k)
                       \/ \E d \in Durations : ExpireKey(k, d)
                       \/ GetKey(k) \/ TtlKey(k)
    \/ Tick \/ Stop
    \/ \E count \in Counts, enable \in BOOLEAN : Start(count, enable)
    \/ \E s \in ShardIds : RecoverShard(s)

Spec == Init /\ [][Next]_vars

-----------------------------------------------------------------------------
(* Properties.                                                             *)

Deadlines == -(IntMax + 1) .. IntMax
Objects == {NoObj} \cup [val : Texts, dl : Deadlines]
LogEntries == [key : Keys, val : Texts \cup {Nothing}, dl : Deadlines]

(* Every variable has its type; deadlines are 64-bit integers.             *)
TypeOK ==
    /\ n \in Counts /\ up \in BOOLEAN /\ todo \subseteq ShardIds
    /\ mem \in [Keys -> Objects]
    /\ files \in [ShardIds -> Seq(LogEntries)]
    /\ now \in Nat /\ skipped \subseteq Keys /\ restarts \in Nat

(* The files that say anything of k, and the last thing each says.         *)
FilesOf(k) == {s \in ShardIds : \E i \in DOMAIN files[s] : files[s][i].key = k}
LastAt(f, k) == CHOOSE i \in DOMAIN f : f[i].key = k /\ \A j \in i + 1 .. Len(f) : f[j].key # k
LastIn(s, k) == files[s][LastAt(files[s], k)]

(* What the memory has may lack a deadline that had passed at the replay,  *)
(* or the whole object, if its deadline has passed since.                  *)
Agrees(obj, e) ==
    \/ obj.val = e.val /\ (obj.dl = e.dl \/ (obj.dl = 0 /\ e.dl <= now))
    \/ obj = NoObj /\ e.dl # 0 /\ e.dl <= now

(* Whatever the shard counts were, a process serves for each key what the  *)
(* last entry of one of the files it reads says; when the key has been in  *)
(* one file only, that is its last entry.  A key found in no file the      *)
(* process reads is absent.                                                *)
RecoveredAsLogged ==
    Serving => \A k \in Keys \ skipped :
        LET read == FilesOf(k) \cap (0 .. n - 1)
        IN IF read = {} THEN mem[k] = NoObj ELSE \E s \in read : Agrees(mem[k], LastIn(s, k))

(* A key leaves the memory by a deletion that is logged, with the process, *)
(* when its deadline has come, or when the sum of clock and duration had   *)
(* overflowed.                                                             *)
KeysLeaveWhenDue ==
    [][\A k \in Keys : mem[k] # NoObj /\ mem'[k] = NoObj =>
          \/ ~up' \/ files' # files \/ todo # {}
          \/ mem[k].dl > 0 /\ mem[k].dl <= now
          \/ mem[k].dl < 0]_vars

KeysMove ==
    \A k \in Keys :
        LET from == GetShardByKey(n, k)
            to == GetShardByKey(n', k)
        IN /\ n <= n' => to = from \/ to \in n .. n' - 1
           /\ n' <= n => to = from \/ from \in n' .. n - 1

(* When the number of shards grows, a key stays in its shard or moves to   *)
(* a new one; when it shrinks, the keys of the shards that are left stay.  *)
GrowthMovesOnlyToNew == [][KeysMove]_vars

(* TTL.EXPIRE: "after which the key will expire and be automatically       *)
(* deleted".  A key whose last logged deadline has passed cannot be read.  *)
ExpiredStaysGone ==
    Serving => \A k \in Keys : \A s \in FilesOf(k) :
        (FilesOf(k) = {s} /\ LastIn(s, k).dl \in 1 .. now - 1)
            => mem[k] = NoObj \/ Expired(mem[k])

=============================================================================
