---------------------------- MODULE Persistence ----------------------------
(***************************************************************************)
(* Commands over the memory and the log: commander/common/set.go and       *)
(* delete.go, commander/num_cmd, internal/shard/shard_manager.go,          *)
(* server/service_manager.go.                                              *)
(*                                                                         *)
(* A command changes the memory first and then puts the new value into the *)
(* log of the key's shard, with nothing that ties the two steps together.  *)
(* NUM.INCR and NUM.DECR read the memory before that.  A crash keeps the   *)
(* written part of each log; the next process replays the files one shard  *)
(* after the other, in a goroutine of its own, while the server is already *)
(* taking connections.                                                     *)
(*                                                                         *)
(* One memory step here is one call of Memory, and each log is the         *)
(* DurableLog that WalShard implements.  Keys have no expiry.              *)
(***************************************************************************)
EXTENDS Integers, Sequences, FiniteSetsExt

CONSTANTS
    Clients,       \* connections, each one goroutine
    Keys,
    Shards,        \* wal shards; the memory shard of a key has the same number
    Home,          \* Home[k]: the shard GetShardByKey gives for k
    Texts,         \* values SET stores, not numbers
    MaxNum,        \* numbers are 0 .. MaxNum; bounds the increments
    Nil,           \* no value
    Owns,          \* Owns[c]: the keys client c writes
    EarlyTraffic,  \* whether clients come before the recovery has ended
    Refuses,       \* whether the log may refuse an entry (backpressure) or drop it
    TornFiles,     \* whether a crash may leave a file recoverShard fails on
    MaxLog,        \* bound on the entries of all logs
    MaxCrashes     \* bound on the number of crashes

Nums == 0 .. MaxNum
Values == Nums \cup Texts

ASSUME PersistenceAssumption ==
    /\ Home \in [Keys -> Shards]
    /\ Owns \in [Clients -> SUBSET Keys]
    /\ MaxNum \in Nat /\ MaxLog \in Nat /\ MaxCrashes \in Nat
    /\ EarlyTraffic \in BOOLEAN /\ Refuses \in BOOLEAN /\ TornFiles \in BOOLEAN
    /\ Nil \notin Values \cup Shards \cup Nat
    /\ Texts \cap Nat = {}

VARIABLES
    mem,       \* the value of each key, over all memory shards, Nil for none
    log,       \* each shard's log: every entry accepted, less what a crash cut
    written,   \* how many entries of each log are in its file
    tear,      \* where recoverShard fails in each file, Nil if it does not
    pc,        \* each client: "idle", "read" (NUM.INCR), "put" (memory changed)
    cmd,       \* the entry the client's command will put: key and value
    phase,     \* recovery: "reading" or "done"
    todo,      \* recovery: shards whose file has not been opened
    cur,       \* recovery: the shard being read, Nil between two files
    pos,       \* recovery: entries of that file already replayed
    apart,     \* history: keys the log and the memory are known to differ on, since
               \* an entry was refused or the recovery did not read it
    crashes

server == <<pc, cmd>>
files == <<log, written, tear>>
recovery == <<phase, todo, cur, pos>>
vars == <<mem, files, server, recovery, apart, crashes>>

Entries == [key : Keys, val : Values \cup {Nil}]
Entry(k, v) == [key |-> k, val |-> v]
NoCmd == Entry(Nil, Nil)

Init ==
    /\ mem = [k \in Keys |-> Nil]
    /\ log = [s \in Shards |-> <<>>]
    /\ written = [s \in Shards |-> 0]
    /\ tear = [s \in Shards |-> Nil]
    /\ pc = [c \in Clients |-> "idle"]
    /\ cmd = [c \in Clients |-> NoCmd]
    /\ phase = "reading"
    /\ todo = Shards
    /\ cur = Nil
    /\ pos = 0
    /\ apart = {}
    /\ crashes = 0

-----------------------------------------------------------------------------
(* Commands: the memory first, then the log.                               *)

Serving == EarlyTraffic \/ phase = "done"

Change(c, k, v) ==
    /\ mem' = [mem EXCEPT ![k] = v]
    /\ cmd' = [cmd EXCEPT ![c] = Entry(k, v)]
    /\ pc' = [pc EXCEPT ![c] = "put"]
    /\ UNCHANGED <<files, recovery, apart, crashes>>

(* SET and NUM.SET.                                                        *)
SetKey(c) ==
    /\ Serving /\ pc[c] = "idle"
    /\ \E k \in Owns[c], v \in Values : Change(c, k, v)

(* Mutant: the deletion is not logged.                                     *)
DeleteKey_Unlogged(c) ==
    /\ Serving /\ pc[c] = "idle"
    /\ \E k \in Owns[c] : mem[k] # Nil /\ mem' = [mem EXCEPT ![k] = Nil]
    /\ UNCHANGED <<files, server, recovery, apart, crashes>>

(* DELETE of a key that is there; of any other it changes nothing.         *)
DeleteKey(c) ==
    /\ Serving /\ pc[c] = "idle"
    /\ \E k \in Owns[c] : mem[k] # Nil /\ Change(c, k, Nil)

(* NUM.INCR and NUM.DECR.  A value that is not a number is refused.        *)
Sums(v) == IF v = Nil THEN {1} ELSE {v + 1, v - 1}

NumberRead(c) ==
    /\ Serving /\ pc[c] = "idle"
    /\ \E k \in Owns[c] :
        /\ mem[k] \notin Texts
        /\ \E v \in Sums(mem[k]) \cap Nums : cmd' = [cmd EXCEPT ![c] = Entry(k, v)]
    /\ pc' = [pc EXCEPT ![c] = "read"]
    /\ UNCHANGED <<mem, files, recovery, apart, crashes>>

NumberWrite(c) ==
    /\ pc[c] = "read"
    /\ Change(c, cmd[c].key, cmd[c].val)

Answer(c) ==
    /\ pc' = [pc EXCEPT ![c] = "idle"]
    /\ cmd' = [cmd EXCEPT ![c] = NoCmd]

(* The entries of all logs.                                                *)
Logged == MapThenSumSet(LAMBDA s : Len(log[s]), Shards)

LogPut(c) ==
    LET s == Home[cmd[c].key] IN
    /\ pc[c] = "put"
    /\ Logged < MaxLog
    /\ log' = [log EXCEPT ![s] = Append(@, cmd[c])]
    /\ apart' = apart \ {cmd[c].key}
    /\ Answer(c)
    /\ UNCHANGED <<mem, written, tear, recovery, crashes>>

(* enqueue gives up, or the entry is accepted but cannot be marshalled and *)
(* never reaches the file; the command ignores the one, nobody learns of   *)
(* the other, and the answer is Ok.                                        *)
LogRefused(c) ==
    /\ pc[c] = "put"
    /\ Refuses
    /\ apart' = apart \cup {cmd[c].key}
    /\ Answer(c)
    /\ UNCHANGED <<mem, files, recovery, crashes>>

(* Mutant: one entry more than there are counts as written.                *)
Persist_OneMore(s) ==
    /\ \E n \in written[s] + 1 .. Len(log[s]) + 1 : written' = [written EXCEPT ![s] = n]
    /\ UNCHANGED <<mem, log, tear, server, recovery, apart, crashes>>

(* The log shard writes its batch.                                         *)
Persist(s) ==
    /\ \E n \in written[s] + 1 .. Len(log[s]) : written' = [written EXCEPT ![s] = n]
    /\ UNCHANGED <<mem, log, tear, server, recovery, apart, crashes>>

-----------------------------------------------------------------------------
(* Crash, start, recovery.                                                 *)

(* A new process: nothing in memory, no connection, every file to be read. *)
StartProcess ==
    /\ mem' = [k \in Keys |-> Nil]
    /\ pc' = [c \in Clients |-> "idle"]
    /\ cmd' = [c \in Clients |-> NoCmd]
    /\ phase' = "reading"
    /\ todo' = Shards
    /\ cur' = Nil
    /\ pos' = 0
    /\ apart' = {}

(* Mutant: the next process truncates the files when it opens them.        *)
Crash_Truncates ==
    /\ crashes < MaxCrashes
    /\ crashes' = crashes + 1
    /\ log' = [s \in Shards |-> <<>>]
    /\ written' = [s \in Shards |-> 0]
    /\ tear' = [s \in Shards |-> Nil]
    /\ StartProcess

Crash ==
    /\ crashes < MaxCrashes
    /\ crashes' = crashes + 1
    /\ log' = [s \in Shards |-> SubSeq(log[s], 1, written[s])]
    /\ \E S \in SUBSET {s \in Shards : TornFiles /\ written[s] < Len(log[s]) /\ tear[s] = Nil} :
          tear' = [s \in Shards |-> IF s \in S THEN written[s] ELSE tear[s]]
    /\ StartProcess
    /\ UNCHANGED written

(* Recover: the files in the random order of a Go map.                     *)
OpenFile(s) ==
    /\ phase = "reading" /\ cur = Nil
    /\ s \in todo
    /\ todo' = todo \ {s}
    /\ cur' = s
    /\ pos' = 0
    /\ UNCHANGED <<mem, files, server, phase, apart, crashes>>

Readable(s) == IF tear[s] = Nil THEN written[s] ELSE tear[s]

(* Mutant: deletions are not replayed.                                     *)
Replay_NoDeletes ==
    LET e == log[cur][pos + 1] IN
    /\ cur # Nil
    /\ pos < Readable(cur)
    /\ mem' = IF e.val = Nil THEN mem ELSE [mem EXCEPT ![e.key] = e.val]
    /\ pos' = pos + 1
    /\ UNCHANGED <<files, server, phase, todo, cur, apart, crashes>>

(* recoverShard and RecoverMemory's callback: M.Set or M.Delete.           *)
Replay ==
    LET e == log[cur][pos + 1] IN
    /\ cur # Nil
    /\ pos < Readable(cur)
    /\ mem' = [mem EXCEPT ![e.key] = e.val]
    /\ pos' = pos + 1
    /\ UNCHANGED <<files, server, phase, todo, cur, apart, crashes>>

(* The keys of the shards whose file was not read, or not to its end.      *)
Unread == {k \in Keys : Home[k] \in todo \/ Readable(Home[k]) < written[Home[k]]}

(* An error ends the recovery; RecoverMemory drops it.                     *)
EndOfFile ==
    /\ cur # Nil
    /\ pos >= Readable(cur)
    /\ cur' = Nil
    /\ IF tear[cur] # Nil \/ todo = {}
       THEN phase' = "done" /\ apart' = Unread
       ELSE UNCHANGED <<phase, apart>>
    /\ UNCHANGED <<mem, files, server, todo, pos, crashes>>

-----------------------------------------------------------------------------
Command(c) ==
    \/ SetKey(c) \/ DeleteKey(c) \/ NumberRead(c) \/ NumberWrite(c)
    \/ LogPut(c) \/ LogRefused(c)

Next ==
    \/ \E c \in Clients : Command(c)
    \/ \E s \in Shards : Persist(s) \/ OpenFile(s)
    \/ Replay \/ EndOfFile
    \/ Crash

Spec == Init /\ [][Next]_vars

-----------------------------------------------------------------------------
TypeOK ==
    /\ mem \in [Keys -> Values \cup {Nil}]
    /\ log \in [Shards -> Seq(Entries)]
    /\ written \in [Shards -> Nat]
    /\ \A s \in Shards : written[s] <= Len(log[s])
    /\ tear \in [Shards -> Nat \cup {Nil}]
    /\ \A s \in Shards : tear[s] # Nil => tear[s] <= written[s]
    /\ pc \in [Clients -> {"idle", "read", "put"}]
    /\ cmd \in [Clients -> Entries \cup {NoCmd}]
    /\ phase \in {"reading", "done"}
    /\ todo \subseteq Shards
    /\ cur \in Shards \cup {Nil}
    /\ pos \in Nat
    /\ apart \subseteq Keys
    /\ crashes \in Nat

(* Replaying the first n entries of l leaves k with the value v.           *)
Yields(l, n, k, v) ==
    \/ v = Nil /\ \A i \in 1 .. n : l[i].key # k
    \/ \E i \in 1 .. n :
        /\ l[i] = Entry(k, v)
        /\ \A j \in i + 1 .. n : l[j].key # k

InFlight(k) == \E c \in Clients : pc[c] = "put" /\ cmd[c].key = k

(* What the log would restore is what the memory holds, for every key no   *)
(* command is half way through changing, but for those whose last entry    *)
(* was refused or lies in what an error kept the recovery from reading: a  *)
(* restart loses nothing else but the entries that were not written, and   *)
(* brings nothing back; and a key gets into agreement again with the next  *)
(* entry the log takes for it.                                             *)
LogAgreesWithMemory ==
    phase = "done" =>
        \A k \in Keys \ apart :
            InFlight(k) \/ Yields(log[Home[k]], Len(log[Home[k]]), k, mem[k])

(* When the recovery ends, and no client came before, the memory is what   *)
(* the readable part of each file it has read says, key by key, and holds  *)
(* nothing of a file it has not: whatever was refused or damaged, there is *)
(* no half-applied entry and no deleted key that comes back.               *)
RecoveryRestoresFiles ==
    [][~EarlyTraffic /\ phase = "reading" /\ phase' = "done" =>
         \A k \in Keys :
            LET s == Home[k] IN
            IF s \in todo THEN mem[k] = Nil
            ELSE Yields(log[s], Readable(s), k, mem[k])]_vars

(* Every step is, for each log, a step of the DurableLog that WalShard     *)
(* implements, with the written entries as the safe ones, or leaves it.    *)
ShardLog(s) == INSTANCE DurableLog WITH entries <- log[s], safe <- written[s]
LogsAreDurable == [][\A s \in Shards : [ShardLog(s)!Next]_<<log[s], written[s]>>]_vars

(* No two clients write the same key.                                      *)
OneWriterPerKey == \A c, d \in Clients : c # d => Owns[c] \cap Owns[d] = {}
=============================================================================
