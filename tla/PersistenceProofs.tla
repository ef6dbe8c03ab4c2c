--------------------------- MODULE PersistenceProofs ---------------------------
(***************************************************************************)
(* Proofs about Persistence, for any clients, keys, shards and placement.  *)
(***************************************************************************)
EXTENDS Persistence, TLAPS

(* A client in a command works on an entry for one of its keys.            *)
CommandOK ==
    \A c \in Clients : pc[c] # "idle" => cmd[c] \in Entries /\ cmd[c].key \in Owns[c]

TypeInv == TypeOK /\ CommandOK

LEMMA EntryFacts ==
    /\ \A k \in Keys, v \in Values \cup {Nil} :
          Entry(k, v) \in Entries /\ Entry(k, v).key = k /\ Entry(k, v).val = v
    /\ \A e \in Entries : e.key \in Keys /\ e.val \in Values \cup {Nil} /\ e = Entry(e.key, e.val)
  BY DEF Entry, Entries

LEMMA HomeFacts == \A k \in Keys : Home[k] \in Shards
  BY PersistenceAssumption

LEMMA ReadableFacts ==
    ASSUME TypeOK, NEW s \in Shards
    PROVE  Readable(s) \in Nat /\ Readable(s) <= written[s] /\ written[s] <= Len(log[s])
  BY PersistenceAssumption DEF TypeOK, Readable

(* A command that changes the memory keeps the types.                      *)
LEMMA ChangeType ==
    ASSUME TypeInv, NEW c \in Clients, NEW k \in Owns[c], NEW v \in Values \cup {Nil}, Change(c, k, v)
    PROVE  TypeInv'
<1>1. k \in Keys /\ Entry(k, v) \in Entries /\ Entry(k, v).key = k
  BY EntryFacts, PersistenceAssumption
<1>2. /\ UNCHANGED <<log, written, tear, phase, todo, cur, pos, apart, crashes>>
      /\ mem' = [mem EXCEPT ![k] = v]
      /\ cmd' = [cmd EXCEPT ![c] = Entry(k, v)]
      /\ pc' = [pc EXCEPT ![c] = "put"]
  BY DEF Change, files, recovery
<1> QED
  BY <1>1, <1>2 DEF TypeInv, TypeOK, CommandOK

(* The types of the variables are preserved.                               *)
LEMMA TypeStep == TypeInv /\ [Next]_vars => TypeInv'
<1> SUFFICES ASSUME TypeOK, CommandOK, [Next]_vars PROVE TypeInv'
  BY DEF TypeInv
<1> USE DEF TypeInv, TypeOK, CommandOK
<1>1. ASSUME NEW c \in Clients, SetKey(c) \/ DeleteKey(c) \/ NumberWrite(c) PROVE TypeInv'
  <2>1. CASE SetKey(c) \/ DeleteKey(c)
    BY <2>1, ChangeType DEF SetKey, DeleteKey
  <2>2. CASE NumberWrite(c)
    BY <2>2, ChangeType, EntryFacts DEF NumberWrite
  <2> QED
    BY <1>1, <2>1, <2>2
<1>2. ASSUME NEW c \in Clients, NumberRead(c) PROVE TypeInv'
  <2>1. PICK k \in Owns[c], v \in Nums : cmd' = [cmd EXCEPT ![c] = Entry(k, v)]
    BY <1>2 DEF NumberRead
  <2>2. Entry(k, v) \in Entries /\ Entry(k, v).key = k
    BY EntryFacts, PersistenceAssumption DEF Values
  <2> QED
    BY <1>2, <2>1, <2>2 DEF NumberRead, files, recovery
<1>3. ASSUME NEW c \in Clients, LogPut(c) \/ LogRefused(c) PROVE TypeInv'
  <2>1. UNCHANGED <<mem, written, tear, phase, todo, cur, pos, crashes>>
    BY <1>3 DEF LogPut, LogRefused, files, recovery
  <2>0. apart' \subseteq Keys
    BY <1>3, EntryFacts DEF LogPut, LogRefused
  <2>2. pc' = [pc EXCEPT ![c] = "idle"] /\ cmd' = [cmd EXCEPT ![c] = NoCmd]
    BY <1>3 DEF LogPut, LogRefused, Answer
  <2>3. log' \in [Shards -> Seq(Entries)] /\ \A s \in Shards : Len(log[s]) <= Len(log'[s])
    <3>1. CASE log' = log
      BY <3>1
    <3>2. CASE LogPut(c)
      <4>1. cmd[c] \in Entries /\ Home[cmd[c].key] \in Shards
        BY <3>2, EntryFacts, HomeFacts DEF LogPut
      <4> QED
        BY <3>2, <4>1 DEF LogPut
    <3> QED
      BY <1>3, <3>1, <3>2 DEF LogRefused, files
  <2> QED
    BY <2>0, <2>1, <2>2, <2>3
<1>4. ASSUME NEW s \in Shards, Persist(s) PROVE TypeInv'
  <2>1. PICK n \in written[s] + 1 .. Len(log[s]) : written' = [written EXCEPT ![s] = n]
    BY <1>4 DEF Persist
  <2> QED
    BY <1>4, <2>1, PersistenceAssumption DEF Persist, server, recovery
<1>5. ASSUME NEW s \in Shards, OpenFile(s) PROVE TypeInv'
  BY <1>5 DEF OpenFile, files, server
<1>6. CASE Replay
  <2>1. cur \in Shards /\ pos + 1 \in 1 .. Len(log[cur])
    BY <1>6, ReadableFacts DEF Replay
  <2>2. log[cur][pos + 1] \in Entries
    BY <2>1
  <2> QED
    BY <1>6, <2>2, EntryFacts DEF Replay, files, server
<1>7. CASE EndOfFile
  BY <1>7 DEF EndOfFile, Unread, files, server
<1>8. CASE Crash
  <2>1. /\ log' = [s \in Shards |-> SubSeq(log[s], 1, written[s])]
        /\ written' = written
        /\ crashes' \in Nat
    BY <1>8 DEF Crash
  <2>2. log' \in [Shards -> Seq(Entries)] /\ \A s \in Shards : Len(log'[s]) = written[s]
    BY <2>1
  <2>3. /\ tear' \in [Shards -> Nat \cup {Nil}]
        /\ \A s \in Shards : tear'[s] # Nil => tear'[s] <= written[s]
    BY <1>8 DEF Crash
  <2> QED
    BY <1>8, <2>1, <2>2, <2>3 DEF Crash, StartProcess
<1>9. CASE UNCHANGED vars
  BY <1>9 DEF vars, files, server, recovery
<1> QED
  BY <1>1, <1>2, <1>3, <1>4, <1>5, <1>6, <1>7, <1>8, <1>9 DEF Next, Command

(* Every variable keeps its type; no file holds more than was put into the *)
(* log.                                                                    *)
THEOREM TypeCorrect == Spec => []TypeOK
<1>1. Init => TypeInv
  BY DEF Init, TypeInv, TypeOK, CommandOK
<1>2. TypeInv => TypeOK
  BY DEF TypeInv
<1> QED
  BY <1>1, <1>2, TypeStep, PTL DEF Spec

-----------------------------------------------------------------------------
(* What the entries of a log leave.                                        *)

(* No entry says nothing.                                                  *)
LEMMA YieldsNothing ==
    ASSUME NEW l, NEW k
    PROVE  Yields(l, 0, k, Nil)
  BY DEF Yields

(* The next entry decides for its own key and for no other.                *)
LEMMA YieldsNext ==
    ASSUME NEW l \in Seq(Entries), NEW n \in Nat, n + 1 <= Len(l),
           NEW k \in Keys, NEW v, Yields(l, n, k, v)
    PROVE  Yields(l, n + 1, k, IF l[n + 1].key = k THEN l[n + 1].val ELSE v)
<1>1. l[n + 1] = Entry(l[n + 1].key, l[n + 1].val)
  BY EntryFacts
<1> QED
  BY <1>1 DEF Yields

(* So does the entry put at the end of a log.                              *)
LEMMA YieldsAppend ==
    ASSUME NEW l \in Seq(Entries), NEW e \in Entries
    PROVE  LET m == Append(l, e) IN
           /\ Yields(m, Len(m), e.key, e.val)
           /\ \A k \in Keys : \A v :
                 k # e.key /\ Yields(l, Len(l), k, v) => Yields(m, Len(m), k, v)
<1> DEFINE m == Append(l, e)
<1>1. /\ Len(m) = Len(l) + 1 /\ Len(l) \in Nat
      /\ m[Len(l) + 1] = e
      /\ \A i \in 1 .. Len(l) : m[i] = l[i]
  OBVIOUS
<1>2. e = Entry(e.key, e.val)
  BY EntryFacts
<1> HIDE DEF m
<1>3. Yields(m, Len(m), e.key, e.val)
  BY <1>1, <1>2 DEF Yields
<1>4. ASSUME NEW k \in Keys, NEW v, k # e.key, Yields(l, Len(l), k, v)
      PROVE  Yields(m, Len(m), k, v)
  <2>1. CASE v = Nil /\ \A i \in 1 .. Len(l) : l[i].key # k
    BY <1>1, <1>4, <2>1 DEF Yields
  <2>2. CASE \E i \in 1 .. Len(l) : l[i] = Entry(k, v) /\ \A j \in i + 1 .. Len(l) : l[j].key # k
    <3>1. PICK i \in 1 .. Len(l) : l[i] = Entry(k, v) /\ \A j \in i + 1 .. Len(l) : l[j].key # k
      BY <2>2
    <3>2. i \in 1 .. Len(m) /\ m[i] = Entry(k, v)
      BY <1>1, <3>1
    <3>3. \A j \in i + 1 .. Len(m) : m[j].key # k
      BY <1>1, <1>4, <3>1
    <3> QED
      BY <3>2, <3>3 DEF Yields
  <2> QED
    BY <1>4, <2>1, <2>2 DEF Yields
<1> QED
  BY <1>3, <1>4 DEF m

-----------------------------------------------------------------------------
(* Recovery before any traffic.  Up to the file that is being read, the    *)
(* memory is what the entries read so far say; a file not opened yet has   *)
(* brought nothing.                                                        *)

Played(s) == IF s \in todo THEN 0 ELSE IF s = cur THEN pos ELSE Readable(s)

OwnEntries == \A s \in Shards : \A i \in 1 .. Len(log[s]) : Home[log[s][i].key] = s

Restored == \A k \in Keys : Yields(log[Home[k]], Played(Home[k]), k, mem[k])

RecoveryInv ==
    /\ OwnEntries
    /\ cur # Nil => phase = "reading" /\ cur \notin todo /\ pos <= Readable(cur)
    /\ phase = "reading" =>
          /\ \A c \in Clients : pc[c] = "idle"
          /\ \A s \in Shards : written[s] = Len(log[s])
          /\ Restored

(* The entries that go into a log are those of its own keys.               *)
LEMMA OwnEntriesStep == TypeInv /\ OwnEntries /\ [Next]_vars => OwnEntries'
<1> SUFFICES ASSUME TypeOK, CommandOK, OwnEntries, [Next]_vars PROVE OwnEntries'
  BY DEF TypeInv
<1>1. CASE log' = log
  BY <1>1 DEF OwnEntries
<1>2. ASSUME NEW c \in Clients, LogPut(c) PROVE OwnEntries'
  <2>1. cmd[c] \in Entries /\ Home[cmd[c].key] \in Shards
    BY <1>2, EntryFacts, HomeFacts DEF LogPut, CommandOK
  <2> QED
    BY <1>2, <2>1 DEF LogPut, TypeOK, OwnEntries
<1>3. CASE Crash
  <2>1. \A s \in Shards : log'[s] = SubSeq(log[s], 1, written[s])
    BY <1>3 DEF Crash
  <2>2. ASSUME NEW s \in Shards, NEW i \in 1 .. Len(log'[s]) PROVE Home[log'[s][i].key] = s
    <3>1. log[s] \in Seq(Entries) /\ written[s] \in 0 .. Len(log[s])
      BY DEF TypeOK
    <3>2. Len(log'[s]) = written[s] /\ log'[s][i] = log[s][i]
      BY <2>1, <2>2, <3>1
    <3> QED
      BY <2>2, <3>1, <3>2 DEF OwnEntries
  <2> QED
    BY <2>2 DEF OwnEntries
<1>4. ASSUME NEW c \in Clients, Command(c), ~LogPut(c) PROVE log' = log
  BY <1>4 DEF Command, SetKey, DeleteKey, NumberRead, NumberWrite, LogRefused, Change, files
<1>5. ASSUME Next, ~Crash, \A c \in Clients : ~Command(c) PROVE log' = log
  BY <1>5 DEF Next, Persist, OpenFile, Replay, EndOfFile, files
<1>6. ASSUME UNCHANGED vars PROVE log' = log
  BY <1>6 DEF vars, files
<1> QED
  BY <1>1, <1>2, <1>3, <1>4, <1>5, <1>6

LEMMA RecoveryStep ==
    ASSUME ~EarlyTraffic
    PROVE  TypeInv /\ RecoveryInv /\ [Next]_vars => RecoveryInv'
<1> SUFFICES ASSUME TypeInv, RecoveryInv, [Next]_vars PROVE RecoveryInv'
  OBVIOUS
<1>0. TypeOK /\ CommandOK /\ OwnEntries'
  BY OwnEntriesStep DEF TypeInv, RecoveryInv
<1> USE DEF RecoveryInv
<1>1. ASSUME NEW c \in Clients, Command(c) PROVE RecoveryInv'
  <2>1. phase = "done" /\ cur = Nil
    BY <1>1 DEF Command, SetKey, DeleteKey, NumberRead, NumberWrite, LogPut, LogRefused,
       Serving, TypeInv, TypeOK
  <2>2. phase' = phase /\ cur' = cur
    BY <1>1 DEF Command, SetKey, DeleteKey, NumberRead, NumberWrite, LogPut, LogRefused,
       Change, recovery
  <2> QED
    BY <1>0, <2>1, <2>2
<1>2. ASSUME NEW s \in Shards, Persist(s) PROVE RecoveryInv'
  <2>1. phase = "done" /\ cur = Nil
    BY <1>0, <1>2, PersistenceAssumption DEF Persist, TypeOK
  <2> QED
    BY <1>0, <1>2, <2>1 DEF Persist, recovery
<1>3. ASSUME NEW s \in Shards, OpenFile(s) PROVE RecoveryInv'
  <2>1. UNCHANGED <<log, written, tear, pc, cmd, mem, phase>>
    BY <1>3 DEF OpenFile, files, server
  <2>2. \A r \in Shards : Played(r)' = Played(r)
    BY <1>0, <1>3, <2>1, PersistenceAssumption DEF OpenFile, Played, Readable, TypeOK
  <2>3. Restored'
    BY <1>3, <2>1, <2>2, HomeFacts DEF OpenFile, Restored
  <2>4. 0 <= Readable(s) /\ Readable(s)' = Readable(s)
    BY <1>0, <2>1, ReadableFacts DEF Readable
  <2> QED
    BY <1>0, <1>3, <2>1, <2>3, <2>4 DEF OpenFile
<1>4. CASE Replay
  <2>1. UNCHANGED <<log, written, tear, pc, cmd, phase, todo, cur>> /\ pos' = pos + 1
    BY <1>4 DEF Replay, files, server
  <2>2. /\ cur \in Shards /\ cur \notin todo /\ log[cur] \in Seq(Entries)
        /\ pos \in Nat /\ Readable(cur) \in Nat /\ pos < Readable(cur)
        /\ pos + 1 <= Len(log[cur]) /\ phase = "reading"
    BY <1>0, <1>4, ReadableFacts DEF Replay, TypeOK
  <2>3. /\ mem' = [mem EXCEPT ![log[cur][pos + 1].key] = log[cur][pos + 1].val]
        /\ Home[log[cur][pos + 1].key] = cur
    BY <1>4, <2>2 DEF Replay, OwnEntries
  <2>4. ASSUME NEW k \in Keys
        PROVE  Yields(log[Home[k]], Played(Home[k])', k, mem'[k])
    <3>1. CASE Home[k] = cur
      <4>1. Played(Home[k]) = pos /\ Played(Home[k])' = pos + 1
        BY <2>1, <2>2, <3>1 DEF Played
      <4>2. mem'[k] = IF log[cur][pos + 1].key = k THEN log[cur][pos + 1].val ELSE mem[k]
        BY <1>0, <2>3 DEF TypeOK
      <4>3. Yields(log[cur], pos, k, mem[k])
        BY <2>2, <3>1, <4>1 DEF Restored
      <4>4. Yields(log[cur], pos + 1, k, mem'[k])
        BY <2>2, <4>2, <4>3, YieldsNext
      <4> QED
        BY <3>1, <4>1, <4>4
    <3>2. CASE Home[k] # cur
      <4>1. Played(Home[k])' = Played(Home[k]) /\ mem'[k] = mem[k]
        BY <1>0, <2>1, <2>3, <3>2 DEF Played, Readable, TypeOK
      <4> QED
        BY <2>2, <4>1 DEF Restored
    <3> QED
      BY <3>1, <3>2
  <2>5. Restored'
    BY <2>1, <2>4 DEF Restored
  <2>6. Readable(cur)' = Readable(cur)
    BY <2>1 DEF Readable
  <2> QED
    BY <1>0, <2>1, <2>2, <2>5, <2>6
<1>5. CASE EndOfFile
  <2>1. UNCHANGED <<mem, log, written, tear, pc, cmd, todo>> /\ cur' = Nil
    BY <1>5 DEF EndOfFile, files, server
  <2>2. cur \in Shards /\ pos = Readable(cur) /\ phase = "reading"
    BY <1>0, <1>5, ReadableFacts DEF EndOfFile, TypeOK
  <2>3. \A r \in Shards : Played(r)' = Played(r)
    BY <2>1, <2>2, PersistenceAssumption DEF Played, Readable
  <2>4. Restored'
    BY <2>1, <2>2, <2>3, HomeFacts DEF Restored
  <2> QED
    BY <1>0, <2>1, <2>2, <2>4
<1>6. CASE Crash
  <2>1. /\ mem' = [k \in Keys |-> Nil]
        /\ todo' = Shards /\ cur' = Nil
        /\ pc' = [c \in Clients |-> "idle"]
        /\ written' = written
        /\ log' = [s \in Shards |-> SubSeq(log[s], 1, written[s])]
    BY <1>6 DEF Crash, StartProcess
  <2>2. \A s \in Shards : Len(log'[s]) = written[s]
    BY <1>0, <2>1 DEF TypeOK
  <2>3. \A k \in Keys : Played(Home[k])' = 0
    BY <2>1, HomeFacts DEF Played
  <2>4. Restored'
    BY <2>1, <2>3, YieldsNothing DEF Restored
  <2> QED
    BY <1>0, <2>1, <2>2, <2>4
<1>7. CASE UNCHANGED vars
  BY <1>0, <1>7 DEF vars, files, server, recovery, Restored, Played, Readable
<1> QED
  BY <1>1, <1>2, <1>3, <1>4, <1>5, <1>6, <1>7 DEF Next

LEMMA RecoveryInvariant ==
    ASSUME ~EarlyTraffic
    PROVE  Spec => [](TypeInv /\ RecoveryInv)
<1>1. Init => TypeInv /\ RecoveryInv
  <2> SUFFICES ASSUME Init PROVE TypeInv /\ RecoveryInv
    OBVIOUS
  <2>1. Restored
    BY HomeFacts, YieldsNothing DEF Init, Restored, Played
  <2> QED
    BY <2>1 DEF Init, TypeInv, TypeOK, CommandOK, RecoveryInv, OwnEntries
<1>2. TypeInv /\ RecoveryInv /\ [Next]_vars => RecoveryInv'
  BY RecoveryStep
<1> QED
  BY <1>1, <1>2, TypeStep, PTL DEF Spec

(* Where clients wait for the recovery, it ends with the memory the files  *)
(* say, whatever the log refused, whichever file is damaged and whoever    *)
(* writes which keys.                                                      *)
THEOREM RecoveryRestores ==
    ASSUME ~EarlyTraffic
    PROVE  Spec => RecoveryRestoresFiles
<1> DEFINE FilesSay(k) ==
        LET s == Home[k] IN
        IF s \in todo THEN mem[k] = Nil ELSE Yields(log[s], Readable(s), k, mem[k])
<1>1. TypeInv /\ RecoveryInv /\ [Next]_vars =>
        (phase = "reading" /\ phase' = "done" => \A k \in Keys : FilesSay(k)) \/ UNCHANGED vars
  <2> SUFFICES ASSUME TypeOK, RecoveryInv, [Next]_vars, phase = "reading", phase' = "done",
                      NEW k \in Keys
               PROVE  FilesSay(k)
    BY DEF TypeInv
  <2>1. EndOfFile
    BY DEF Next, Command, SetKey, DeleteKey, NumberRead, NumberWrite, LogPut, LogRefused, Change,
       Persist, OpenFile, Replay, Crash, StartProcess, recovery, vars
  <2>2. pos = Readable(cur)
    BY <2>1, ReadableFacts DEF EndOfFile, RecoveryInv, TypeOK
  <2>3. Yields(log[Home[k]], Played(Home[k]), k, mem[k])
    BY DEF RecoveryInv, Restored
  <2>4. CASE Home[k] \in todo
    BY <2>3, <2>4 DEF Played, Yields
  <2>5. CASE Home[k] \notin todo
    BY <2>2, <2>3, <2>5 DEF Played
  <2> QED
    BY <2>4, <2>5
<1> QED
  BY <1>1, RecoveryInvariant, PTL DEF Spec, RecoveryRestoresFiles

-----------------------------------------------------------------------------
(* The log keeps up with the memory.  Needs one writer per key and clients *)
(* that wait for the recovery.                                             *)

Orderly == OneWriterPerKey /\ ~EarlyTraffic

ServingInv ==
    /\ \A c \in Clients : pc[c] = "put" => mem[cmd[c].key] = cmd[c].val
    /\ LogAgreesWithMemory

(* A command that changes the memory puts its own key in flight.           *)
LEMMA ServingChange ==
    ASSUME Orderly, TypeInv, ServingInv, phase = "done", NEW c \in Clients, pc[c] # "put",
           NEW k \in Owns[c], NEW v \in Values \cup {Nil}, Change(c, k, v)
    PROVE  ServingInv'
<1>1. /\ UNCHANGED <<log, written, tear, phase, todo, cur, pos, apart>>
      /\ k \in Keys /\ Entry(k, v).key = k /\ Entry(k, v).val = v
      /\ mem' = [mem EXCEPT ![k] = v]
      /\ cmd' = [cmd EXCEPT ![c] = Entry(k, v)]
      /\ pc' = [pc EXCEPT ![c] = "put"]
  BY PersistenceAssumption, EntryFacts DEF Change, files, recovery
<1>2. mem'[k] = v /\ \A l \in Keys : l # k => mem'[l] = mem[l]
  BY <1>1 DEF TypeInv, TypeOK
<1>3. pc'[c] = "put" /\ cmd'[c] = Entry(k, v)
  BY <1>1 DEF TypeInv, TypeOK
<1>4. \A d \in Clients : d # c => pc'[d] = pc[d] /\ cmd'[d] = cmd[d]
  BY <1>1 DEF TypeInv, TypeOK
<1>5. ASSUME NEW d \in Clients, pc'[d] = "put" PROVE mem'[cmd'[d].key] = cmd'[d].val
  <2>1. CASE d = c
    BY <1>1, <1>2, <1>3, <2>1
  <2>2. CASE d # c
    <3>1. pc[d] = "put" /\ cmd[d] \in Entries /\ cmd[d].key \in Owns[d]
      BY <1>4, <1>5, <2>2 DEF TypeInv, CommandOK
    <3>2. cmd[d].key \in Keys /\ cmd[d].key # k
      BY <2>2, <3>1, EntryFacts DEF Orderly, OneWriterPerKey
    <3> QED
      BY <1>2, <1>4, <2>2, <3>1, <3>2 DEF ServingInv
  <2> QED
    BY <2>1, <2>2
<1>6. InFlight(k)'
  BY <1>1, <1>3 DEF InFlight
<1>7. ASSUME NEW l \in Keys, InFlight(l) PROVE InFlight(l)'
  BY <1>4, <1>7 DEF InFlight
<1>8. LogAgreesWithMemory'
  BY <1>1, <1>2, <1>6, <1>7 DEF LogAgreesWithMemory, ServingInv
<1> QED
  BY <1>1, <1>5, <1>8 DEF ServingInv

(* Putting the entry into the log brings its key back into agreement.      *)
LEMMA ServingPut ==
    ASSUME Orderly, TypeInv, RecoveryInv, ServingInv, NEW c \in Clients, LogPut(c)
    PROVE  ServingInv'
<1> DEFINE e == cmd[c]
           s == Home[e.key]
<1>1. /\ e \in Entries /\ e.key \in Keys /\ s \in Shards
      /\ e.key \in Owns[c] /\ mem[e.key] = e.val
  BY EntryFacts, HomeFacts DEF LogPut, TypeInv, CommandOK, ServingInv
<1>2. /\ UNCHANGED <<mem, written, tear, phase, todo, cur, pos>>
      /\ log' = [log EXCEPT ![s] = Append(log[s], e)]
      /\ apart' = apart \ {e.key}
      /\ pc' = [pc EXCEPT ![c] = "idle"]
      /\ cmd' = [cmd EXCEPT ![c] = NoCmd]
  BY DEF LogPut, Answer, recovery
<1>3. pc'[c] # "put" /\ \A d \in Clients : d # c => pc'[d] = pc[d] /\ cmd'[d] = cmd[d]
  BY <1>2 DEF TypeInv, TypeOK
<1>4. /\ log[s] \in Seq(Entries) /\ log'[s] \in Seq(Entries)
      /\ log'[s] = Append(log[s], e)
      /\ \A r \in Shards : r # s => log'[r] = log[r]
  BY <1>1, <1>2 DEF TypeInv, TypeOK
<1>5. ASSUME NEW k \in Keys, k \notin apart', phase = "done", ~InFlight(k)'
      PROVE  Yields(log'[Home[k]], Len(log'[Home[k]]), k, mem[k])
  <2>1. CASE k = e.key
    <3>1. Yields(log'[s], Len(log'[s]), e.key, e.val)
      BY <1>1, <1>4, YieldsAppend
    <3> QED
      BY <1>1, <2>1, <3>1
  <2>2. CASE k # e.key
    <3>1. ~InFlight(k) /\ k \notin apart
      BY <1>2, <1>3, <1>5, <2>2 DEF InFlight
    <3>2. Yields(log[Home[k]], Len(log[Home[k]]), k, mem[k])
      BY <1>5, <3>1 DEF ServingInv, LogAgreesWithMemory
    <3>3. CASE Home[k] # s
      <4>1. log'[Home[k]] = log[Home[k]]
        BY <1>4, <3>3, HomeFacts
      <4> QED
        BY <3>2, <4>1
    <3>4. CASE Home[k] = s
      <4>1. Yields(log[s], Len(log[s]), k, mem[k])
        BY <3>2, <3>4
      <4>2. Yields(log'[s], Len(log'[s]), k, mem[k])
        BY <1>1, <1>4, <2>2, <4>1, YieldsAppend
      <4> QED
        BY <3>4, <4>2
    <3> QED
      BY <3>3, <3>4
  <2> QED
    BY <2>1, <2>2
<1>6. LogAgreesWithMemory'
  BY <1>2, <1>5 DEF LogAgreesWithMemory
<1> QED
  BY <1>2, <1>3, <1>6 DEF ServingInv

LEMMA ServingStep ==
    ASSUME Orderly
    PROVE  TypeInv /\ RecoveryInv /\ ServingInv /\ [Next]_vars => ServingInv'
<1> SUFFICES ASSUME TypeInv, RecoveryInv, ServingInv, [Next]_vars PROVE ServingInv'
  OBVIOUS
<1>0. TypeOK /\ ~EarlyTraffic
  BY DEF TypeInv, Orderly
<1>1. ASSUME NEW c \in Clients, Command(c) PROVE ServingInv'
  <2>1. CASE SetKey(c) \/ DeleteKey(c)
    <3>1. phase = "done" /\ pc[c] # "put"
      BY <1>0, <2>1 DEF SetKey, DeleteKey, Serving, TypeOK
    <3> QED
      BY <2>1, <3>1, ServingChange DEF SetKey, DeleteKey
  <2>2. CASE NumberRead(c)
    <3>1. /\ UNCHANGED <<mem, files, recovery, apart>>
          /\ \A d \in Clients : d # c => pc'[d] = pc[d] /\ cmd'[d] = cmd[d]
          /\ pc[c] # "put" /\ pc'[c] # "put"
      BY <1>0, <2>2 DEF NumberRead, TypeOK
    <3>2. \A k \in Keys : InFlight(k)' <=> InFlight(k)
      BY <3>1 DEF InFlight
    <3> QED
      BY <3>1, <3>2 DEF ServingInv, LogAgreesWithMemory, files, recovery
  <2>3. CASE NumberWrite(c)
    <3>1. phase = "done" /\ pc[c] = "read"
      BY <1>0, <2>3 DEF NumberWrite, RecoveryInv, TypeOK
    <3>2. cmd[c] \in Entries /\ cmd[c].key \in Owns[c] /\ cmd[c].val \in Values \cup {Nil}
      BY <3>1, EntryFacts DEF TypeInv, CommandOK
    <3> QED
      BY <2>3, <3>1, <3>2, ServingChange DEF NumberWrite
  <2>4. CASE LogPut(c)
    BY <2>4, ServingPut
  <2>5. CASE LogRefused(c)
    <3>1. /\ UNCHANGED <<mem, files, recovery>> /\ apart' = apart \cup {cmd[c].key}
          /\ \A d \in Clients : d # c => pc'[d] = pc[d] /\ cmd'[d] = cmd[d]
          /\ pc'[c] # "put"
      BY <1>0, <2>5 DEF LogRefused, Answer, TypeOK
    <3>2. \A k \in Keys \ apart' : InFlight(k) => InFlight(k)'
      BY <3>1 DEF InFlight
    <3> QED
      BY <3>1, <3>2 DEF ServingInv, LogAgreesWithMemory, files, recovery
  <2> QED
    BY <1>1, <2>1, <2>2, <2>3, <2>4, <2>5 DEF Command
<1>2. ASSUME NEW s \in Shards, Persist(s) PROVE ServingInv'
  BY <1>2 DEF Persist, server, recovery, ServingInv, LogAgreesWithMemory, InFlight
<1>3. ASSUME NEW s \in Shards, OpenFile(s) PROVE ServingInv'
  BY <1>3 DEF OpenFile, files, server, ServingInv, LogAgreesWithMemory, InFlight
<1>4. CASE Replay
  <2>1. phase = "reading" /\ phase' = phase /\ UNCHANGED <<files, server, todo>>
    BY <1>4 DEF Replay, RecoveryInv
  <2>2. \A c \in Clients : pc'[c] # "put"
    BY <2>1 DEF RecoveryInv, server
  <2> QED
    BY <2>1, <2>2 DEF ServingInv, LogAgreesWithMemory, files
<1>5. CASE EndOfFile
  <2>1. UNCHANGED <<mem, files, server, todo>> /\ phase = "reading" /\ cur \in Shards
    BY <1>0, <1>5 DEF EndOfFile, RecoveryInv, TypeOK
  <2>2. phase' = "done" => apart' = Unread
    BY <1>5, <2>1 DEF EndOfFile
  <2>3. \A k \in Keys \ Unread : Home[k] \notin todo /\ Readable(Home[k]) = Len(log[Home[k]])
    <3>1. ASSUME NEW k \in Keys \ Unread
          PROVE  Home[k] \notin todo /\ Readable(Home[k]) = Len(log[Home[k]])
      <4>1. Home[k] \in Shards /\ Home[k] \notin todo /\ ~(Readable(Home[k]) < written[Home[k]])
        BY <3>1, HomeFacts DEF Unread
      <4>2. written[Home[k]] = Len(log[Home[k]])
        BY <2>1, <4>1 DEF RecoveryInv
      <4>3. /\ Readable(Home[k]) \in Nat /\ Readable(Home[k]) <= written[Home[k]]
            /\ written[Home[k]] \in Nat
        BY <1>0, <4>1, ReadableFacts DEF TypeOK
      <4> QED
        BY <4>1, <4>2, <4>3
    <3> QED
      BY <3>1
  <2>4. pos = Readable(cur)
    BY <1>0, <1>5, ReadableFacts DEF EndOfFile, RecoveryInv, TypeOK
  <2>5. ASSUME NEW k \in Keys \ Unread, phase' = "done"
        PROVE  Yields(log[Home[k]], Len(log[Home[k]]), k, mem[k])
    <3>1. Played(Home[k]) = Len(log[Home[k]])
      BY <2>3, <2>4, <2>5 DEF Played
    <3> QED
      BY <2>1, <3>1 DEF RecoveryInv, Restored
  <2> QED
    BY <2>1, <2>2, <2>5 DEF ServingInv, LogAgreesWithMemory, files, server
<1>6. CASE Crash
  BY <1>6 DEF Crash, StartProcess, ServingInv, LogAgreesWithMemory
<1>7. CASE UNCHANGED vars
  BY <1>7 DEF vars, files, server, recovery, ServingInv, LogAgreesWithMemory, InFlight
<1> QED
  BY <1>1, <1>2, <1>3, <1>4, <1>5, <1>6, <1>7 DEF Next

(* Where every key has one writer and clients wait for the recovery, the   *)
(* log says what the memory holds, through any number of crashes, refused  *)
(* entries and damaged files, but for the keys of commands that are        *)
(* between the two and those it is known to have missed.                   *)
THEOREM LogKeepsUp ==
    ASSUME Orderly
    PROVE  Spec => []LogAgreesWithMemory
<1>1. Init => ServingInv
  BY DEF Init, ServingInv, LogAgreesWithMemory
<1>2. TypeInv /\ RecoveryInv /\ ServingInv /\ [Next]_vars => ServingInv'
  BY ServingStep
<1>3. ServingInv => LogAgreesWithMemory
  BY DEF ServingInv
<1>4. Spec => [](TypeInv /\ RecoveryInv)
  BY RecoveryInvariant DEF Orderly
<1> QED
  BY <1>1, <1>2, <1>3, <1>4, PTL DEF Spec

-----------------------------------------------------------------------------
(* Every step treats each shard's log as a DurableLog does: an entry is    *)
(* put at its end, more of it gets written, or a crash cuts what was not.  *)

ShardStep(s) == ShardLog(s)!Next \/ UNCHANGED <<log[s], written[s]>>

THEOREM ShardLogsAreDurable == Spec => LogsAreDurable
<1>1. TypeInv /\ [Next]_vars => (\A s \in Shards : ShardStep(s)) \/ UNCHANGED vars
  <2> SUFFICES ASSUME TypeInv, Next, NEW s \in Shards PROVE ShardStep(s)
    OBVIOUS
  <2> USE DEF TypeInv
  <2>0. /\ log[s] \in Seq(Entries) /\ Len(log[s]) \in Nat
        /\ written[s] \in Nat /\ written[s] <= Len(log[s])
    BY DEF TypeOK
  <2>1. CASE UNCHANGED <<log[s], written[s]>>
    BY <2>1 DEF ShardStep
  <2>2. ASSUME NEW c \in Clients, LogPut(c) PROVE ShardStep(s)
    <3> DEFINE e == cmd[c]
    <3>1. /\ e \in Entries
          /\ written' = written
          /\ log' = [log EXCEPT ![Home[e.key]] = Append(@, e)]
      BY <2>2 DEF LogPut, CommandOK
    <3>2. CASE Home[e.key] = s
      <4>1. log'[s] = Append(log[s], e)
        BY <3>1, <3>2 DEF TypeOK
      <4> QED
        BY <3>1, <4>1 DEF ShardStep, ShardLog!Next, ShardLog!Append1
    <3>3. CASE Home[e.key] # s
      <4>1. log'[s] = log[s]
        BY <3>1, <3>3 DEF TypeOK
      <4> QED
        BY <2>1, <3>1, <4>1
    <3> QED
      BY <3>2, <3>3
  <2>3. ASSUME NEW r \in Shards, Persist(r) PROVE ShardStep(s)
    <3>1. PICK n \in written[r] + 1 .. Len(log[r]) : written' = [written EXCEPT ![r] = n]
      BY <2>3 DEF Persist
    <3>2. log' = log
      BY <2>3 DEF Persist
    <3>3. CASE r = s
      <4>1. written'[s] \in (written[s] + 1) .. Len(log[s])
        BY <3>1, <3>3 DEF TypeOK
      <4> QED
        BY <3>2, <4>1 DEF ShardStep, ShardLog!Next, ShardLog!Persist
    <3>4. CASE r # s
      <4>1. written'[s] = written[s]
        BY <3>1, <3>4 DEF TypeOK
      <4> QED
        BY <2>1, <3>2, <4>1
    <3> QED
      BY <3>3, <3>4
  <2>4. CASE Crash
    <3>1. log'[s] = SubSeq(log[s], 1, written[s]) /\ written'[s] = written[s]
      BY <2>4 DEF Crash
    <3>2. written[s] \in written[s] .. Len(log[s]) /\ written'[s] \in written[s] .. written[s]
      BY <2>0, <3>1
    <3> QED
      BY <3>1, <3>2 DEF ShardStep, ShardLog!Next, ShardLog!Crash
  <2> QED
    BY <2>1, <2>2, <2>3, <2>4 DEF Next, Command, SetKey, DeleteKey, NumberRead, NumberWrite,
       LogRefused, Change, OpenFile, Replay, EndOfFile, files
<1>2. Init => TypeInv
  BY DEF Init, TypeInv, TypeOK, CommandOK
<1>3. (\A s \in Shards : ShardStep(s)) <=>
         (\A s \in Shards : [ShardLog(s)!Next]_<<log[s], written[s]>>)
  BY DEF ShardStep
<1> QED
  BY <1>1, <1>2, <1>3, TypeStep, PTL DEF Spec, LogsAreDurable
=============================================================================
