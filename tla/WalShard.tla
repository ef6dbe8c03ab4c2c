------------------------------ MODULE WalShard ------------------------------
(***************************************************************************)
(* One shard of the log: internal/wal/wal.go.  Command goroutines put      *)
(* entries into a bounded channel, the goroutine run() moves them into a   *)
(* batch, writes the batch to a file opened with O_APPEND and sometimes    *)
(* syncs it.  A crash leaves the file, or the synced part of it, possibly  *)
(* with a torn record at its end; the next process reads the file from the *)
(* start and appends after whatever it ends with.                          *)
(*                                                                         *)
(* Sizes are counted in entries (BatchBytes is BatchMax entries).  A cell  *)
(* of the file is an entry, or a torn record:                              *)
(*   "header"  less than its 8 header bytes                                *)
(*   "bare"    the whole header and nothing after it                       *)
(*   "body"    the header and part of the body                             *)
(***************************************************************************)
EXTENDS Naturals, Sequences, SequencesExt, FiniteSets

CONSTANTS
    Producers,   \* goroutines that call Put/Delete; also the entries they put
    ChanSize,    \* Options.WriteChanSize
    BatchMax,    \* Options.BatchBytes
    SyncPolicy,  \* "never", "everyBatch" or "everyN"
    SyncEveryN,  \* Options.SyncEveryN
    Tears,       \* the shapes a torn record may have, {} if writes are never torn
    DiskFails,   \* whether a write to the file and a sync of it may fail
    MarshalFails,  \* whether an entry may change while it is marshalled, an error
    MayClose,    \* whether WALSystem.Close is called
    PowerFails,  \* whether a crash may lose what was written but not synced
    MaxLog,      \* bound on the number of entries
    MaxCrashes   \* bound on the number of crashes; after the last, no Close

TornShapes == {"header", "bare", "body"}

ASSUME WalAssumption ==
    /\ ChanSize \in Nat \ {0}
    /\ BatchMax \in Nat \ {0}
    /\ SyncPolicy \in {"never", "everyBatch", "everyN"}
    /\ SyncEveryN \in Nat \ {0}
    /\ Tears \subseteq TornShapes
    /\ TornShapes \cap Producers = {}
    /\ DiskFails \in BOOLEAN /\ MarshalFails \in BOOLEAN
    /\ MayClose \in BOOLEAN /\ PowerFails \in BOOLEAN
    /\ MaxLog \in Nat /\ MaxCrashes \in Nat

VARIABLES
    ppc,        \* each producer: "idle", "putting" (past the closed test), "waiting"
    waiters,    \* producers blocked on the full channel, first come first served
    ch,         \* walShard.ch
    pc,         \* where run() is; "stopped" when it has ended, "done" when Close has
                \* too, "down" while there is no process
    batch,      \* walShard.batchBuf
    count,      \* walShard.batchCount: entries encoded since the process started
    due,        \* whether batchDeadline has passed
    broken,     \* bufio.Writer has seen a write error: it accepts nothing any more
    closed,     \* WALSystem.closed, and walShard.ch closed
    file,       \* cells of the file as the operating system has it
    synced,     \* how many of them are on the disk
    unsure,     \* a sync has failed: the system may have given up what it was to write,
                \* and no later sync brings that back
    dropped,    \* history: how many accepted entries could not be marshalled
    accepted,   \* history: the other entries put since the file began, less those a
                \* crash cut off
    recovery,   \* what the last recoverShard did: entries delivered, and whether it failed
    crashes

prod == <<ppc, waiters>>
disk == <<file, synced, unsure>>
vars == <<ppc, waiters, ch, pc, batch, count, due, broken, closed, disk,
          dropped, accepted, recovery, crashes>>

NoRecovery == [read |-> <<>>, err |-> FALSE]

Init ==
    /\ ppc = [p \in Producers |-> "idle"]
    /\ waiters = <<>>
    /\ ch = <<>>
    /\ pc = "select"
    /\ batch = <<>>
    /\ count = 0
    /\ due = FALSE
    /\ broken = FALSE
    /\ closed = FALSE
    /\ file = <<>>
    /\ synced = 0
    /\ unsure = FALSE
    /\ dropped = 0
    /\ accepted = <<>>
    /\ recovery = NoRecovery
    /\ crashes = 0

Running == pc \notin {"stopped", "done", "down"}
IsTorn(cell) == cell \in TornShapes

-----------------------------------------------------------------------------
(* WALSystem.Put and Delete.                                               *)

PutCheck(p) ==
    /\ pc # "down" /\ ppc[p] = "idle"
    /\ ~closed
    /\ Len(accepted) + dropped + Cardinality({q \in Producers : ppc[q] # "idle"}) < MaxLog
    /\ ppc' = [ppc EXCEPT ![p] = "putting"]
    /\ UNCHANGED <<waiters, ch, pc, batch, count, due, broken, closed, disk,
                   dropped, accepted, recovery, crashes>>

Enqueue(p) ==
    /\ pc # "down" /\ ppc[p] = "putting"
    /\ ~closed
    /\ IF Len(ch) < ChanSize
       THEN /\ ch' = Append(ch, p)
            /\ accepted' = Append(accepted, p)
            /\ ppc' = [ppc EXCEPT ![p] = "idle"]
            /\ UNCHANGED waiters
       ELSE /\ waiters' = Append(waiters, p)
            /\ ppc' = [ppc EXCEPT ![p] = "waiting"]
            /\ UNCHANGED <<ch, accepted>>
    /\ UNCHANGED <<pc, batch, count, due, broken, closed, disk, dropped, recovery, crashes>>

(* Backpressure: after FlushInterval*4 the entry is refused.               *)
GiveUp(p) ==
    /\ pc # "down" /\ ppc[p] = "waiting"
    /\ ppc' = [ppc EXCEPT ![p] = "idle"]
    /\ \E i \in 1 .. Len(waiters) : waiters[i] = p /\ waiters' = RemoveAt(waiters, i)
    /\ UNCHANGED <<ch, pc, batch, count, due, broken, closed, disk, dropped,
                   accepted, recovery, crashes>>

-----------------------------------------------------------------------------
(* run() receives an entry.  Go hands the freed slot to the first blocked  *)
(* sender in the same step.                                                *)
Receive(log) ==
    IF waiters = <<>>
    THEN ch' = Tail(ch) /\ accepted' = log /\ UNCHANGED prod
    ELSE /\ ch' = Append(Tail(ch), Head(waiters))
         /\ accepted' = Append(log, Head(waiters))
         /\ ppc' = [ppc EXCEPT ![Head(waiters)] = "idle"]
         /\ waiters' = Tail(waiters)

(* The channel holds the last entries of the log; this is its head there.  *)
HeadAt == Len(accepted) - Len(ch) + 1

(* encodeAppend.  An object that a command changes while it is marshalled  *)
(* can make that fail: the entry is only logged as an error and is gone,   *)
(* and the loop goes on with the next one.                                 *)
Take ==
    /\ ch # <<>>
    /\ \/ /\ Receive(accepted)
          /\ batch' = Append(batch, Head(ch)) /\ count' = count + 1
          /\ UNCHANGED dropped
       \/ /\ MarshalFails
          /\ Receive(RemoveAt(accepted, HeadAt))
          /\ dropped' = dropped + 1
          /\ UNCHANGED <<batch, count>>

SelectEntry ==
    /\ pc = "select"
    /\ Take
    /\ pc' = "drain"
    /\ UNCHANGED <<due, broken, closed, disk, recovery, crashes>>

SelectDeadline ==
    /\ pc = "select"
    /\ due
    /\ pc' = "drain"
    /\ UNCHANGED <<prod, ch, batch, count, due, broken, closed, disk, dropped,
                   accepted, recovery, crashes>>

(* Mutant: one entry too many.                                             *)
DrainEntry_OneMore ==
    /\ pc = "drain"
    /\ Len(batch) <= BatchMax
    /\ Take
    /\ UNCHANGED <<pc, due, broken, closed, disk, recovery, crashes>>

DrainEntry ==
    /\ pc = "drain"
    /\ Len(batch) < BatchMax
    /\ Take
    /\ UNCHANGED <<pc, due, broken, closed, disk, recovery, crashes>>

DrainEnd ==
    /\ pc = "drain"
    /\ Len(batch) >= BatchMax \/ (ch = <<>> /\ ~closed)
    /\ pc' = "check"
    /\ UNCHANGED <<prod, ch, batch, count, due, broken, closed, disk, dropped,
                   accepted, recovery, crashes>>

(* Mutant: only a full batch is flushed.                                   *)
MustFlush_FullOnly == Len(batch) >= BatchMax

(* FLUSH_CHECK                                                             *)
MustFlush == Len(batch) >= BatchMax \/ due

KeepBatching ==
    /\ pc = "check"
    /\ ~MustFlush
    /\ pc' = "select"
    /\ UNCHANGED <<prod, ch, batch, count, due, broken, closed, disk, dropped,
                   accepted, recovery, crashes>>

(* Mutant: run() stops at the close, whatever is left in the channel.      *)
AtEnd_Undrained == closed /\ pc = "select"

(* run() has received from the closed, drained channel: flush(true).       *)
AtEnd ==
    /\ closed /\ ch = <<>>
    /\ pc = "select" \/ (pc = "drain" /\ Len(batch) < BatchMax)

Flushing == (pc = "check" /\ MustFlush) \/ AtEnd

(* flush with nothing in the batch returns at once, and does not sync.     *)
FlushNothing ==
    /\ Flushing
    /\ batch = <<>>
    /\ IF pc = "check"
       THEN pc' = "select" /\ due' = FALSE
       ELSE pc' = "stopped" /\ UNCHANGED due
    /\ UNCHANGED <<prod, ch, batch, count, broken, closed, disk, dropped,
                   accepted, recovery, crashes>>

(* flush: the batch goes to the file.  A failed write leaves a part of it  *)
(* there, is only logged, and makes every later write fail as well.        *)
PartOf(b) == {SubSeq(b, 1, n) : n \in 0 .. Len(b) - 1}
MaybeTorn == {<<>>} \cup {<<s>> : s \in Tears}
(* Mutant: the writer goes on after a write error.                         *)
Written_AfterError == batch

Written == IF broken THEN <<>> ELSE batch

FlushWrite ==
    /\ Flushing
    /\ batch # <<>>
    /\ pc' = IF pc = "check" THEN "sync" ELSE "lastSync"
    /\ \/ file' = file \o Written /\ UNCHANGED broken
       \/ /\ DiskFails /\ ~broken
          /\ \E part \in PartOf(batch), torn \in MaybeTorn : file' = file \o part \o torn
          /\ broken' = TRUE
    /\ UNCHANGED <<prod, ch, batch, count, due, closed, synced, unsure, dropped,
                   accepted, recovery, crashes>>

(* flush: the sync the policy or the caller asks for.  "Every N batches"   *)
(* is tested on a count of entries.                                        *)
NeedSync ==
    \/ SyncPolicy = "everyBatch"
    \/ SyncPolicy = "everyN" /\ count % SyncEveryN = 0
    \/ pc = "lastSync"

(* file.Sync.  A failure says that something was not written, not what;    *)
(* nothing written before it can be relied on from then on.                *)
FileSync ==
    \/ synced' = (IF unsure THEN synced ELSE Len(file)) /\ UNCHANGED unsure
    \/ DiskFails /\ unsure' = TRUE /\ UNCHANGED synced

(* Mutant: the batch buffer is not reset.                                  *)
FlushSync_NoReset ==
    /\ pc \in {"sync", "lastSync"}
    /\ IF NeedSync THEN FileSync ELSE UNCHANGED <<synced, unsure>>
    /\ IF pc = "sync"
       THEN pc' = "select" /\ due' = FALSE
       ELSE pc' = "stopped" /\ UNCHANGED due
    /\ UNCHANGED <<prod, ch, batch, count, broken, closed, file, dropped, accepted,
                   recovery, crashes>>

(* A sync that fails is only logged, and the batch is forgotten all the    *)
(* same.                                                                   *)
FlushSync ==
    /\ pc \in {"sync", "lastSync"}
    /\ IF NeedSync THEN FileSync ELSE UNCHANGED <<synced, unsure>>
    /\ batch' = <<>>
    /\ IF pc = "sync"
       THEN pc' = "select" /\ due' = FALSE
       ELSE pc' = "stopped" /\ UNCHANGED due
    /\ UNCHANGED <<prod, ch, count, broken, closed, file, dropped, accepted, recovery, crashes>>

DeadlinePasses ==
    /\ Running /\ ~due
    /\ due' = TRUE
    /\ UNCHANGED <<prod, ch, pc, batch, count, broken, closed, disk, dropped,
                   accepted, recovery, crashes>>

-----------------------------------------------------------------------------
(* WALSystem.Close and walShard.Close, which waits for run() and syncs: it *)
(* returns the write error of a broken writer, or that of its own sync.    *)

CloseChannel ==
    /\ MayClose /\ crashes < MaxCrashes
    /\ pc # "down" /\ ~closed
    /\ closed' = TRUE
    /\ UNCHANGED <<prod, ch, pc, batch, count, due, broken, disk, dropped,
                   accepted, recovery, crashes>>

CloseFile ==
    /\ pc = "stopped"
    /\ pc' = "done"
    /\ IF SyncPolicy = "never" \/ broken THEN UNCHANGED <<synced, unsure>> ELSE FileSync
    /\ UNCHANGED <<prod, ch, batch, count, due, broken, closed, file, dropped,
                   accepted, recovery, crashes>>

-----------------------------------------------------------------------------
(* The process ends: it is killed, loses power, or a goroutine sends on    *)
(* the closed channel and panics.                                          *)

(* The entries among the cells.                                            *)
Records(f) ==
    LET upTo[n \in 0 .. Len(f)] ==
            IF n = 0 THEN <<>>
            ELSE IF IsTorn(f[n]) THEN upTo[n - 1] ELSE Append(upTo[n - 1], f[n])
    IN  upTo[Len(f)]

Die(f, n) ==
    /\ pc' = "down"
    /\ file' = f
    /\ synced' = n
    /\ accepted' = Records(f)
    /\ ppc' = [p \in Producers |-> "idle"]
    /\ waiters' = <<>>
    /\ ch' = <<>>
    /\ batch' = <<>>
    /\ count' = 0
    /\ due' = FALSE
    /\ broken' = FALSE
    /\ closed' = FALSE
    /\ dropped' = 0
    /\ recovery' = NoRecovery

(* A kill leaves what was written, part of a batch if it comes in write(). *)
Kill ==
    /\ pc # "down" /\ crashes < MaxCrashes
    /\ crashes' = crashes + 1
    /\ UNCHANGED unsure
    /\ \/ Die(file, synced)
       \/ /\ Flushing /\ ~broken
          /\ \E part \in PartOf(batch), torn \in MaybeTorn : Die(file \o part \o torn, synced)

(* A power failure leaves what was synced and some of what was not, up to  *)
(* some place in the file.                                                 *)
PowerLoss ==
    /\ PowerFails
    /\ pc # "down" /\ crashes < MaxCrashes
    /\ crashes' = crashes + 1
    /\ unsure' = FALSE
    /\ \E n \in synced .. Len(file) :
          LET kept == SubSeq(file, 1, n) IN
          \/ Die(kept, n)
          \/ /\ n < Len(file) /\ ~IsTorn(file[n + 1])
             /\ \E s \in Tears : Die(Append(kept, s), n + 1)

SendOnClosed ==
    /\ pc # "down" /\ closed
    /\ \E p \in Producers : ppc[p] \in {"putting", "waiting"}
    /\ crashes' = crashes + 1
    /\ UNCHANGED unsure
    /\ Die(file, synced)

-----------------------------------------------------------------------------
(* recoverShard: the entries up to the first torn record.  A torn record   *)
(* is forgiven at the end of the file, unless it is a bare header (reading *)
(* an empty body gives io.EOF).  One that is followed by more bytes is     *)
(* read together with them: the length or the checksum is wrong, or the    *)
(* length reaches past the end of the file and all the rest is forgiven.   *)
TornAt(f) == {i \in 1 .. Len(f) : IsTorn(f[i])}
FirstTorn(f) == CHOOSE i \in TornAt(f) : \A j \in TornAt(f) : i <= j

ReadErrors(f) ==
    CASE TornAt(f) = {} -> {FALSE}
      [] TornAt(f) # {} /\ FirstTorn(f) < Len(f) -> BOOLEAN
      [] OTHER -> {f[Len(f)] = "bare"}

Delivered(f) == IF TornAt(f) = {} THEN f ELSE SubSeq(f, 1, FirstTorn(f) - 1)

(* Mutant: the file is truncated when it is opened.                        *)
Restart_Truncates ==
    /\ pc = "down"
    /\ pc' = "select"
    /\ \E e \in ReadErrors(file) : recovery' = [read |-> Delivered(file), err |-> e]
    /\ file' = <<>> /\ synced' = 0 /\ accepted' = <<>>
    /\ UNCHANGED <<prod, ch, batch, count, due, broken, closed, unsure, dropped, crashes>>

(* NewWALSystem opens the file for appending as it is, and the recovery    *)
(* goroutine reads it from the start.                                      *)
Restart ==
    /\ pc = "down"
    /\ pc' = "select"
    /\ \E e \in ReadErrors(file) : recovery' = [read |-> Delivered(file), err |-> e]
    /\ UNCHANGED <<prod, ch, batch, count, due, broken, closed, disk, dropped,
                   accepted, crashes>>

-----------------------------------------------------------------------------
Loop ==
    \/ SelectEntry \/ SelectDeadline \/ DrainEntry \/ DrainEnd
    \/ KeepBatching \/ FlushNothing \/ FlushWrite \/ FlushSync \/ CloseFile

Next ==
    \/ \E p \in Producers : PutCheck(p) \/ Enqueue(p) \/ GiveUp(p)
    \/ Loop
    \/ DeadlinePasses
    \/ CloseChannel
    \/ Kill \/ PowerLoss \/ SendOnClosed
    \/ Restart

Spec == Init /\ [][Next]_vars

(* run() is never blocked for good, time passes, and a producer that has   *)
(* entered Put goes on or times out.                                       *)
Fairness ==
    /\ WF_vars(Loop) /\ WF_vars(DeadlinePasses)
    /\ \A p \in Producers : WF_vars(Enqueue(p)) /\ WF_vars(GiveUp(p))

FairSpec == Spec /\ Fairness

-----------------------------------------------------------------------------
TypeOK ==
    /\ ppc \in [Producers -> {"idle", "putting", "waiting"}]
    /\ waiters \in Seq(Producers)
    /\ ch \in Seq(Producers) /\ Len(ch) <= ChanSize
    /\ pc \in {"select", "drain", "check", "sync", "lastSync", "stopped", "done", "down"}
    /\ batch \in Seq(Producers) /\ Len(batch) <= BatchMax
    /\ count \in Nat
    /\ due \in BOOLEAN /\ broken \in BOOLEAN /\ closed \in BOOLEAN
    /\ file \in Seq(Producers \cup TornShapes)
    /\ synced \in 0 .. Len(file)
    /\ unsure \in BOOLEAN
    /\ dropped \in Nat
    /\ accepted \in Seq(Producers)
    /\ recovery \in [read : Seq(Producers), err : BOOLEAN]
    /\ crashes \in 0 .. MaxCrashes

(* The file holds a prefix of the entries Put accepted and encodeAppend    *)
(* could marshal, in their order.  Nothing but the marshalling makes a     *)
(* gap: a batch that could not be written is dropped, but then so is       *)
(* everything after it.                                                    *)
IsPrefixOf(s, t) == Len(s) <= Len(t) /\ \A i \in 1 .. Len(s) : s[i] = t[i]
FileIsPrefix == IsPrefixOf(Records(file), accepted)

(* The shard keeps the promise of DurableLog across kills, power failures, *)
(* write and sync errors, entries it cannot marshal and restarts; the      *)
(* entries on the disk are the safe ones.                                  *)
Promise == INSTANCE DurableLog WITH
    Entries <- Producers,
    entries <- accepted,
    safe <- Len(Records(SubSeq(file, 1, synced)))
ImplementsDurableLog == Promise!Spec

(* A Close that returns nil after no write and no sync has failed leaves   *)
(* every entry that was accepted and could be marshalled on the disk,      *)
(* those still in the channel and in the batch included.  (A failed sync   *)
(* of an earlier flush is only logged, and Close returns nil all the same. *)
(* Close itself returns an error when the writer is broken or its own sync *)
(* fails.)                                                                 *)
CloseKeepsAll ==
    pc = "done" /\ ~broken /\ ~unsure /\ SyncPolicy # "never" =>
        Records(SubSeq(file, 1, synced)) = accepted

(* A restart delivers every entry the file holds in full: recovery is      *)
(* "tolerant to torn tail".                                                *)
EveryRecordRecovered ==
    [][pc = "down" /\ pc' # "down" => recovery'.read = Records(file)]_vars

(* What a recovery would get from the disk is never taken back: no later   *)
(* write, torn record, crash or restart changes it, it only grows, however *)
(* much is lost behind a torn record.                                      *)
OnDisk == SubSeq(file, 1, synced)
RecoverableStays == [][IsPrefixOf(Delivered(OnDisk), Delivered(OnDisk'))]_vars

(* Every accepted entry reaches the file or is one of those that cannot be *)
(* marshalled, unless a write or the process fails: no entry is left in a  *)
(* batch that nothing flushes.                                             *)
AcceptedIsWritten ==
    \A n \in 1 .. MaxLog :
        Len(accepted) + dropped >= n ~>
            Len(Records(file)) + dropped >= n \/ broken \/ pc = "down"
=============================================================================
