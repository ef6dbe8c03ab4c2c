# A TLA+ verification of Fleare

Fleare is an in-memory key-value server in Go: clients send commands over TCP, values live in
sharded maps, and a write-ahead log (WAL) per shard lets a restart bring the values back. This
directory holds TLA+ specifications translated from that code, the TLC configurations that check
them, and TLAPS proofs of the properties that matter most. Paths below are relative to `src/`.

    tlc -workers 2 -config MemOwnKeys.cfg MCMemory      # check one configuration
    tlapm MemoryProofs.tla                              # check the proofs of one module

`PROJECT.json` lists the runs, the lines each definition models, the mutants that show each
property can fail, the hazards and the findings.

## 1. The system

A process merges its settings, starts a logger, a recovery thread and the event loop. The event
loop (epoll) accepts a connection and authenticates it; a goroutine per connection then reads a
frame and calls the commander; the command finds the key's shard by consistent hash, reads or
changes that shard's `store.Memory`, and puts the object into the shard's WAL. Nothing above the
memory's own lock orders two commands: everything between "memory" and "log" is up to the
scheduler. A signal makes the event loop stop, the threads are waited for, the logger is closed.

| Component | State | Operations | What is hard, what must hold | Modelled in |
|---|---|---|---|---|
| Key space `internal/store/mem.go` | map key -> object pointer, RWMutex; an object's expiry time | Get, Set, SetWithTTL, Delete, TTL, Expire, CleanupExpired | Get judges and deletes after it has released its lock; TTL deletes under the read lock; Expire changes an object others hold. A live value must not vanish; no call may hang | `Memory`, `TtlStore` |
| WAL `internal/wal/wal.go` | per shard: bounded channel, batch buffer, counters, file | Put, Delete, Recover, Close; goroutine `run()` | backpressure, entries that change while they are marshalled, batching by size or deadline, sync policy, write and sync errors that are only logged, close against late puts, torn records. The file must be a gapless prefix of what was accepted and marshalled | `WalShard`, `DurableLog` |
| Shards, recovery `internal/shard` | memory and log shards, hash ring | GetShardByKey, RecoverMemory | files replayed in map order, an error ends it; deadlines over a restart; a changed shard count. The memory must become what the files say | `Persistence`, `Restart` |
| Commands `commander/*` | none of their own | SET, GET, DELETE, EXISTS, NUM.*, STR.*, LIST.*, MAP.*, JSON.*, TTL, TTL.EXPIRE | read-modify-write over separate store calls; objects changed in place while the log holds them; several looks at several keys; counters, indexes, missing values. What the log says must be what clients were told | `Commands`, `Effects`, `Values`, `Persistence` |
| Consistent hash `internal/helper` | ring of hashes | add, remove, lookup | every key has an owner; a node moves only its own keys | `Ring` |
| Event loop, connections, sessions `server/eventloop`, `internal/auth` | epoll set, descriptors, threads, sessions | accept, authenticate, read, answer, clean up, stop | one accept per edge, blocking reads in the accept loop, a descriptor closed twice, a new reader per request that forgets what it buffered | `Connections` |
| Service, threads, logger, settings, CLI `server`, `internal/io-manager`, `internal/logger`, `config` | contexts, wait groups, queue, signal channel, merged settings | merge, start, signal, stop, log, close | which source wins; signals early, late and twice; a write-ahead log that did not open; lines and threads that outlive what they use | `Service` |
| TTL manager `internal/store/ttl_manager.go` | - | - | commented out: nothing sweeps expired keys | - |
| Protobuf, error texts, `test/` | - | - | generated or constant; prototypes the server does not use | - |

## 2. The modules

| Module | Models | Abstract counterpart | Checked by |
|---|---|---|---|
| `Memory` | `internal/store/mem.go`, one shard, many goroutines | `TtlStore` | `MCMemory`, `MemoryProofs` |
| `TtlStore` | what `IMem.go` promises: an atomic map with deadlines | - | through `Memory` |
| `WalShard` | `internal/wal/wal.go`, one log shard, with crashes and restarts | `DurableLog` | `MCWalShard`, `WalShardProofs` |
| `DurableLog` | what a log promises: it grows at its end, a crash cuts its end, never the safe part | - | through `WalShard` and `Persistence` |
| `Persistence` | the order of memory and log steps, recovery, start | its logs are `DurableLog`s | `MCPersistence`, `PersistenceProofs` |
| `Values` | JSON documents, other bytes, paths, merging, search conditions (`internal/utils`) | - | through `Effects`, `CommandsProofs` |
| `Effects` | what each command decides from what it found and was given | - | through `Commands`, `CommandsProofs` |
| `Commands` | the commands as steps of several clients over shared objects and the log | - | `MCCommands`, `CommandsProofs` |
| `Connections` | the event loop on Linux, io-threads, descriptors, sessions | - | `MCConnections`, `ConnectionsProofs` |
| `Ring` | the consistent hash | - | `RingProofs`, and through `Restart` |
| `Restart` | deadlines and shard counts over restarts | - | `MCRestart`, `RestartProofs` |
| `Service` | the life of a process: settings, start, signals, threads, logger | - | `MCService`, `ServiceProofs` |

The modules meet at these seams. `Memory` justifies taking a memory call as one step in
`Persistence` and `Commands` (it implements the atomic `TtlStore` when goroutines use their own
keys), `WalShard` justifies the `DurableLog`s of `Persistence`. `Commands` is one process without
crashes, with every command; `Persistence` has the crashes, with the scalar commands; `Restart` has
clocks and shard counts. What a request does is left out of `Connections`, what a connection does
with its descriptors is left out of `Service`.

### Memory

`mem[k]` is the object pointer in the Go map, `ts[o]` an object's `Timestamp`, `now` the clock in
seconds. Objects have identity because the code hands out pointers. A freed object is reused by a
later `new`, as the collector allows. `pc[t]` is where goroutine `t` is; the lock is derived from
it (`rlocked` and `ttlReap` hold it shared, `wlocked` exclusively). One action is one critical
section, with these exceptions, which are the point of the module:

* `Get` (mem.go:29-46) is `GetLookup` under the read lock, then `GetCheck` and `GetReap` without
  any. `hold[t]` is the pointer it looked up.
* `TTL` is `TTLCheck` and `TTLReap`: the delete is an interval of its own because it is a map
  write under a shared lock.
* `MapFault`: two overlapping map accesses of which one writes are undefined in Go. The runtime
  may notice and end the process (`dead`), or the accesses take effect in some order, which the
  other actions already give.

`Get` expires a key when `now > ts`, the other operations when `now >= ts`: `GetExpired` and
`Expired`. The commands' use of `ttlSeconds <= 0` as "no expiry" is `Deadline`.

`TtlStore` is the refined-to specification: bind, redate, remove on request, reap what is due,
each in one step. The mapping: `bound` is `mem`, a key's deadline is its object's timestamp, and
`asked` is the key of a pending DELETE.

### WalShard

`ch`, `batch`, `count`, `due`, `broken`, `closed` are `walShard.ch`, `batchBuf`, `batchCount`,
"batchDeadline has passed", the sticky error of `bufio.Writer`, and `WALSystem.closed`. `pc`
follows `run()`: `select` (264), `drain` (284), `check` (FLUSH_CHECK, 299), `sync` (between write
and sync in `flush`), `lastSync`/`stopped`/`done` for Close, `down` when there is no process. A
blocked sender is in `waiters`; receiving from a full channel hands the slot to the first of
them in the same step, as Go's channels do. `GiveUp` is the enqueue timeout.

`file` is a sequence of cells, an entry or a torn record. The three torn shapes are the three
ways `recoverShard` tells damage apart: less than a header, exactly a header (reading the body
gives `io.EOF`, which is not forgiven), a header and part of a body (`io.ErrUnexpectedEOF`,
which is). `Kill` keeps what the operating system was given, and may come in the middle of a
`write`; `PowerLoss` keeps what was synced and any part of the rest. `Restart` opens the file
for appending, as it is, and reads it: an unforgiven tear, or a tear with more bytes behind it
(whose checksum or length is then wrong in one of several ways), may give an error.

`Take` is `encodeAppend`: an entry whose object a command changes in the middle of the marshalling
may fail there, is only logged and gone (`wal.go:316-320`), and the loop goes on with the next. Such
an entry leaves `accepted` and is counted in `dropped`; both are history variables. `FileSync` may
fail in a flush (logged only, `wal.go:362-364`) and in Close (returned). After a failure the system
may have forgotten which pages it was to write, and a later sync that succeeds says nothing of them:
`unsure` keeps that, until a power failure settles it.

### Persistence

Each memory step is one call of `Memory`, each log a `DurableLog`; the module is about the order
of the steps between them. A command (`set.go`, `delete.go`, `num_set.go`, `num_incr.go`,
`num_decr.go`) reads (`NumberRead`), changes the memory (`SetKey`, `DeleteKey`, `NumberWrite`)
and puts the entry (`LogPut`, or `LogRefused` when the enqueue times out and the command drops
the error, or when the entry cannot be marshalled). `Persist` is the log's flush. `Crash` keeps the
written prefix of each log and may leave files that recovery fails on; the next process replays file
after file (`OpenFile`, `Replay`, `EndOfFile`) while clients may or may not be served already
(`EarlyTraffic`). The first error ends the recovery of all files, and `RecoverMemory` drops it.
`apart` is history: the keys whose last entry was refused, or lies in what the recovery did not read.

### Values, Effects, Commands

A value is a document or other bytes, told apart as far as the commands do: `json.Unmarshal` into a
map or a slice, `ParseFloat`, the emptiness of what could not be marshalled, the text `null`. An
infinity is a number to `ParseFloat` and not JSON; `FloatMax` is where numbers become one. Paths are
sequences of fields. Lists, texts and documents of depth two are short (`MaxLen`). `IsValue` is the
type of a value, `IsDocument` adds that what is in it are values under strings, and `IsRequest` says
which arguments each command takes its words for: a field of a map is one name, a path of a document
any number of them. That is what the workloads may send (`CommandsAssumption`), of any length and
depth. `mergeObjects` recurses over the objects of two documents; `DocumentPaths` are the paths they
can have, because `encoding/json` reads no document that nests deeper than `Nesting` (10000 in Go, 3
in the run, whose documents are shallower).

`Effects` has one operator per command: from the object found (or `NoObj`) and the arguments, the
answer and what is to be done - nothing, set, delete, change in place, set and then change the old
object (LIST.GPOP, which logs the old object with the deadline the new one lacks), or die.
`Execute` is the dispatch by name.

`Commands` runs them: look up, decide and change the memory, put into the log. Nothing is
held in between: `Receive`, `Decide`, `LogPut`. `heap` is the set of objects, because pointers go to clients and into the log;
one queue stands for the logs of all shards, which keeps the entries of one key in order.
`LogTake` reads the object when `run()` marshals it, not when it was put; `LogTakeTorn` is the read
that races with a change in place, and `LogDrop` the marshalling that fails of such a change.
`LogRefused` is the enqueue that gives up: the memory stays changed, the client is told Ok. In the
workloads marked `lossy` the log may do both; `missed` is history, the keys whose last entry never got
into the log. Commands over several keys (EXISTS, JSON.SETREF, references in
JSON.GET) visit them one by one; TTL.EXPIRE changes the deadline and fetches the object in two
steps (`ExpireDate`, `ExpireFetch`); MAP.CSET deletes and sets in two (`CSetClear`, `CSetFill`). Reading the value of an object together with its
references is one step with the lookup. Deadlines are "none" or "far away", since no clock runs
here. The answers of commands that only read one key are computed, but no property looks at them. The
indexes of STR.RANGE are ints with a largest value, `IntMax`, and their sum wraps (`IntSum`).

### Connections

`table` maps descriptor numbers to connections, and numbers are used again. A connection has two:
what accept returned, and the duplicate that `net.FileConn` makes. Every call goes by number,
whoever holds it at that moment; `stolen` remembers connections whose number another goroutine
closed. `edge` is an epoll event not yet consumed: several arrivals share one, and an accept that
fails with EINTR or EMFILE uses it up. `acc` is the goroutine of the loop, which authenticates with
blocking reads before it goes back to `epoll_wait`. The clean-up of a thread is one step per call
(`conn`, `file`, `again`, `finish`), because other threads' accepts come in between. A thread
refused at the limit is closed once and left to the garbage collector. Descriptors in `Limits` are
those left for connections. The branch of `GetThread` that gives back an existing thread is in
`Setup`; while no number has been stolen it is never taken (`NoThreadToReuse`, in `BooksAreRight`).
After that it can be: with four clients, one may lose both its numbers and its address to another,
which then finds the first one's thread still registered under its own id.

`inbox` is what a socket holds, as the next reader takes it. `ReadSync` makes a new `bufio.Reader` for
each request (`netcon.go:74`), and what that one buffered beyond its frame is lost: whole frames, and
bytes of the next. `Left` is everything that may be left of the rest. A frame cut in its middle is
taken for others: `scrap` passes for a frame, `badscrap` for an invalid length, and a `part` for the
beginning of a frame that goes on in whatever comes next (`ReadOn` is the read that still waits for its
end). A length of 0 or over 10 MB ends the thread without an answer (`ReadEnds`), as does any other
error of the read. `MaySend` says what each client may send, invalid lengths included, and `got`
counts the answers of a client that waits for each; of one that pipelines it only says whether there
was one. A client whose connection the server has closed sends no more.

### Ring, Restart

`Ring` is a function from hashes to nodes; its domain is the sorted slice of the code. Two nodes
with one hash do not occur: `crc32` tells the short decimal names of shards apart (assumed in
`RestartAssumption`).

`Restart` is about what only several processes show. A command is one step with its log entry, the
files lose nothing, clients wait for the replay, which takes less than a second per file. `Start`
begins a process with another shard count, at a later time, with persistence enabled or not; the log
is written in either case. `Replay` turns an entry with a deadline into a lifetime, as
`shard_manager.go:119` does, and `Wrap` is int64 arithmetic (`IntMax`).

### Service

The process begins with settings from file, flag and variable. `MergeConfigs` is the merge: the
variable hides the flag, a zero or false value in an override does not count, the shard settings are
forgotten, `strict_mode` is always replaced. `main`, `srv`, `sig`, `tm`, `log` and `io` are the main
goroutine, the thread "run-server" with its accept goroutine, the signal channel and its reader, the
thread manager, the logger and the io-threads. A signal before `Notify` or after `Stop` kills the
process; only the first one caught is ever taken. `CancelAll` is one step.

`wal` is the write-ahead log as this process has it. `NewShardManager` logs an error of opening it and
goes on with a nil pointer (`shard_manager.go:37`), which the recovery (`RecoverNothing`) and the first
command that writes (`OnTraffic`) dereference. `RecoverFails` is a recovery that ends at a file or an
entry it cannot read; the error is dropped. A command may also panic by itself, and nothing recovers
from that. `FlushBatch` is the goroutine of the log, which nobody stops and which logs its errors.
Lines are counted, and only those that race with the shutdown; `culprit` is history, who panicked.

## 3. Runs

| Run | Bounds | What it shows |
|---|---|---|
| `mem_own_keys` | 2 goroutines with one key each, 3 objects, all 7 operations, clock to 3 | no live value vanishes; map accesses overlap only while something is reaped; `Memory` implements `TtlStore`; every call returns |
| `mem_stale_delete` (violated) | 2 goroutines, 1 shared key | `Get` deletes an object that was bound after its lookup |
| `wal_log` | 2 producers, channel 1, batch 2, SyncEveryN 2, 4 entries, 1 crash, all torn shapes, entries that cannot be marshalled, write and sync errors, Close, power loss | gapless prefix, a Close after no failure loses nothing, `WalShard` implements `DurableLog`, what recovery would deliver is never taken back, every accepted entry is written or was not marshalled |
| `wal_append_after_tear` (violated) | 2 crashes | the torn tail is not truncated; what is appended behind it is lost at the next recovery |
| `persist` | 2 clients with one key each, in two files, numbers 0 and 1, 3 entries, refusals, damaged files, 2 crashes | the log agrees with the memory before and after each restart, but for refused and unread keys; recovery gives exactly what the readable parts of the files it read say; every step respects `DurableLog` |
| `commands` | 15 workloads for 2 clients, 3 of them with a log that refuses and drops, one writer per key, 3 keys, 6 objects, log queue 1, ints to 4, documents nested up to 3, 8-bit EXISTS counter with up to 128 arguments | values keep the shape of their kind; the log keeps up with the memory, but for entries refused or dropped and the deadline LIST.GPOP drops; answers about several keys are true, and so are changes at a path; only the commands named panic |
| `connections` | 2 clients, with one address or two, 2 or 4 descriptors, 1 thread at most, one client pipelines, frames cut into up to 2 pieces, invalid lengths | the counts are right while no number was stolen; only authenticated clients have threads and sessions go with them; a thread answers its own client, and one that waits gets no more answers than it asked for; the connection at the head is accepted, a hang-up cleans up, who waits is answered |
| `conn_close_once` (violated) | the same | a clean-up closes a number that is another client's by now |
| `restart` | 2 keys, 1 to 3 shards with their real hash order, 4 durations, clock to 3, int64 with maximum 127, 3 entries, 2 restarts | the memory after a replay is what the files read say; keys leave when due; growth moves keys to new shards only |
| `restart_expired` (violated) | the same | a key that expired while the server was down comes back without a deadline |
| `service` | 7 combinations of file, flag and variable, 2 workers, 1 request each, queue 2, 1 entry to replay | it serves as configured, waits for its threads, ends when told, and panics in a command, over a log that is missing, or on its way out in three ways |
| `service_flush` (violated) | the same | the process exits with lines in the closed queue |

Why these bounds. Two goroutines are enough for the races here, all of which are between one
step of a command and one of another. In `Memory`, three objects are one per key and one more, so
that a replaced object can be told from its replacement and a freed one is used again; a clock to 3
with a lifetime of 1 has a deadline before, at and after now, and one second beyond, where `Get`
differs from the rest. In the log, a channel of one slot is full at once, so that senders block and
give up; a batch of two is flushed full, partly full and empty; four entries fill two batches. `SyncEveryN = 2`
has flushes that sync and flushes that do not, and counts that pass a multiple inside a batch. In the
log one crash is enough for every property of a single recovery; what a second one adds is the subject
of `wal_append_after_tear`, and `persist` has two, so that refused keys, damaged files and recoveries
follow on one another. Its numbers 0 and 1 are values that can be told apart and increments of them;
texts would add SETs that `Replay` treats alike. In `Commands`, all requests at once would be out of reach, so each
workload puts together the requests that can meet: writers of one kind of value with readers and
overwriters of the other client. Every workload has one writer per key (`OneWriter`, an `ASSUME` of
`MCCommands`). Six objects are two per key, and no state of the run needs a seventh (`Room`); EXISTS gets 128 keys because its
counter has 8 bits. In `Connections` two descriptors are one connection and four are two,
so that both running out and reuse happen, and one thread makes the second client one too many.
The first client waits for its answers and may send an invalid length, the second pipelines three
requests, of which the cut pieces of one are two frames at most (`MaxScraps`).
The hashes in `restart` are the first bytes of the real `crc32` values, so that one key
moves at every growth and the other never; its durations are a second that passes, none, the largest
number of seconds, and minutes whose seconds overflow. The settings of `service` are a file with
everything off, one without root alone, flag and variable that disagree about root in either
order, an invalid flag, and a file that is missing or invalid.

The bounds that cut behaviours are MaxTime, MaxNow, MaxNum, MaxLog, MaxLen, MaxCrashes, MaxRestarts,
MaxSends, MaxScraps, MaxRequests and ObjIds (`Room`); each is a guard of the actions it names. `CHECK_DEADLOCK FALSE` is set where
a model really ends: the process has died or was closed, the clients are done, or a bound is reached.

A passing property is stated for the circumstances in which it holds (own keys, no early traffic, no
stolen number, ...). What happens without them is found by changing one constant of a run:

| Change | Violated | Why |
|---|---|---|
| `MCPersistence`: `OwnKeys` gives both clients both keys | `LogAgreesWithMemory` | `set.go:43` and `:47`: memory and log get two SETs in opposite orders |
| `Persist.cfg`: `EarlyTraffic = TRUE` | `LogAgreesWithMemory` | `service_manager.go:63`: recovery runs beside traffic and replays an old value over a new one |

These are what the absence of a lock around "memory, then log" and of a barrier around recovery
allow; no document of the repository promises otherwise, so they are hazards and not findings.

Fairness.
* `Memory`: weak fairness for a goroutine's own steps (the Go scheduler), strong fairness for
  getting the lock (`sync.RWMutex` queues readers behind a waiting writer and has a starvation mode,
  so nobody who finds it free again and again waits for ever). No call is ever forced.
* `WalShard`: weak fairness of `run()`, of the passing of time, and of a producer inside `Put`.
* `Connections`: weak fairness of the accept loop while it has what it waits for (`AuthReady`), of a
  thread that reads its own connection, and of its clean-up. Clients may be silent, refused threads may
  never be collected, a thread whose number was closed under it need not wake, and the shutdown need
  not come to its end. A connection that arrives behind another and shares its edge may wait for the
  next arrival: `HeadIsAccepted` claims the head only.
* `Service`: weak fairness of the main goroutine, the server thread, the recovery and the signal
  reader, not of the logger: nothing waits for it. Clients and io-threads need not do anything, nobody need send a signal.
  `EndsWhenTold` therefore has its exception: a silent client that holds the accept goroutine in its
  blocking read holds the process.
* `Persistence`, `Commands` and `Restart` have no liveness property and assume nothing.

## 4. What is proved

All theorems hold for every value of the constants that the modules' ASSUMEs admit.

`MemoryProofs`
* `TypeCorrect`: `Spec => []TypeOK`. Needs `CallOK`: a goroutine in a call has a call with one
  of its own keys.
* `RacesComeFromReaping`: `Spec => []OnlyReapsRace`, from `LockInv`, mutual exclusion of a writer
  and everybody else. No assumption on who uses which keys.
* `NoLiveKeyLost`: under `DisjointKeys`, `Spec => NoLiveKeyDropped`. The inductive invariant is
  `StoreInv`: a key's object is no other key's; what a `Get` holds is still its key's object, or
  the key has none; and what is about to be reaped is past its deadline. The second part is what
  a shared key breaks: without it a reap by key says nothing about the object that goes.
* `StoreImplementsPromise`: under `DisjointKeys`, `Spec => ImplementsTtlStore`. Each body maps to
  one step of `TtlStore`; lookups, checks and lock steps are stutters. One lemma per kind of
  abstract step (`ReapKeys`, `ReapOne`, `PutKey`, `RedateKey`, `UnbindKeys`).

`WalShardProofs`
* `TypeCorrect`, `FileHoldsPrefix` (`Spec => []FileIsPrefix`), `CloseLosesNothing` and
  `RecoverableNeverShrinks` (`Spec => RecoverableStays`), all from `WalInv`: the records of the file, the
  part of the batch that is not written, the channel and the waiting senders are together what was
  accepted and can be marshalled, in that order (`NothingMissing`); and each state of `run()` says what
  can still be in the batch and the channel (`LoopInv`). Through entries that fail in the middle of
  the queue, kills in the middle of a write, write and sync errors, and Close.
* `WalImplementsDurableLog`: `Spec => ImplementsDurableLog`. `Put` and the loop append or stutter, an
  entry that cannot be marshalled leaves the unsafe part of the log, a sync makes safe unless an
  earlier one has failed, a crash cuts the end (`CrashStep`).

`PersistenceProofs`
* `TypeCorrect`: including that no file holds more than its log.
* `RecoveryRestores`: with clients that wait for the recovery, `Spec => RecoveryRestoresFiles`,
  refusals and damage included, whoever owns which keys. The invariant (`RecoveryInv`) says
  while files are read that the memory is what the entries played so far leave (`Restored`,
  with `Played` counting them per file), that a log holds entries of its own keys only, and
  that everything accepted is written.
* `LogKeepsUp`: under `Orderly` (one writer per key, no early traffic) `Spec => []LogAgreesWithMemory`,
  over any number of crashes, refusals and damaged files, which the property accounts for key by key
  (`apart`). `ServingInv` adds that a client between memory and log finds in the memory what it is
  about to put. It starts from `Restored` at the end of the recovery.
* `ShardLogsAreDurable`: `Spec => LogsAreDurable`, so that `WalShard`'s promise is all that
  `Persistence` uses.

The two assumptions of `LogKeepsUp` are not decoration: the table of section 3 drops them one by one.

`RingProofs`
* `EveryKeyHasANode`: a ring that is not empty gives every hash a node of its own.
* `AddNodeMovesOnlyToIt`, `RemoveNodeMovesOnlyItsKeys`: a node takes keys over when it comes and
  gives them up when it goes; no key moves between two others. By cases on whether a hash has a
  node above it, over the characterisation of `Least`.

`RestartProofs`
* `GrowthTheorem`: `Spec => GrowthMovesOnlyToNew`, for any keys, hashes and counts. `RingFacts` says
  that the ring of n shards has exactly their hashes, `FewerShards` that a lookup in the larger ring
  which ends at an old shard is the lookup in the smaller one; the only invariant needed is that
  the count is one of `Counts`. It needs that no two shards have one hash.
* `TypeCorrect`, `RecoveryFollowsTheFiles` (`Spec => []RecoveredAsLogged`) and `NoKeyLeavesEarly`
  (`Spec => KeysLeaveWhenDue`), from `RestartInv`: each key is what the last entry for it says in some
  file that has been replayed, or is not there when no such entry exists, and a deletion carries no
  deadline. The replay of a file is a recursive function; `PlaysExists` and `ReplayedFacts` say that
  the function exists and what it leaves for a key after each entry.

`ServiceProofs`
* `TypeCorrect`: `Spec => []TypeOK`. The inductive invariant `TypeInv` adds that the settings are
  usable, and merged, once the main goroutine has passed `PreRun`.
* `WaitIsAJoin`: `Spec => []WaitJoins`. `ThreadsInv`: the wait group counts the threads that exist,
  "run-server" is among them exactly while its goroutine runs, nothing is registered before the
  start or behind `Wait`, and recovery is registered or has replayed what can be read.
* `SettingsAreServed`: `Spec => []ServesAsConfigured`, from `MergeFacts`: root is among the users
  whatever the sources say, and neither authentication nor persistence is turned off by an override.
* `OnlyKnownPanics`: `Spec => []PanicsAreKnown`. `PanicInv`: the logger is closed in the last step
  of the main goroutine only, behind the end of the server thread, the signal channel in the one before;
  no io-thread runs before the server listens, and one that runs when the server has returned was given
  up.

`ConnectionsProofs`
* `BooksFollowThreads`: `Spec => []BooksAreRight`, for any number of clients, any addresses,
  descriptor and thread limits. `SessionsFollowConnections`: `Spec => []SessionsBelong`.
  `AnswersFollowFrames`: `Spec => []AnswersAreOwn`. All from one inductive invariant, `ConnInv`:
  - `Placed`: a client is in one place, not connected, in the backlog, with the accept goroutine or
    with a thread, and an edge means that somebody waits; `Numbered`: whoever has a thread has numbers.
  - `Spoken`: what is in an inbox and is not a request are the credentials that were sent, and
    whoever is past the accept goroutine sent the right ones.
  - `SessionsKept`: who counts as active has a session, or one with the same id is gone.
  - `Counting`: `activeThreads` is the number of threads in `Counted`; `numIOThreads` lies between
    those registered and those that ever were.
  - `Own`: while no number has been stolen, a thread that has not closed its numbers has both for
    itself (`NumbersOwn`), `connectedClients` is exactly the ids of the registered threads and
    `numIOThreads` exactly those not yet closed (`BooksOwn`), and of a client that waits for its
    answers the frames answered, in service and unread are no more than were sent (`Fits`): its inbox
    never holds two frames, so that none of its own is cut.

  `NumbersOwn` is why `GetThread` finds nothing: a registered thread with the same id would have the
  number that was just accepted. It is also what the second close of finding 3 destroys, so that the
  three parts of `Own` can only hold up to it.

`CommandsProofs`
* Values first. `FlattenFacts`, `AddFacts` and `RemoveFacts` say that the recursive functions exist
  and what they return for paths and sequences of any length (`UpTo` is the induction); then one
  lemma per family says what its commands decide (`StringEffects`, `NumberEffects`, `ListEffects`,
  `MapEffects`, `DocumentEffects`; `EffectFacts` for all): a value good for its kind, or a panic of
  the known sort.
* `ShapesHold`: `Spec => []KindsHoldTheirShape`, whoever writes what. The inductive invariant
  `BaseInv` says that every object in the heap is good for its kind, not only those a key has now,
  because clients and the log hold others; that every pointer, of a key, a client or an entry, leads
  to an object; and of each client what its request and its place in the command allow (`ClientOK`).
* `PanicsKnown`: `Spec => []PanicsAreKnown`. `Forgotten` is where the code forgets a case; only a
  client there can end the process, and after that nothing moves.
* `ScansHonest`: `Spec => []ScansAreHonest`, for a counter of any width and any number of arguments.
  `ScanInv` adds for a client in EXISTS that the part of the keys it has visited accounts for its
  count, modulo the width, between the keys always there and those ever there (`Counted`), and for one
  in JSON.SETREF that what it has passed was there when it passed (`Seen`).
* `LogFollows`: under `OneWriter`, `Spec => []LogKeepsUp`, from `LogInv`. Its parts: an object is reached
  by one key only, through the memory, clients and queue together (`OneKey`), so that a change in place
  cannot touch another key's entry; a writer that has looked its key up still has the object the memory
  has, and one about to log has the entry that agrees with the memory (`ClientKeeps`); and unless it was
  refused or dropped (`missed`), the last entry for a
  key nobody is writing, in the queue or else in the log, says what the memory does (`UpToLog`). A read
  torn by a change in place is covered because the changing client is then `Writing` and its own entry
  is still to come. Without one writer per key the log and the memory may disagree for good, as in
  `Persistence`.
* `DocumentsChange`: under `OneWriter`, `Spec => DocumentsChangeAtPath`. `LogInv` again, because of
  which the object a command has looked up is the one the memory has when it changes it
  (`DecidedFacts`). The rest is about values. `AtNodes` unrolls `At` into
  the nodes on the way down a path, `AddNodes`, `RemoveNodes` and `MergeExists` give the recursive
  functions as their equations, and `AddPuts`, `RemoveTakes` and `MergesInto` compare the document
  before and after at every path of up to two fields, for paths of the command of any length and
  documents of any depth. That the property looks no deeper than two fields is why no induction over
  documents is needed: longer paths of a command only have to be followed that far. For a merge it
  needs that no value in a document is the `Missing` of an absent one, which is what `IsDocument` gives.

Only model-checked: the liveness properties (`CallsReturn`, `AcceptedIsWritten`, `HeadIsAccepted`,
`HangupCleansUp`, `AskedIsAnswered` and `EndsWhenTold`), which are out of the prover's reach. The induction that the recursive functions of `WalShard`, `Restart`
and `Values` need is done through least elements of sets of numbers.

## 5. Findings

Each contradicts a comment of the repository, quoted in `PROJECT.json`.

1. `mem.go:41` - an expired Get deletes the key, not the object it judged (`mem_stale_delete`).
2. `wal.go:215` - a tolerated torn tail swallows what is appended after it (`wal_append_after_tear`).
3. `main.go:379` - the clean-up of a connection closes its number once more than "once at the end";
   by then it may be another client's (`conn_close_once`).
4. `shard_manager.go:119` - an entry whose deadline has passed is replayed with a lifetime of zero
   or less, which means none: the key is back for good (`restart_expired`).
5. `log_manager.go:215` - closing the log queue waits for nobody; what is still in it when main
  returns is never written (`service_flush`).

Documents that the code contradicts in places a single call shows, and that no property claims:

* `list_pop.go:16` ("from the beginning of the list") and `list_gpop.go:16` ("the first element"):
  both take the last element (`ListPop`, `ListGPop`).
* `map_del.go:17-18` ("deletes only the specified field"): of a map with one field the whole map is
  deleted, whatever field is named (`map_del.go:76`, `MapDel`). `DocumentsChangeAtPath` is silent on
  MAP.DEL.
* `str_get.go:15` and `:22-23` document an empty answer for an absent key, where the process dies
  (`StrGet`; `PanicsAreKnown` lists it).
* `wal.go:43` says "fdatasync every N batches"; the count of `wal.go:356` is one of entries, and a flush
  syncs only when it ends on an exact multiple of N: with N = 2, the value of the run, any number of
  batches can go without a sync. Nothing the run checks relies on one.
* `wal.go:373` calls recovery "tolerant to torn tail"; a record cut exactly behind its header
  (`wal.go:416`) is an error all the same, and ends the recovery of all files.

Behaviour worth knowing when reading the code:

* Two clients on one number lose an increment: `num_incr.go` reads, computes and writes in separate
  calls. Pops and pushes of two clients lose one another's change in the same way. The models have the
  steps apart; no property is stated, because nothing promises otherwise.
* An entry may be refused (`wal.go:181`) or dropped when it cannot be marshalled (`wal.go:316`), and a
  sync may fail (`wal.go:362`); all three are invisible to the client, and after a failed sync in a
  flush even Close answers nil. `LogKeepsUp`, `LogAgreesWithMemory` and `CloseKeepsAll` say what is left.
* Panics nothing recovers from: STR.GET and NUM.GET of an absent key, an empty field in a map
  command, STR.RANGE of a range left of the string or one whose end overflows (`PanicsAreKnown` of
  `Commands`); and the first write of a server whose log could not be opened (`shard_manager.go:37`).
* EXISTS counts in an int8 (`ScansAreHonest` is modulo its width). LIST.GPOP drops a deadline from
  the memory and keeps it in the log (`LogKeepsUp`). STR.LENGTH counts bytes, STR.RANGE runes.
* A pipelining client may never be answered, and may be answered more often than it asked: each
  `ReadSync` makes a new reader and drops what the last one buffered, in the middle of a frame if need
  be (`AskedIsAnswered`, and the count in `AnswersAreOwn`, are for clients that wait).
* The process may panic on its way out, in three ways: no signal came and the closed channel makes
  the reader print nil (`service_manager.go:48`, `:74`); a connection given up after a second, or one
  that counts as done (`main.go:383`) before it logs that it is, logs on the closed queue; so does the
  goroutine of the write-ahead log (`PanicsAreKnown` of `Service`).
* The WAL's `Close` is never called, so the last batches depend on the sync policy.

## 6. What is abstracted, and what is not modelled

* Values are told apart as far as a command does so; texts are a few letters, lists and documents
  small. A document that JSON.ADD has made deeper than `encoding/json` reads is still read here. Log records count as one each; timestamps in records and checksums are represented by the
  shape of a torn record.
* `Persistence` takes written entries for surviving ones, as after a process kill; what a power failure
  does to one log is in `WalShard`, which reads the whole file in its `Restart` step; the interleaving
  of recovery with traffic is in `Persistence`.
* Which bytes a torn frame of a socket holds is not modelled, only what a reader may take them for.
* `Commands` has no clock: what expiry does to a memory is in `Memory`, what it does over a restart
  is in `Restart`. The STR.* workloads use plain texts.
* Nobody calls `CleanupExpired`, `Cancel`, `IsRunning` and `List`; `Memory` has the first, the
  others are left out. `Memory.Length` only reads. `SegmentMaxSize` is an option without code.
* Reports (STATUS, SESSION, PING, VERSION) change no state; only their dispatch is modelled.
* Of authentication: who gets a session, and when it goes. Hashing is a set of credentials.
* Of the logger: queue, goroutine, close. Levels, formats and the console writer are not modelled.
* Of the settings: those that decide something in another model. The others merge in the same way.
* The kqueue and IOCP builds of the event loop, the search for the outbound address, banners, word
  generators, generated protobuf code, error constants and the prototypes under `test/` are not
  modelled: other platforms, pure I/O, generated or unused.
* `ttl_manager.go` is not modelled, because all of it is commented out.

## 7. Plan

Done: the key space, one log shard, commands with memory, log and recovery, all command semantics,
connections, restarts with deadlines and shard counts, and the life of the process.

Every safety property a passing run checks is also a theorem. What `AddNestedKey`, `RemoveNestedKey`
and `MergeObjects` leave at paths of more than two fields would need an induction over documents.

To be modelled, where it would say something new: several shards of `WalShard` under one
`Persistence`, so that power failures meet commands; EXPIRE with its log entry under crashes.
