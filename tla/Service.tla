------------------------------- MODULE Service -------------------------------
(***************************************************************************)
(* The life of one server process, from its settings to its last log line: *)
(* commander/root.go, config/config.go, server/service_manager.go,         *)
(* internal/io-manager, internal/logger, and of server/eventloop what      *)
(* starts and stops it.                                                    *)
(*                                                                         *)
(* main.pc, the main goroutine:                                            *)
(*   prerun   settings and logger     notify    signals not caught yet     *)
(*   shards   about to open the write-ahead log                            *)
(*   recovery, server  about to start that thread                          *)
(*   errors   reads serverErrCh       wait      tm.Wait                    *)
(*   unsignal Stop and close of sigs  logger    CloseLogger      last      *)
(* srv.pc, the thread "run-server" with its accept goroutine:              *)
(*   none  bind  accept  auth (waits for a client's credentials)           *)
(*   drain (the second that connections get)  return  closing  ended       *)
(* io[w], an io-thread: none, run, done (activeThreads.Done was called),   *)
(* gone.  What it does with its descriptors is in Connections.             *)
(*                                                                         *)
(* wal, the write-ahead log as this process has it: closed (not opened     *)
(* yet), missing (opening failed, sm.wal is a nil *WALSystem), idle, or    *)
(* batch (entries its goroutine has not flushed).  What a batch does to    *)
(* the file is in WalShard.                                                *)
(*                                                                         *)
(* The log lines are counted.  Of the many only those are modelled that    *)
(* race with the shutdown; up to three of one flush count as one.          *)
(***************************************************************************)
EXTENDS Naturals, FiniteSets

CONSTANTS
    Starts,      \* [file, flag, env]: what the configuration file, --config and
                 \* the variable config may say, settings each
    Nothing,     \* not given, or not readable
    Invalid,     \* not YAML
    Workers,     \* io-threads
    MaxRequests, \* bound on the requests of each io-thread
    QueueSize,   \* capacity of logQueue, 1000 in the code
    Entries      \* how many entries recovery has to replay

(* The values that say nothing to the merge, for each setting.             *)
Zero == [port |-> 0, enable_auth |-> FALSE, users |-> {}, persistence |-> FALSE,
         shard_count |-> 0, strict_mode |-> FALSE]
Kept == {"shard_count"}        \* the merge forgets them
Replaced == {"strict_mode"}    \* the merge copies them whatever they are

(* Who may panic, other than an io-thread that logs.                       *)
Others == {"command", "recovery", "signal", "main", "server", "wal"}

Settings == [port : Nat, enable_auth : BOOLEAN, users : SUBSET STRING,
             persistence : BOOLEAN, shard_count : Nat, strict_mode : BOOLEAN]

ASSUME ServiceAssumption ==
    /\ Workers \cap ({"none"} \cup Others) = {}
    /\ \A g \in Starts : \A f \in {g.file, g.flag, g.env} \ {Nothing, Invalid} :
          f \in Settings
    /\ MaxRequests \in Nat /\ Entries \in Nat /\ QueueSize \in Nat \ {0}

VARIABLES
    given,    \* one of Starts
    config,   \* configInstance, Nothing before the merge
    users,    \* UserStore
    main,     \* where the main goroutine is
    tm,       \* thread manager: [ctx, threads, cancels, waits]
    sig,      \* "none", "pending", "taken", "closed" (the channel is closed)
    wal,      \* write-ahead log
    replay,   \* [n: entries the recovery thread has replayed, err: it ended early]
    srv,      \* [pc, err]
    gaveUp,   \* history: the shutdown did not wait for all connections
    io,       \* io-threads
    requests, \* requests each io-thread has taken
    log,      \* logQueue: [queued: lines, closed]
    proc,     \* "up", or how the process ended
    culprit   \* history: the goroutine that panicked

vars == <<given, config, users, main, tm, sig, wal, replay, srv, gaveUp, io, requests,
          log, proc, culprit>>
settings == <<given, config, users>>
threads == <<io, requests>>
ending == <<proc, culprit>>

Up == proc = "up"

Init ==
    /\ given \in Starts
    /\ config = Nothing /\ users = {}
    /\ main = "prerun"
    /\ tm = [ctx |-> FALSE, threads |-> {}, cancels |-> {}, waits |-> {}]
    /\ sig = "none" /\ wal = "closed" /\ replay = [n |-> 0, err |-> FALSE]
    /\ srv = [pc |-> "none", err |-> FALSE]
    /\ gaveUp = FALSE
    /\ io = [w \in Workers |-> "none"] /\ requests = [w \in Workers |-> 0]
    /\ log = [queued |-> 0, closed |-> FALSE]
    /\ proc = "up" /\ culprit = "none"

-----------------------------------------------------------------------------
(* Settings.                                                               *)

(* LoadConfigFromString: the flag hides the variable.                      *)
Override == IF given.flag # Nothing THEN given.flag ELSE given.env

(* Mutant: what the override leaves out is taken from it too.              *)
MergeConfigs_TakesAll(file, over) ==
    [f \in DOMAIN file |-> IF f \in Kept THEN file[f] ELSE over[f]]

(* MergeConfigs.  Nothing was given: every field has its zero value.       *)
MergeConfigs(file, over) ==
    [f \in DOMAIN file |->
        IF f \in Kept \/ (f \notin Replaced /\ over[f] = Zero[f]) THEN file[f] ELSE over[f]]

Merged == MergeConfigs(given.file, IF Override = Nothing THEN Zero ELSE Override)

(* PreRun.  A file that is missing or not YAML, and settings without root, *)
(* are fatal; a bad override is a panic, and so is a log file that cannot  *)
(* be opened.                                                              *)
PreRun ==
    /\ Up /\ main = "prerun"
    /\ CASE given.file \in {Nothing, Invalid} -> proc' = "fatal" /\ UNCHANGED <<config, users, main>>
         [] given.file \notin {Nothing, Invalid} /\ Override = Invalid ->
                proc' = "refused" /\ UNCHANGED <<config, users, main>>
         [] OTHER ->
                /\ config' = Merged /\ users' = Merged.users
                /\ IF "root" \notin Merged.users THEN proc' = "fatal" /\ UNCHANGED main
                   ELSE \/ proc' = proc /\ main' = "notify"
                        \/ proc' = "refused" /\ UNCHANGED main
    /\ UNCHANGED <<given, tm, sig, wal, replay, srv, gaveUp, threads, log, culprit>>

-----------------------------------------------------------------------------
(* The logger.                                                             *)

Panics(who) == proc' = "panic" /\ culprit' = who

(* Mutant: a full queue takes one line more.                               *)
asyncLog_OneMore(who) ==
    \/ log.closed /\ Panics(who) /\ UNCHANGED log
    \/ /\ ~log.closed
       /\ log' = [log EXCEPT !.queued = IF @ > QueueSize THEN @ ELSE @ + 1]
       /\ UNCHANGED ending

(* asyncLog: dropped when the queue is full; a panic when it is closed.    *)
asyncLog(who) ==
    \/ log.closed /\ Panics(who) /\ UNCHANGED log
    \/ /\ ~log.closed
       /\ log' = [log EXCEPT !.queued = IF @ = QueueSize THEN @ ELSE @ + 1]
       /\ UNCHANGED ending

(* The logging goroutine: for logFunc := range logQueue.                   *)
WriteLine ==
    /\ Up /\ log.queued > 0
    /\ log' = [log EXCEPT !.queued = @ - 1]
    /\ UNCHANGED <<settings, main, tm, sig, wal, replay, srv, gaveUp, threads, ending>>

-----------------------------------------------------------------------------
(* The thread manager.                                                     *)

(* Mutant: the wait group learns of the thread when it runs.               *)
Go_CountsLate(id) ==
    IF id \in tm.threads THEN UNCHANGED tm
    ELSE tm' = [tm EXCEPT !.threads = @ \cup {id}]

Go(id) ==
    IF id \in tm.threads THEN UNCHANGED tm
    ELSE tm' = [tm EXCEPT !.threads = @ \cup {id}, !.waits = @ \cup {id}]

Ends(id) == tm' = [tm EXCEPT !.threads = @ \ {id}, !.waits = @ \ {id}]

(* Mutant: the threads are cancelled one by one, the context is not.       *)
CancelAll_ThreadsOnly == tm' = [tm EXCEPT !.cancels = @ \cup tm.threads]

CancelAll == tm' = [tm EXCEPT !.ctx = TRUE, !.cancels = @ \cup tm.threads]

Cancelled(id) == tm.ctx \/ id \in tm.cancels

-----------------------------------------------------------------------------
(* Signals.                                                                *)

(* Before signal.Notify and after signal.Stop a signal ends the process.   *)
(* Between, one is kept for the goroutine; others are dropped.             *)
Signal ==
    /\ Up
    /\ IF main \in {"prerun", "notify", "logger", "last"}
       THEN proc' = "killed" /\ UNCHANGED sig
       ELSE sig = "none" /\ sig' = "pending" /\ UNCHANGED proc
    /\ UNCHANGED <<settings, main, tm, wal, replay, srv, gaveUp, threads, log, culprit>>

TakeSignal ==
    /\ Up /\ sig = "pending"
    /\ sig' = "taken"
    /\ CancelAll
    /\ UNCHANGED <<settings, main, wal, replay, srv, gaveUp, threads, log, ending>>

(* No signal came, and Start has closed the channel: the goroutine gets    *)
(* nil, and prints it.                                                     *)
TakeNil ==
    /\ Up /\ sig = "closed"
    /\ Panics("signal")
    /\ UNCHANGED <<settings, main, tm, sig, wal, replay, srv, gaveUp, threads, log>>

-----------------------------------------------------------------------------
(* The main goroutine: Start, eventloop.Start and Run.                     *)

MainGoes(from, to) == Up /\ main = from /\ main' = to

Notify ==
    /\ MainGoes("notify", "shards")
    /\ UNCHANGED <<settings, tm, sig, wal, replay, srv, gaveUp, threads, log, ending>>

(* The log is opened whether or not persistence is on.  An error of its    *)
(* directory or of one of its files is logged, and the server goes on.     *)
NewShardManager ==
    /\ MainGoes("shards", "recovery")
    /\ \/ wal' = "idle" /\ UNCHANGED <<log, ending>>
       \/ wal' = "missing" /\ asyncLog("main")
    /\ UNCHANGED <<settings, tm, sig, replay, srv, gaveUp, threads>>

StartRecovery ==
    /\ MainGoes("recovery", "server")
    /\ IF config.persistence THEN Go("shard-recovery") ELSE UNCHANGED tm
    /\ UNCHANGED <<settings, sig, wal, replay, srv, gaveUp, threads, log, ending>>

StartServer ==
    /\ MainGoes("server", "errors")
    /\ Go("run-server")
    /\ srv' = [srv EXCEPT !.pc = "bind"]
    /\ UNCHANGED <<settings, sig, wal, replay, gaveUp, threads, log, ending>>

(* serverErrCh is closed: "Stoped".                                        *)
ServerStopped ==
    /\ MainGoes("errors", "wait") /\ srv.pc \in {"closing", "ended"}
    /\ asyncLog("main")
    /\ UNCHANGED <<settings, tm, sig, wal, replay, srv, gaveUp, threads>>

Wait ==
    /\ MainGoes("wait", "unsignal") /\ tm.waits = {}
    /\ UNCHANGED <<settings, tm, sig, wal, replay, srv, gaveUp, threads, log, ending>>

StopSignals ==
    /\ MainGoes("unsignal", "logger")
    /\ sig' = IF sig = "none" THEN "closed" ELSE sig
    /\ UNCHANGED <<settings, tm, wal, replay, srv, gaveUp, threads, log, ending>>

CloseLogger ==
    /\ MainGoes("logger", "last")
    /\ log' = [log EXCEPT !.closed = TRUE]
    /\ UNCHANGED <<settings, tm, sig, wal, replay, srv, gaveUp, threads, ending>>

(* main returns, whatever the other goroutines are doing.                  *)
Exit ==
    /\ Up /\ main = "last"
    /\ proc' = "exited"
    /\ UNCHANGED <<settings, main, tm, sig, wal, replay, srv, gaveUp, threads, log, culprit>>

-----------------------------------------------------------------------------
(* The threads of the manager.                                             *)

Recovering == Up /\ "shard-recovery" \in tm.threads

(* RecoverMemory does not look at its context.                             *)
Recover ==
    /\ Recovering /\ wal # "missing"
    /\ IF replay.n < Entries THEN replay' = [replay EXCEPT !.n = @ + 1] /\ UNCHANGED tm
                             ELSE Ends("shard-recovery") /\ UNCHANGED replay
    /\ UNCHANGED <<settings, main, sig, wal, srv, gaveUp, threads, log, ending>>

(* Recover meets a file or an entry it cannot read; its error is dropped.  *)
RecoverFails ==
    /\ Recovering /\ wal # "missing"
    /\ replay' = [replay EXCEPT !.err = TRUE]
    /\ Ends("shard-recovery")
    /\ UNCHANGED <<settings, main, sig, wal, srv, gaveUp, threads, log, ending>>

(* Recover asks a nil WALSystem for its shards.                            *)
RecoverNothing ==
    /\ Recovering /\ wal = "missing"
    /\ Panics("recovery")
    /\ UNCHANGED <<settings, main, tm, sig, wal, replay, srv, gaveUp, threads, log>>

ServerGoes(from, to) == Up /\ srv.pc = from /\ srv' = [srv EXCEPT !.pc = to]

(* The address may be taken, and epoll may fail.                           *)
BindAndListen ==
    /\ \/ ServerGoes("bind", "accept")
       \/ Up /\ srv.pc = "bind" /\ srv' = [pc |-> "return", err |-> TRUE]
    /\ UNCHANGED <<settings, main, tm, sig, wal, replay, gaveUp, threads, log, ending>>

(* The loop looks at the context between two events only.  The io-threads  *)
(* there are to come bound the connections.                                *)
AcceptOne ==
    /\ ServerGoes("accept", "auth") /\ ~Cancelled("run-server")
    /\ \E w \in Workers : io[w] = "none"
    /\ UNCHANGED <<settings, main, tm, sig, wal, replay, gaveUp, threads, log, ending>>

(* The client has sent its credentials, right or wrong.                    *)
Authenticate ==
    /\ ServerGoes("auth", "accept")
    /\ \/ UNCHANGED io
       \/ \E w \in Workers : io[w] = "none" /\ io' = [io EXCEPT ![w] = "run"]
    /\ UNCHANGED <<settings, main, tm, sig, wal, replay, gaveUp, requests, log, ending>>

AcceptEnds ==
    /\ ServerGoes("accept", "drain") /\ Cancelled("run-server")
    /\ UNCHANGED <<settings, main, tm, sig, wal, replay, gaveUp, threads, log, ending>>

(* epoll_wait failed.                                                      *)
AcceptFails ==
    /\ Up /\ srv.pc = "accept" /\ ~Cancelled("run-server")
    /\ srv' = [pc |-> "drain", err |-> TRUE]
    /\ UNCHANGED <<settings, main, tm, sig, wal, replay, gaveUp, threads, log, ending>>

Active == {w \in Workers : io[w] = "run"}

(* Mutant: the connections are not waited for at all.                      *)
Drain_NoWait ==
    /\ ServerGoes("drain", "return")
    /\ asyncLog("server")
    /\ UNCHANGED <<settings, main, tm, sig, wal, replay, gaveUp, threads>>

(* All connections are closed, or the second is over: "Exiting".           *)
Drain ==
    /\ ServerGoes("drain", "return")
    /\ gaveUp' = (Active # {})
    /\ asyncLog("server")
    /\ UNCHANGED <<settings, main, tm, sig, wal, replay, threads>>

(* runServer: a line, the error into serverErrCh, and the channel closed.  *)
RunServerReturns ==
    /\ ServerGoes("return", "closing")
    /\ asyncLog("server")
    /\ UNCHANGED <<settings, main, tm, sig, wal, replay, gaveUp, threads>>

RunServerEnds ==
    /\ ServerGoes("closing", "ended")
    /\ Ends("run-server")
    /\ UNCHANGED <<settings, main, sig, wal, replay, gaveUp, threads, log, ending>>

-----------------------------------------------------------------------------
(* The io-threads, which nothing tells to stop.                            *)

(* A request is answered, with a result or with the error of the command,  *)
(* and logged; a command that writes has given an entry to the log, which  *)
(* is a panic when there is none.  Some commands panic by themselves (see  *)
(* Commands), and nothing recovers from it.                                *)
OnTraffic(w) ==
    /\ Up /\ io[w] = "run" /\ requests[w] < MaxRequests
    /\ requests' = [requests EXCEPT ![w] = @ + 1]
    /\ \/ UNCHANGED wal /\ asyncLog(w)
       \/ wal # "missing" /\ wal' = "batch" /\ asyncLog(w)
       \/ wal = "missing" /\ Panics("command") /\ UNCHANGED <<wal, log>>
       \/ Panics("command") /\ UNCHANGED <<wal, log>>
    /\ UNCHANGED <<settings, main, tm, sig, replay, srv, gaveUp, io>>

(* The goroutine of a write-ahead log flushes what it has.  Its errors are *)
(* logged.  Nobody stops it before the logger is closed.                   *)
FlushBatch ==
    /\ Up /\ wal = "batch" /\ wal' = "idle"
    /\ UNCHANGED <<log, ending>> \/ asyncLog("wal")
    /\ UNCHANGED <<settings, main, tm, sig, replay, srv, gaveUp, threads>>

(* The client has hung up; activeThreads.Done.                             *)
Leave(w) ==
    /\ Up /\ io[w] = "run"
    /\ io' = [io EXCEPT ![w] = "done"]
    /\ UNCHANGED <<settings, main, tm, sig, wal, replay, srv, gaveUp, requests, log, ending>>

OnDisconnect(w) ==
    /\ Up /\ io[w] = "done"
    /\ io' = [io EXCEPT ![w] = "gone"]
    /\ asyncLog(w)
    /\ UNCHANGED <<settings, main, tm, sig, wal, replay, srv, gaveUp, requests>>

MainStep == PreRun \/ Notify \/ NewShardManager \/ StartRecovery \/ StartServer \/ ServerStopped \/ Wait
                \/ StopSignals \/ CloseLogger \/ Exit
ServerStep == BindAndListen \/ AcceptEnds \/ Drain \/ RunServerReturns \/ RunServerEnds

Next ==
    \/ MainStep \/ ServerStep
    \/ AcceptOne \/ Authenticate \/ AcceptFails
    \/ Recover \/ RecoverFails \/ RecoverNothing
    \/ WriteLine \/ FlushBatch
    \/ Signal \/ TakeSignal \/ TakeNil
    \/ \E w \in Workers : OnTraffic(w) \/ Leave(w) \/ OnDisconnect(w)

Spec == Init /\ [][Next]_vars

(* Goroutines run, replaying ends.  Clients need not connect, speak or     *)
(* hang up, and nobody need send a signal.                                 *)
Fairness ==
    /\ WF_vars(MainStep) /\ WF_vars(ServerStep)
    /\ WF_vars(Recover \/ RecoverNothing) /\ WF_vars(TakeSignal)

FairSpec == Spec /\ Fairness

-----------------------------------------------------------------------------
(* Properties.                                                             *)

MainPc == {"prerun", "notify", "shards", "recovery", "server", "errors", "wait",
           "unsignal", "logger", "last"}
ServerPc == {"none", "bind", "accept", "auth", "drain", "return", "closing", "ended"}
ThreadIds == {"shard-recovery", "run-server"}

(* Every variable has its type; the log queue never exceeds its capacity,  *)
(* and a thread the manager waits for is one it knows.                     *)
TypeOK ==
    /\ given \in Starts
    /\ config \in Settings \cup {Nothing} /\ users \in SUBSET STRING
    /\ main \in MainPc
    /\ tm \in [ctx : BOOLEAN, threads : SUBSET ThreadIds, cancels : SUBSET ThreadIds,
               waits : SUBSET ThreadIds]
    /\ tm.waits \subseteq tm.threads
    /\ sig \in {"none", "pending", "taken", "closed"}
    /\ wal \in {"closed", "missing", "idle", "batch"}
    /\ replay \in [n : 0 .. Entries, err : BOOLEAN]
    /\ srv \in [pc : ServerPc, err : BOOLEAN] /\ gaveUp \in BOOLEAN
    /\ io \in [Workers -> {"none", "run", "done", "gone"}]
    /\ requests \in [Workers -> Nat]
    /\ log \in [queued : 0 .. QueueSize, closed : BOOLEAN]
    /\ proc \in {"up", "fatal", "refused", "panic", "killed", "exited"}
    /\ culprit \in Workers \cup {"none"} \cup Others

(* What the log holds has been replayed, as far as it can be read.         *)
Replayed == wal # "missing" /\ (replay.n = Entries \/ replay.err)

(* A server that listens knows root, whatever replaced the users of the    *)
(* file; authentication that the file turns on is on, no override turns it *)
(* off; and persistence that either of them turns on replays the logs.     *)
ServesAsConfigured ==
    srv.pc # "none" =>
        /\ "root" \in users /\ users = config.users
        /\ given.file.enable_auth => config.enable_auth
        /\ (given.file.persistence \/ (Override # Nothing /\ Override.persistence))
              => "shard-recovery" \in tm.threads \/ Replayed

(* When the main goroutine has passed tm.Wait no thread of the manager     *)
(* runs: nothing is accepted any more, and what the log holds has been     *)
(* replayed to its end or to the first thing that cannot be read.  Without *)
(* a log a server that persists gets no further than to wait.              *)
WaitJoins ==
    main \in {"unsignal", "logger", "last"} =>
        /\ tm.threads = {} /\ srv.pc = "ended"
        /\ config.persistence => Replayed

(* A process panics in a command of its own (see Commands), or one that    *)
(* uses a log that could not be opened, as the recovery does; otherwise    *)
(* only while it ends, in three ways: no signal came and the goroutine     *)
(* that waits for one prints nil; an io-thread that was given up, or that  *)
(* counts as gone already, logs after CloseLogger; a goroutine of the      *)
(* write-ahead log does.  The main goroutine and the server never panic.   *)
PanicsAreKnown ==
    proc = "panic" =>
        \/ culprit = "command"
        \/ culprit = "recovery" /\ wal = "missing"
        \/ culprit = "signal" /\ main \in {"logger", "last"}
        \/ culprit \in Workers /\ log.closed /\ (gaveUp \/ io[culprit] = "gone")
        \/ culprit = "wal" /\ log.closed

(* A signal that was caught, and a server that cannot listen or accept,    *)
(* end the process, whatever the clients do, however early it comes -      *)
(* unless the accept goroutine waits for a silent client's credentials.    *)
EndsWhenTold ==
    \/ (sig \in {"pending", "taken"} \/ srv.err) ~> ~Up
    \/ <>[](srv.pc = "auth")

(* root.go:56 ("flush pending logs") and log_manager.go:215 ("ensuring all *)
(* logs are processed"): a process that has closed its logger and exits    *)
(* leaves no line behind in the queue.                                     *)
LogsAreFlushed == proc = "exited" => log.queued = 0
=============================================================================
