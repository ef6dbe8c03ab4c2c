----------------------------- MODULE ServiceProofs -----------------------------
(***************************************************************************)
(* Proofs about Service, for any settings, io-threads and bounds.          *)
(***************************************************************************)
EXTENDS Service, TLAPS

Fields == {"port", "enable_auth", "users", "persistence", "shard_count", "strict_mode"}

(* Settings are a record of these fields.                                  *)
LEMMA SettingsFacts ==
    ASSUME NEW s \in Settings
    PROVE  /\ DOMAIN s = Fields
           /\ s["port"] \in Nat /\ s["enable_auth"] \in BOOLEAN /\ s["users"] \in SUBSET STRING
           /\ s["persistence"] \in BOOLEAN /\ s["shard_count"] \in Nat
           /\ s["strict_mode"] \in BOOLEAN
  BY DEF Settings, Fields

(* No settings at all are settings.                                        *)
LEMMA ZeroFacts == Zero \in Settings
  BY DEF Zero, Settings

(* What is merged is settings, and has what is said below of them.         *)
LEMMA MergeFacts ==
    ASSUME NEW file \in Settings, NEW over \in Settings
    PROVE  /\ MergeConfigs(file, over) \in Settings
           /\ file.enable_auth => MergeConfigs(file, over).enable_auth
           /\ file.persistence \/ over.persistence => MergeConfigs(file, over).persistence
<1> DEFINE merged == MergeConfigs(file, over)
           Picks(f) == IF f \in Kept \/ (f \notin Replaced /\ over[f] = Zero[f])
                       THEN file[f] ELSE over[f]
<1>1. /\ file = [port |-> file["port"], enable_auth |-> file["enable_auth"],
                 users |-> file["users"], persistence |-> file["persistence"],
                 shard_count |-> file["shard_count"], strict_mode |-> file["strict_mode"]]
      /\ DOMAIN file = Fields
  BY SettingsFacts DEF Settings
<1>2. merged = [port |-> Picks("port"), enable_auth |-> Picks("enable_auth"),
                users |-> Picks("users"), persistence |-> Picks("persistence"),
                shard_count |-> Picks("shard_count"), strict_mode |-> Picks("strict_mode")]
  BY <1>1 DEF MergeConfigs, Fields
<1>3. merged \in Settings
  BY <1>2, SettingsFacts DEF Settings
<1>4. /\ merged.enable_auth = Picks("enable_auth")
      /\ merged.persistence = Picks("persistence")
  BY <1>2
<1>5. /\ file.enable_auth => merged.enable_auth
      /\ file.persistence \/ over.persistence => merged.persistence
  BY <1>4, SettingsFacts DEF Kept, Replaced, Zero, Settings
<1> QED
  BY <1>3, <1>5

-----------------------------------------------------------------------------
(* The settings that a server which runs has were merged from usable ones. *)

Usable == given.file \notin {Nothing, Invalid} /\ Override # Invalid

(* What the three sources merge to, if it is usable.                       *)
LEMMA MergedFacts ==
    ASSUME given \in Starts, Usable
    PROVE  /\ Merged \in Settings /\ Merged.users \in SUBSET STRING
           /\ given.file.enable_auth => Merged.enable_auth
           /\ given.file.persistence \/ (Override # Nothing /\ Override.persistence)
                 => Merged.persistence
<1> DEFINE over == IF Override = Nothing THEN Zero ELSE Override
<1>1. given.file \in Settings
  BY ServiceAssumption DEF Usable
<1>2. over \in Settings
  <2>1. CASE Override = Nothing
    BY <2>1, ZeroFacts
  <2>2. CASE Override # Nothing
    BY <2>2, ServiceAssumption DEF Usable, Override
  <2> QED
    BY <2>1, <2>2
<1>3. Merged = MergeConfigs(given.file, over)
  BY DEF Merged
<1>4. Merged \in Settings
  BY <1>1, <1>2, <1>3, MergeFacts
<1>5. Merged.users \in SUBSET STRING
  BY <1>4 DEF Settings
<1>6. given.file.enable_auth => Merged.enable_auth
  BY <1>1, <1>2, <1>3, MergeFacts
<1>7. given.file.persistence \/ (Override # Nothing /\ Override.persistence)
         => Merged.persistence
  BY <1>1, <1>2, <1>3, MergeFacts
<1> QED
  BY <1>4, <1>5, <1>6, <1>7

(* Who may panic.                                                          *)
Panickers == Workers \cup {"none"} \cup Others

(* How the process may have ended.                                         *)
EndingOK ==
    /\ proc \in {"up", "fatal", "refused", "panic", "killed", "exited"}
    /\ culprit \in Panickers

LoggerOK == log \in [queued : 0 .. QueueSize, closed : BOOLEAN]

(* What a step of a goroutine that logs does to the logger.                *)
LEMMA LogType ==
    ASSUME LoggerOK, EndingOK, NEW who \in Panickers, asyncLog(who)
    PROVE  LoggerOK' /\ EndingOK'
<1>1. QueueSize \in Nat
  BY ServiceAssumption
<1>2. CASE log.closed /\ Panics(who) /\ UNCHANGED log
  BY <1>2 DEF Panics, LoggerOK, EndingOK
<1>3. CASE /\ log' = [log EXCEPT !.queued = IF @ = QueueSize THEN @ ELSE @ + 1]
           /\ UNCHANGED ending
  <2>1. log.queued \in 0 .. QueueSize
    BY DEF LoggerOK
  <2>2. (IF log.queued = QueueSize THEN log.queued ELSE log.queued + 1) \in 0 .. QueueSize
    BY <1>1, <2>1
  <2>3. LoggerOK'
    BY <1>3, <2>2 DEF LoggerOK
  <2> QED
    BY <1>3, <2>3 DEF EndingOK, ending
<1> QED
  BY <1>2, <1>3 DEF asyncLog

(* The thread manager keeps its type.                                      *)
ManagerOK ==
    /\ tm \in [ctx : BOOLEAN, threads : SUBSET ThreadIds, cancels : SUBSET ThreadIds,
               waits : SUBSET ThreadIds]
    /\ tm.waits \subseteq tm.threads

LEMMA ThreadTypes ==
    ASSUME ManagerOK, NEW id \in ThreadIds, Go(id) \/ Ends(id) \/ CancelAll
    PROVE  ManagerOK'
<1>1. CASE Go(id)
  <2>1. CASE id \in tm.threads
    BY <1>1, <2>1 DEF Go, ManagerOK
  <2>2. CASE id \notin tm.threads
    <3>1. tm' = [tm EXCEPT !.threads = @ \cup {id}, !.waits = @ \cup {id}]
      BY <1>1, <2>2 DEF Go
    <3>2. tm'.waits = tm.waits \cup {id} /\ tm'.threads = tm.threads \cup {id}
      BY <3>1 DEF ManagerOK
    <3> QED
      BY <3>1, <3>2 DEF ManagerOK
  <2> QED
    BY <2>1, <2>2
<1>2. CASE Ends(id)
  <2>1. tm'.waits = tm.waits \ {id} /\ tm'.threads = tm.threads \ {id}
    BY <1>2 DEF Ends, ManagerOK
  <2> QED
    BY <1>2, <2>1 DEF Ends, ManagerOK
<1>3. CASE CancelAll
  <2>1. tm'.waits = tm.waits /\ tm'.threads = tm.threads
    BY <1>3 DEF CancelAll, ManagerOK
  <2> QED
    BY <1>3, <2>1 DEF CancelAll, ManagerOK
<1> QED
  BY <1>1, <1>2, <1>3

(* The other parts of TypeOK, so that a step names only those it changes.  *)
ServerOK == srv \in [pc : ServerPc, err : BOOLEAN]
WorkersOK ==
    /\ io \in [Workers -> {"none", "run", "done", "gone"}]
    /\ requests \in [Workers -> Nat]
WalOK ==
    /\ wal \in {"closed", "missing", "idle", "batch"}
    /\ replay \in [n : 0 .. Entries, err : BOOLEAN]
PlainOK ==
    /\ given \in Starts
    /\ config \in Settings \cup {Nothing} /\ users \in SUBSET STRING
    /\ main \in MainPc
    /\ sig \in {"none", "pending", "taken", "closed"}
    /\ gaveUp \in BOOLEAN

AllOK ==
    PlainOK /\ ManagerOK /\ ServerOK /\ WorkersOK /\ WalOK /\ LoggerOK /\ EndingOK

(* They make up TypeOK, and what a step leaves alone keeps its type.       *)
LEMMA TypeParts ==
    /\ TypeOK => AllOK
    /\ AllOK' => TypeOK'
<1>1. TypeOK => AllOK
  BY Zenon DEF TypeOK, AllOK, PlainOK, ManagerOK, ServerOK, WorkersOK, WalOK, LoggerOK, EndingOK, Panickers
<1>2. AllOK' => TypeOK'
  BY Zenon DEF TypeOK, AllOK, PlainOK, ManagerOK, ServerOK, WorkersOK, WalOK, LoggerOK, EndingOK, Panickers
<1> QED
  BY <1>1, <1>2

LEMMA PartsKept ==
    ASSUME AllOK
    PROVE  /\ UNCHANGED tm => ManagerOK'
           /\ UNCHANGED srv => ServerOK'
           /\ UNCHANGED threads => WorkersOK'
           /\ UNCHANGED <<wal, replay>> => WalOK'
           /\ UNCHANGED log => LoggerOK'
           /\ UNCHANGED ending => EndingOK'
           /\ UNCHANGED <<settings, main, sig, gaveUp>> => PlainOK'
<1>1. UNCHANGED tm => ManagerOK'
  BY Zenon DEF AllOK, ManagerOK
<1>2. UNCHANGED srv => ServerOK'
  BY Zenon DEF AllOK, ServerOK
<1>3. UNCHANGED threads => WorkersOK'
  BY DEF AllOK, WorkersOK, threads
<1>4. UNCHANGED <<wal, replay>> => WalOK'
  BY DEF AllOK, WalOK
<1>5. UNCHANGED log => LoggerOK'
  BY Zenon DEF AllOK, LoggerOK
<1>6. UNCHANGED ending => EndingOK'
  BY DEF AllOK, EndingOK, ending
<1>7. UNCHANGED <<settings, main, sig, gaveUp>> => PlainOK'
  BY DEF AllOK, PlainOK, settings
<1> QED
  BY <1>1, <1>2, <1>3, <1>4, <1>5, <1>6, <1>7

(* What a goroutine that logs, the server or a worker leaves in its part.  *)
LEMMA PartsChanged ==
    ASSUME AllOK
    PROVE  /\ \A who \in Panickers : asyncLog(who) => LoggerOK' /\ EndingOK'
           /\ \A who \in Panickers : Panics(who) => EndingOK'
           /\ \A from, to \in ServerPc : ServerGoes(from, to) => ServerOK'
           /\ \A pc \in ServerPc : srv' = [pc |-> pc, err |-> TRUE] => ServerOK'
           /\ \A w \in Workers, pc \in {"run", "done", "gone"} :
                 io' = [io EXCEPT ![w] = pc] /\ UNCHANGED requests => WorkersOK'
<1>1. \A who \in Panickers : asyncLog(who) => LoggerOK' /\ EndingOK'
  BY LogType DEF AllOK
<1>2. \A from, to \in ServerPc : ServerGoes(from, to) => ServerOK'
  BY DEF AllOK, ServerOK, ServerGoes
<1>3. \A pc \in ServerPc : srv' = [pc |-> pc, err |-> TRUE] => ServerOK'
  BY DEF ServerOK
<1>4. \A w \in Workers, pc \in {"run", "done", "gone"} :
         io' = [io EXCEPT ![w] = pc] /\ UNCHANGED requests => WorkersOK'
  BY DEF AllOK, WorkersOK
<1>5. \A who \in Panickers : Panics(who) => EndingOK'
  BY DEF Panics, EndingOK
<1> QED
  BY <1>1, <1>2, <1>3, <1>4, <1>5

(* The types of the variables are preserved, and settings stay usable.     *)
TypeInv == TypeOK /\ (main # "prerun" => Usable /\ config = Merged /\ users = Merged.users
                                           /\ "root" \in users)

(* The types hold at the start.                                            *)
LEMMA TypeStart == Init => TypeInv
<1> SUFFICES ASSUME Init PROVE TypeInv
  OBVIOUS
<1>1. Entries \in Nat /\ QueueSize \in Nat \ {0}
  BY ServiceAssumption
<1>2. LoggerOK /\ EndingOK /\ WalOK
  BY <1>1 DEF Init, LoggerOK, EndingOK, Panickers, WalOK
<1>3. ManagerOK /\ WorkersOK
  BY DEF Init, ManagerOK, WorkersOK
<1>4. ServerOK /\ main \in MainPc
  BY DEF Init, MainPc, ServerPc, ServerOK
<1>5. TypeOK
  BY <1>2, <1>3, <1>4 DEF Init, TypeOK, ManagerOK, WorkersOK, WalOK, ServerOK, LoggerOK, EndingOK, Panickers
<1> QED
  BY <1>5 DEF Init, TypeInv

(* Every step preserves the types.                                         *)
LEMMA TypeStep == TypeInv /\ [Next]_vars => TypeInv'
<1> SUFFICES ASSUME TypeInv, [Next]_vars PROVE TypeInv'
  OBVIOUS
<1>0. TypeOK /\ Entries \in Nat /\ QueueSize \in Nat \ {0}
  BY ServiceAssumption DEF TypeInv
<1>m. AllOK
  BY <1>0, TypeParts
<1> USE DEF MainPc, ServerPc
<1>1. CASE PreRun
  <2>1. CASE UNCHANGED <<config, users, main>> /\ proc' \in {"fatal", "refused"}
    BY <1>0, <1>1, <2>1 DEF PreRun, TypeInv, TypeOK, Usable, Override, Merged, threads
  <2>2. CASE /\ given.file \notin {Nothing, Invalid} /\ Override # Invalid
             /\ config' = Merged /\ users' = Merged.users
    <3>1. Merged \in Settings /\ Merged.users \in SUBSET STRING
      BY <1>0, <2>2, MergedFacts DEF Usable, TypeOK
    <3>2. Usable /\ given' = given
      BY <1>1, <2>2 DEF PreRun, Usable
    <3>3. Usable' /\ Merged' = Merged
      BY <3>2 DEF Usable, Override, Merged
    <3> QED
      BY <1>0, <1>1, <2>2, <3>1, <3>2, <3>3 DEF PreRun, TypeInv, TypeOK, threads
  <2> QED
    BY <1>1, <2>1, <2>2 DEF PreRun
<1>a. CASE UNCHANGED settings /\ (main = "prerun" => main' = main)
  <2>1. Usable' = Usable /\ Merged' = Merged
    BY <1>a DEF settings, Usable, Override, Merged
  <2>0. TypeOK' => TypeInv'
    BY <1>a, <2>1 DEF TypeInv, settings
  <2>q. AllOK' => TypeInv'
    BY <2>0, TypeParts
  <2>s. {"main", "server", "wal", "signal", "recovery", "command"} \cup Workers \subseteq Panickers
    BY DEF Panickers, Others
  <2>t. "shard-recovery" \in ThreadIds /\ "run-server" \in ThreadIds
    BY DEF ThreadIds
  <2>2. CASE Notify \/ Wait
    <3>1. UNCHANGED <<settings, tm, wal, replay, srv, threads, log, ending>>
      BY <2>2 DEF Notify, Wait
    <3>2. PlainOK'
      BY <1>m, <2>2 DEF AllOK, PlainOK, Notify, Wait, MainGoes, settings
    <3> QED
      BY <1>m, <2>q, <3>1, <3>2, PartsKept DEF AllOK
  <2>3. CASE StartRecovery
    <3>1. UNCHANGED <<settings, wal, replay, srv, threads, log, ending>>
          /\ (Go("shard-recovery") \/ UNCHANGED tm)
      BY <2>3 DEF StartRecovery
    <3>2. PlainOK'
      BY <1>m, <2>3 DEF AllOK, PlainOK, StartRecovery, MainGoes, settings
    <3>3. ManagerOK'
      BY <1>m, <2>t, <3>1, ThreadTypes, PartsKept DEF AllOK
    <3> QED
      BY <1>m, <2>q, <3>1, <3>2, <3>3, PartsKept DEF AllOK
  <2>4. CASE StartServer
    <3>1. /\ UNCHANGED <<settings, wal, replay, threads, log, ending>>
          /\ Go("run-server") /\ srv' = [srv EXCEPT !.pc = "bind"]
      BY <2>4 DEF StartServer
    <3>2. PlainOK'
      BY <1>m, <2>4 DEF AllOK, PlainOK, StartServer, MainGoes, settings
    <3>3. ManagerOK'
      BY <1>m, <2>t, <3>1, ThreadTypes DEF AllOK
    <3>4. ServerOK'
      BY <1>m, <3>1 DEF AllOK, ServerOK
    <3> QED
      BY <1>m, <2>q, <3>1, <3>2, <3>3, <3>4, PartsKept DEF AllOK
  <2>5. CASE ServerStopped
    <3>1. asyncLog("main") /\ UNCHANGED <<settings, tm, sig, wal, replay, srv, gaveUp, threads>>
          /\ main' = "wait"
      BY <2>5 DEF ServerStopped, MainGoes
    <3>2. LoggerOK' /\ EndingOK'
      BY <1>m, <2>s, <3>1, PartsChanged
    <3>3. PlainOK'
      BY <1>m, <3>1 DEF AllOK, PlainOK, settings
    <3> QED
      BY <1>m, <2>q, <3>1, <3>2, <3>3, PartsKept DEF AllOK
  <2>6. CASE StopSignals \/ Signal \/ Exit
    <3>1. UNCHANGED <<settings, tm, wal, replay, srv, threads, log>>
      BY <2>6 DEF StopSignals, Signal, Exit
    <3>2. PlainOK'
      BY <1>m, <2>6 DEF AllOK, PlainOK, StopSignals, Signal, Exit, MainGoes, settings
    <3>3. EndingOK'
      BY <1>m, <2>6 DEF AllOK, EndingOK, StopSignals, Signal, Exit, ending
    <3> QED
      BY <1>m, <2>q, <3>1, <3>2, <3>3, PartsKept DEF AllOK
  <2>7. CASE CloseLogger
    <3>1. UNCHANGED <<settings, tm, wal, replay, srv, threads, ending>>
          /\ log' = [log EXCEPT !.closed = TRUE]
      BY <2>7 DEF CloseLogger
    <3>2. PlainOK'
      BY <1>m, <2>7 DEF AllOK, PlainOK, CloseLogger, MainGoes, settings
    <3>3. LoggerOK'
      BY <1>m, <3>1 DEF AllOK, LoggerOK
    <3> QED
      BY <1>m, <2>q, <3>1, <3>2, <3>3, PartsKept DEF AllOK
  <2>8. CASE WriteLine
    <3>1. /\ UNCHANGED <<settings, main, tm, sig, wal, replay, srv, gaveUp, threads, ending>>
          /\ log.queued > 0 /\ log' = [log EXCEPT !.queued = @ - 1]
      BY <2>8 DEF WriteLine
    <3>2. log.queued - 1 \in 0 .. QueueSize
      BY <1>0, <1>m, <3>1 DEF AllOK, LoggerOK
    <3>3. LoggerOK'
      BY <1>m, <3>1, <3>2 DEF AllOK, LoggerOK
    <3> QED
      BY <1>m, <2>q, <3>1, <3>3, PartsKept DEF AllOK
  <2>9. CASE TakeSignal
    <3>1. UNCHANGED <<settings, wal, replay, srv, threads, log, ending>> /\ CancelAll
      BY <2>9 DEF TakeSignal
    <3>2. PlainOK'
      BY <1>m, <2>9 DEF AllOK, PlainOK, TakeSignal, settings
    <3>3. ManagerOK'
      BY <1>m, <2>t, <3>1, ThreadTypes DEF AllOK
    <3> QED
      BY <1>m, <2>q, <3>1, <3>2, <3>3, PartsKept DEF AllOK
  <2>10. CASE Recover \/ RecoverFails
    <3>1. UNCHANGED <<settings, main, sig, wal, srv, gaveUp, threads, log, ending>>
          /\ (Ends("shard-recovery") \/ UNCHANGED tm)
      BY <2>10 DEF Recover, RecoverFails
    <3>2. ManagerOK'
      BY <1>m, <2>t, <3>1, ThreadTypes, PartsKept DEF AllOK
    <3>3. replay \in [n : 0 .. Entries, err : BOOLEAN] /\ replay.n \in 0 .. Entries
      BY <1>m DEF AllOK, WalOK
    <3>4. \/ replay' = replay
          \/ replay' = [replay EXCEPT !.err = TRUE]
          \/ replay.n < Entries /\ replay' = [replay EXCEPT !.n = @ + 1]
      BY <2>10 DEF Recover, RecoverFails
    <3>5. replay' \in [n : 0 .. Entries, err : BOOLEAN]
      <4>1. CASE replay' = replay \/ replay' = [replay EXCEPT !.err = TRUE]
        BY <3>3, <4>1
      <4>2. CASE replay.n < Entries /\ replay' = [replay EXCEPT !.n = @ + 1]
        <5>1. replay.n + 1 \in 0 .. Entries
          BY <1>0, <3>3, <4>2
        <5> QED
          BY <3>3, <4>2, <5>1
      <4> QED
        BY <3>4, <4>1, <4>2
    <3>6. WalOK'
      BY <1>m, <3>1, <3>5 DEF AllOK, WalOK
    <3> QED
      BY <1>m, <2>q, <3>1, <3>2, <3>6, PartsKept DEF AllOK
  <2>11. CASE BindAndListen \/ AcceptOne \/ AcceptEnds \/ AcceptFails
    <3>1. UNCHANGED <<settings, main, tm, sig, wal, replay, gaveUp, threads, log, ending>>
      BY <2>11 DEF BindAndListen, AcceptOne, AcceptEnds, AcceptFails
    <3>2. \/ ServerGoes("bind", "accept") \/ ServerGoes("accept", "auth")
          \/ ServerGoes("accept", "drain")
          \/ srv' = [pc |-> "return", err |-> TRUE] \/ srv' = [pc |-> "drain", err |-> TRUE]
      BY <2>11 DEF BindAndListen, AcceptOne, AcceptEnds, AcceptFails
    <3>3. ServerOK'
      <4>1. CASE \E from, to \in ServerPc : ServerGoes(from, to)
        BY <1>m, <4>1, PartsChanged
      <4>2. CASE \E to \in ServerPc : srv' = [pc |-> to, err |-> TRUE]
        BY <1>m, <4>2, PartsChanged
      <4> QED
        BY <3>2, <4>1, <4>2
    <3> QED
      BY <1>m, <2>q, <3>1, <3>3, PartsKept DEF AllOK
  <2>12. CASE Authenticate
    <3>1. UNCHANGED <<settings, main, tm, sig, wal, replay, gaveUp, requests, log, ending>>
      BY <2>12 DEF Authenticate
    <3>2. ServerGoes("auth", "accept")
          /\ (UNCHANGED io \/ \E w \in Workers : io' = [io EXCEPT ![w] = "run"])
      BY <2>12 DEF Authenticate
    <3>3. ServerOK' /\ WorkersOK'
      BY <1>m, <3>1, <3>2, PartsChanged, PartsKept DEF threads
    <3> QED
      BY <1>m, <2>q, <3>1, <3>3, PartsKept DEF AllOK
  <2>13. CASE Drain \/ RunServerReturns
    <3>1. /\ UNCHANGED <<settings, main, tm, sig, wal, replay, threads>> /\ asyncLog("server")
          /\ ServerGoes("drain", "return") \/ ServerGoes("return", "closing")
          /\ gaveUp' = (Active # {}) \/ gaveUp' = gaveUp
      BY <2>13 DEF Drain, RunServerReturns
    <3>2. LoggerOK' /\ EndingOK' /\ ServerOK'
      BY <1>m, <2>s, <3>1, PartsChanged
    <3>3. PlainOK'
      BY <1>m, <3>1 DEF AllOK, PlainOK, settings
    <3> QED
      BY <1>m, <2>q, <3>1, <3>2, <3>3, PartsKept DEF AllOK
  <2>14. CASE RunServerEnds
    <3>1. /\ UNCHANGED <<settings, main, sig, wal, replay, gaveUp, threads, log, ending>>
          /\ ServerGoes("closing", "ended") /\ Ends("run-server")
      BY <2>14 DEF RunServerEnds
    <3>2. ServerOK' /\ ManagerOK'
      BY <1>m, <2>t, <3>1, PartsChanged, ThreadTypes DEF AllOK
    <3> QED
      BY <1>m, <2>q, <3>1, <3>2, PartsKept DEF AllOK
  <2>15. ASSUME NEW w \in Workers, Leave(w) \/ OnDisconnect(w) PROVE TypeInv'
    <3>1. /\ UNCHANGED <<settings, main, tm, sig, wal, replay, srv, gaveUp, requests>>
          /\ io' = [io EXCEPT ![w] = "done"] \/ io' = [io EXCEPT ![w] = "gone"]
          /\ asyncLog(w) \/ UNCHANGED <<log, ending>>
      BY <2>15 DEF Leave, OnDisconnect
    <3>2. WorkersOK'
      BY <1>m, <3>1, PartsChanged
    <3>3. LoggerOK' /\ EndingOK'
      BY <1>m, <2>s, <3>1, PartsChanged, PartsKept
    <3> QED
      BY <1>m, <2>q, <3>1, <3>2, <3>3, PartsKept DEF AllOK
  <2>16. ASSUME NEW w \in Workers, OnTraffic(w) PROVE TypeInv'
    <3>1. /\ UNCHANGED <<settings, main, tm, sig, replay, srv, gaveUp, io>>
          /\ requests' = [requests EXCEPT ![w] = @ + 1] /\ wal' \in {wal, "batch"}
          /\ asyncLog(w) \/ (Panics("command") /\ UNCHANGED log)
      BY <2>16 DEF OnTraffic
    <3>2. WorkersOK' /\ WalOK'
      BY <1>m, <3>1 DEF AllOK, WorkersOK, WalOK
    <3>3. LoggerOK' /\ EndingOK'
      BY <1>m, <2>s, <3>1, PartsChanged, PartsKept
    <3> QED
      BY <1>m, <2>q, <3>1, <3>2, <3>3, PartsKept DEF AllOK
  <2>17. CASE TakeNil \/ RecoverNothing
    <3>1. /\ UNCHANGED <<settings, main, tm, sig, wal, replay, srv, gaveUp, threads, log>>
          /\ Panics("signal") \/ Panics("recovery")
      BY <2>17 DEF TakeNil, RecoverNothing
    <3>2. EndingOK'
      BY <1>m, <2>s, <3>1, PartsChanged
    <3> QED
      BY <1>m, <2>q, <3>1, <3>2, PartsKept DEF AllOK
  <2>18. CASE NewShardManager \/ FlushBatch
    <3>1. /\ UNCHANGED <<settings, tm, sig, replay, srv, gaveUp, threads>>
          /\ wal' \in {"idle", "missing"} /\ (main' = main \/ main' = "recovery")
          /\ UNCHANGED <<log, ending>> \/ asyncLog("main") \/ asyncLog("wal")
      BY <2>18 DEF NewShardManager, FlushBatch, MainGoes
    <3>2. LoggerOK' /\ EndingOK'
      BY <1>m, <2>s, <3>1, PartsChanged, PartsKept
    <3>3. WalOK'
      BY <1>m, <3>1 DEF AllOK, WalOK
    <3>4. PlainOK'
      BY <1>m, <3>1 DEF AllOK, PlainOK, settings
    <3> QED
      BY <1>m, <2>q, <3>1, <3>2, <3>3, <3>4, PartsKept DEF AllOK
  <2>19. CASE UNCHANGED vars
    BY <1>m, <2>q, <2>19, PartsKept DEF AllOK, vars, settings, threads, ending
  <2>20. ~PreRun /\ Next => TypeInv'
    BY <2>2, <2>3, <2>4, <2>5, <2>6, <2>7, <2>8, <2>9, <2>10, <2>11, <2>12, <2>13, <2>14, <2>15,
       <2>16, <2>17, <2>18 DEF Next, MainStep, ServerStep
  <2> QED
    BY <1>1, <2>19, <2>20
<1>b. PreRun \/ (UNCHANGED settings /\ (main = "prerun" => main' = main))
  BY DEF Next, MainStep, ServerStep, vars, settings, Notify, NewShardManager, StartRecovery,
         StartServer, ServerStopped, Wait, StopSignals, CloseLogger, Exit, BindAndListen,
         AcceptEnds, Drain, RunServerReturns, RunServerEnds, AcceptOne, Authenticate,
         AcceptFails, Recover, RecoverFails, RecoverNothing, WriteLine, FlushBatch, Signal,
         TakeSignal, TakeNil, OnTraffic, Leave, OnDisconnect, MainGoes
<1> QED
  BY <1>1, <1>a, <1>b

(* Every variable keeps its type.                                          *)
THEOREM TypeCorrect == Spec => []TypeOK
<1>1. Init => TypeInv
  BY TypeStart
<1>2. TypeInv /\ [Next]_vars => TypeInv'
  BY TypeStep
<1>3. TypeInv => TypeOK
  BY DEF TypeInv
<1> QED
  BY <1>1, <1>2, <1>3, PTL DEF Spec

-----------------------------------------------------------------------------
(* What the wait group, the main goroutine and the server thread know of   *)
(* one another.                                                            *)

Starting == {"prerun", "notify", "shards", "recovery"}
Joined == {"unsignal", "logger", "last"}

ThreadsInv ==
    /\ tm.waits = tm.threads
    /\ "run-server" \in tm.threads <=> srv.pc \notin {"none", "ended"}
    /\ srv.pc = "none" <=> main \in Starting \cup {"server"}
    /\ main \in Starting => tm.threads = {}
    /\ main \in Joined => tm.threads = {}
    /\ main \notin Starting /\ config.persistence => "shard-recovery" \in tm.threads \/ Replayed

JoinInv == TypeInv /\ ThreadsInv

(* A step that opens no log leaves replayed what has been.                 *)
ReplayKept == UNCHANGED <<replay, config>> /\ (wal' = "missing" => wal = "missing")

LEMMA ReplayedStays == ReplayKept /\ Replayed => Replayed'
  BY DEF ReplayKept, Replayed

(* Every step preserves what the threads know of one another.              *)
LEMMA JoinStep == JoinInv /\ [Next]_vars => ThreadsInv'
<1> SUFFICES ASSUME JoinInv, [Next]_vars PROVE ThreadsInv'
  OBVIOUS
<1>0. /\ tm \in [ctx : BOOLEAN, threads : SUBSET ThreadIds, cancels : SUBSET ThreadIds,
                 waits : SUBSET ThreadIds]
      /\ srv \in [pc : ServerPc, err : BOOLEAN]
      /\ main \in MainPc /\ ThreadsInv
  BY DEF JoinInv, TypeInv, TypeOK
<1> USE DEF Starting, Joined
<1>1. CASE UNCHANGED <<tm, srv, main>> /\ ReplayKept
  BY <1>0, <1>1, ReplayedStays DEF ThreadsInv, ReplayKept
<1>2. CASE PreRun \/ Notify \/ NewShardManager
  <2>1. UNCHANGED <<tm, srv>> /\ main \in Starting /\ main' \in Starting
    BY <1>2 DEF PreRun, Notify, NewShardManager, MainGoes
  <2> QED
    BY <1>0, <2>1 DEF ThreadsInv
<1>3. CASE StartRecovery
  <2>1. /\ UNCHANGED <<srv, config>> /\ main = "recovery" /\ main' = "server"
        /\ tm.threads = {} /\ srv.pc = "none"
    BY <1>0, <1>3 DEF StartRecovery, MainGoes, settings, ThreadsInv
  <2>2. CASE config.persistence
    <3>1. tm' = [tm EXCEPT !.threads = @ \cup {"shard-recovery"}, !.waits = @ \cup {"shard-recovery"}]
      BY <1>3, <2>1, <2>2 DEF StartRecovery, Go
    <3>2. tm'.threads = {"shard-recovery"} /\ tm'.waits = {"shard-recovery"}
      BY <1>0, <2>1, <3>1 DEF ThreadsInv
    <3> QED
      BY <1>0, <2>1, <3>2 DEF ThreadsInv
  <2>3. CASE ~config.persistence
    BY <1>0, <1>3, <2>1, <2>3 DEF StartRecovery, ThreadsInv
  <2> QED
    BY <2>2, <2>3
<1>4. CASE StartServer
  <2>1. /\ ReplayKept /\ main = "server" /\ main' = "errors"
        /\ srv.pc = "none" /\ srv'.pc = "bind" /\ "run-server" \notin tm.threads
    BY <1>0, <1>4 DEF StartServer, MainGoes, settings, ThreadsInv, ReplayKept
  <2>2. tm' = [tm EXCEPT !.threads = @ \cup {"run-server"}, !.waits = @ \cup {"run-server"}]
    BY <1>4, <2>1 DEF StartServer, Go
  <2>3. /\ tm'.threads = tm.threads \cup {"run-server"}
        /\ tm'.waits = tm.waits \cup {"run-server"}
    BY <1>0, <2>2
  <2> QED
    BY <1>0, <2>1, <2>3, ReplayedStays DEF ThreadsInv, ReplayKept
<1>5. ASSUME UNCHANGED <<tm, srv>>, ReplayKept,
             (main = "errors" /\ main' = "wait") \/ (main \in Joined /\ main' \in Joined)
      PROVE  ThreadsInv'
  <2>1. CASE main = "errors" /\ main' = "wait"
    BY <1>0, <1>5, <2>1, ReplayedStays DEF ThreadsInv, ReplayKept
  <2>2. CASE main \in Joined /\ main' \in Joined
    BY <1>0, <1>5, <2>2, ReplayedStays DEF ThreadsInv, ReplayKept
  <2> QED
    BY <1>5, <2>1, <2>2
<1>6. CASE Wait
  <2>1. /\ UNCHANGED <<tm, srv>> /\ ReplayKept /\ main = "wait" /\ main' = "unsignal"
        /\ tm.waits = {}
    BY <1>6 DEF Wait, MainGoes, settings, ReplayKept
  <2> QED
    BY <1>0, <2>1, ReplayedStays DEF ThreadsInv, ReplayKept
<1>7. CASE TakeSignal
  <2>1. ReplayKept /\ UNCHANGED <<srv, main>>
    BY <1>7 DEF TakeSignal, settings, ReplayKept
  <2>2. tm'.threads = tm.threads /\ tm'.waits = tm.waits
    BY <1>0, <1>7 DEF TakeSignal, CancelAll
  <2> QED
    BY <1>0, <2>1, <2>2, ReplayedStays DEF ThreadsInv, ReplayKept
<1>8. CASE Recover \/ RecoverFails
  <2>1. /\ UNCHANGED <<srv, config, main, wal>> /\ "shard-recovery" \in tm.threads
        /\ wal # "missing"
    BY <1>8 DEF Recover, RecoverFails, Recovering, settings
  <2>2. main \notin Starting \cup Joined
    BY <1>0, <2>1 DEF ThreadsInv
  <2>3. CASE UNCHANGED tm
    BY <1>0, <2>1, <2>2, <2>3 DEF ThreadsInv
  <2>4. CASE Ends("shard-recovery")
    <3>1. replay \in [n : 0 .. Entries, err : BOOLEAN] /\ Entries \in Nat
      BY ServiceAssumption DEF JoinInv, TypeInv, TypeOK
    <3>2. /\ tm'.threads = tm.threads \ {"shard-recovery"}
          /\ tm'.waits = tm.waits \ {"shard-recovery"}
      BY <1>0, <2>4 DEF Ends
    <3>3. tm' # tm
      BY <2>1, <3>2
    <3>4. (~(replay.n < Entries) /\ replay' = replay) \/ replay' = [replay EXCEPT !.err = TRUE]
      BY <1>8, <3>3 DEF Recover, RecoverFails
    <3>5. replay'.n = Entries \/ replay'.err
      BY <3>1, <3>4
    <3>6. Replayed'
      BY <2>1, <3>5 DEF Replayed
    <3> QED
      BY <1>0, <2>1, <2>2, <3>2, <3>6 DEF ThreadsInv
  <2> QED
    BY <1>8, <2>3, <2>4 DEF Recover, RecoverFails
<1>9. CASE /\ UNCHANGED <<tm, main>> /\ ReplayKept
           /\ srv.pc \notin {"none", "ended"} /\ srv'.pc \notin {"none", "ended"}
  BY <1>0, <1>9, ReplayedStays DEF ThreadsInv, ReplayKept
<1>10. CASE RunServerEnds
  <2>1. /\ ReplayKept /\ UNCHANGED main /\ srv.pc = "closing" /\ srv'.pc = "ended"
    BY <1>0, <1>10 DEF RunServerEnds, ServerGoes, settings, ReplayKept
  <2>2. /\ tm'.threads = tm.threads \ {"run-server"}
        /\ tm'.waits = tm.waits \ {"run-server"}
    BY <1>0, <1>10 DEF RunServerEnds, Ends
  <2> QED
    BY <1>0, <2>1, <2>2, ReplayedStays DEF ThreadsInv, ReplayKept
<1> USE DEF settings, MainGoes
<1>11. CASE Signal \/ TakeNil \/ RecoverNothing \/ WriteLine \/ FlushBatch \/ Exit
  <2>1. UNCHANGED <<tm, srv, main>> /\ ReplayKept
    BY <1>11 DEF Signal, TakeNil, RecoverNothing, WriteLine, FlushBatch, Exit, ReplayKept
  <2> QED
    BY <1>1, <2>1
<1>12. CASE ServerStopped \/ StopSignals \/ CloseLogger
  <2>1. UNCHANGED <<tm, srv>> /\ ReplayKept
    BY <1>12 DEF ServerStopped, StopSignals, CloseLogger, ReplayKept
  <2>2. (main = "errors" /\ main' = "wait") \/ (main \in Joined /\ main' \in Joined)
    BY <1>12 DEF ServerStopped, StopSignals, CloseLogger
  <2> QED
    BY <1>5, <2>1, <2>2
<1>13. CASE BindAndListen \/ AcceptOne \/ Authenticate \/ AcceptEnds \/ AcceptFails
            \/ Drain \/ RunServerReturns
  <2>1. UNCHANGED <<tm, main>> /\ ReplayKept
    BY <1>13 DEF BindAndListen, AcceptOne, Authenticate, AcceptEnds, AcceptFails, Drain,
                 RunServerReturns, ReplayKept
  <2>2. /\ srv.pc \in {"bind", "accept", "auth", "drain", "return"}
        /\ srv'.pc \in {"accept", "auth", "drain", "return", "closing"}
    BY <1>0, <1>13 DEF BindAndListen, AcceptOne, Authenticate, AcceptEnds, AcceptFails, Drain,
                       RunServerReturns, ServerGoes
  <2> QED
    BY <1>9, <2>1, <2>2
<1>14. ASSUME NEW w \in Workers, OnTraffic(w) \/ Leave(w) \/ OnDisconnect(w) PROVE ThreadsInv'
  <2>1. UNCHANGED <<tm, srv, main>> /\ ReplayKept
    BY <1>14 DEF OnTraffic, Leave, OnDisconnect, ReplayKept
  <2> QED
    BY <1>1, <2>1
<1>15. CASE UNCHANGED vars
  <2>1. UNCHANGED <<tm, srv, main>> /\ ReplayKept
    BY <1>15 DEF vars, ReplayKept
  <2> QED
    BY <1>1, <2>1
<1> QED
  BY <1>2, <1>3, <1>4, <1>6, <1>7, <1>8, <1>10, <1>11, <1>12, <1>13, <1>14, <1>15
     DEF Next, MainStep, ServerStep

(* Types and threads together are inductive.                               *)
LEMMA JoinIsInvariant == Spec => []JoinInv
<1>1. Init => JoinInv
  <2>1. Init => ThreadsInv
    BY DEF Init, ThreadsInv, Starting, Joined
  <2> QED
    BY <2>1, TypeStart DEF JoinInv
<1>2. JoinInv /\ [Next]_vars => JoinInv'
  BY TypeStep, JoinStep DEF JoinInv
<1> QED
  BY <1>1, <1>2, PTL DEF Spec

(* Behind tm.Wait nothing that the manager started runs any more: the      *)
(* recovery has replayed what it can read, and the server has returned.    *)
THEOREM WaitIsAJoin == Spec => []WaitJoins
<1>1. JoinInv => WaitJoins
  BY DEF JoinInv, ThreadsInv, WaitJoins, Starting, Joined
<1> QED
  BY <1>1, JoinIsInvariant, PTL

(* Whatever file, flag and variable say: what listens knows root, asks for *)
(* passwords when the file says so, and replays the logs when either does. *)
THEOREM SettingsAreServed == Spec => []ServesAsConfigured
<1>1. ASSUME JoinInv, srv.pc # "none" PROVE ServesAsConfigured
  <2>1. main \notin Starting /\ main # "prerun"
    BY <1>1 DEF JoinInv, ThreadsInv, Starting
  <2>2. given \in Starts /\ Usable /\ config = Merged /\ users = Merged.users /\ "root" \in users
    BY <1>1, <2>1 DEF JoinInv, TypeInv, TypeOK
  <2>3. /\ given.file.enable_auth => config.enable_auth
        /\ given.file.persistence \/ (Override # Nothing /\ Override.persistence)
              => config.persistence
    BY <2>2, MergedFacts
  <2>4. config.persistence => "shard-recovery" \in tm.threads \/ Replayed
    BY <1>1, <2>1 DEF JoinInv, ThreadsInv
  <2> QED
    BY <2>2, <2>3, <2>4 DEF ServesAsConfigured
<1>2. JoinInv => ServesAsConfigured
  BY <1>1 DEF ServesAsConfigured
<1> QED
  BY <1>2, JoinIsInvariant, PTL

-----------------------------------------------------------------------------
(* What may panic, and when.  Before the server listens no io-thread runs; *)
(* one that still runs when the server has returned was given up.          *)
PanicInv ==
    /\ PanicsAreKnown
    /\ log.closed => main = "last"
    /\ sig = "closed" => main \in {"logger", "last"}
    /\ srv.pc \in {"none", "bind"} => \A w \in Workers : io[w] = "none"
    /\ srv.pc \in {"return", "closing", "ended"} /\ ~gaveUp => Active = {}

AllInv == JoinInv /\ PanicInv

(* What is known of the variables PanicInv speaks of.                      *)
LEMMA AllFacts ==
    ASSUME AllInv
    PROVE  /\ log \in [queued : 0 .. QueueSize, closed : BOOLEAN]
           /\ srv \in [pc : ServerPc, err : BOOLEAN]
           /\ io \in [Workers -> {"none", "run", "done", "gone"}]
           /\ main \in Joined => srv.pc = "ended"
           /\ PanicInv
<1>1. TypeOK /\ ThreadsInv /\ PanicInv
  BY DEF AllInv, JoinInv, TypeInv
<1>2. main \in Joined => srv.pc = "ended"
  BY <1>1 DEF ThreadsInv, Joined, Starting
<1> QED
  BY <1>1, <1>2 DEF TypeOK

(* A step that leaves the rest of PanicInv true, and after which no panic  *)
(* or a known one ended the process.                                       *)
LEMMA PanicKept ==
    ASSUME proc' = "panic" => PanicsAreKnown',
           log'.closed => main' = "last",
           sig' = "closed" => main' \in {"logger", "last"},
           srv'.pc \in {"none", "bind"} => \A w \in Workers : io'[w] = "none",
           srv'.pc \in {"return", "closing", "ended"} /\ ~gaveUp' => Active' = {}
    PROVE  PanicInv'
  BY DEF PanicInv, PanicsAreKnown

(* Logging while the log is open does not panic, and does not close it.    *)
LEMMA QuietLog ==
    ASSUME AllInv, NEW who, asyncLog(who)
    PROVE  /\ log'.closed = log.closed
           /\ ~log.closed => UNCHANGED ending
           /\ log.closed => Panics(who)
  BY AllFacts DEF asyncLog

LEMMA PanicStep == AllInv /\ [Next]_vars => PanicInv'
<1> SUFFICES ASSUME AllInv, [Next]_vars PROVE PanicInv'
  OBVIOUS
<1>0. /\ log \in [queued : 0 .. QueueSize, closed : BOOLEAN]
      /\ srv \in [pc : ServerPc, err : BOOLEAN]
      /\ io \in [Workers -> {"none", "run", "done", "gone"}]
      /\ main \in Joined => srv.pc = "ended"
      /\ PanicInv
  BY AllFacts
<1> USE DEF settings, ending, threads
<1>1. CASE UNCHANGED vars
  BY <1>0, <1>1 DEF vars, PanicInv, PanicsAreKnown, Active
<1>2. CASE PreRun
  <2>1. /\ UNCHANGED <<log, sig, io, gaveUp, srv>> /\ main = "prerun" /\ proc' # "panic"
    BY <1>2 DEF PreRun, Up
  <2> QED
    BY <1>0, <2>1, PanicKept DEF PanicInv, Active
<1>3. CASE Notify \/ NewShardManager \/ StartRecovery \/ StartServer \/ Wait
  <2>1. /\ Up /\ UNCHANGED <<sig, io, gaveUp>> /\ main \notin {"logger", "last"}
        /\ UNCHANGED srv \/ srv'.pc = "bind"
        /\ UNCHANGED <<log, ending>> \/ asyncLog("main")
    BY <1>0, <1>3 DEF Notify, NewShardManager, StartRecovery, StartServer, Wait, MainGoes
  <2>2. ~log.closed
    BY <1>0, <2>1 DEF PanicInv
  <2>3. ~log'.closed /\ proc' # "panic"
    BY <2>1, <2>2, QuietLog DEF Up
  <2>4. srv'.pc = "bind" => srv.pc \in {"none", "bind"}
    <3>1. CASE StartServer
      BY <3>1 DEF StartServer, MainGoes, AllInv, JoinInv, ThreadsInv
    <3>2. CASE UNCHANGED srv
      BY <3>2
    <3> QED
      BY <1>3, <3>1, <3>2 DEF Notify, NewShardManager, StartRecovery, Wait
  <2> QED
    BY <1>0, <2>1, <2>3, <2>4, PanicKept DEF PanicInv, Active
<1>4. CASE StopSignals \/ CloseLogger \/ Exit
  <2>1. /\ Up /\ UNCHANGED <<srv, io, gaveUp>> /\ proc' # "panic"
        /\ log'.closed => main' = "last"
        /\ sig' = "closed" => main' \in {"logger", "last"}
    BY <1>0, <1>4 DEF StopSignals, CloseLogger, Exit, MainGoes, PanicInv, Up
  <2> QED
    BY <1>0, <2>1, PanicKept DEF PanicInv, Active
<1>5. CASE BindAndListen \/ AcceptOne \/ Authenticate \/ AcceptEnds \/ AcceptFails \/ RunServerEnds
  <2>1. UNCHANGED <<log, sig, main, gaveUp, proc>> /\ Up
    BY <1>5 DEF BindAndListen, AcceptOne, Authenticate, AcceptEnds, AcceptFails, RunServerEnds,
                ServerGoes
  <2>2. srv'.pc \notin {"none", "bind"}
    BY <1>0, <1>5 DEF BindAndListen, AcceptOne, Authenticate, AcceptEnds, AcceptFails,
                      RunServerEnds, ServerGoes
  <2>3. srv'.pc \in {"return", "closing", "ended"} /\ ~gaveUp' => Active' = {}
    <3>1. CASE BindAndListen
      BY <1>0, <3>1 DEF BindAndListen, ServerGoes, PanicInv, Active
    <3>2. CASE RunServerEnds
      BY <1>0, <3>2 DEF RunServerEnds, ServerGoes, PanicInv, Active
    <3>3. CASE AcceptOne \/ Authenticate \/ AcceptEnds \/ AcceptFails
      BY <1>0, <3>3 DEF AcceptOne, Authenticate, AcceptEnds, AcceptFails, ServerGoes
    <3> QED
      BY <1>5, <3>1, <3>2, <3>3
  <2> QED
    BY <1>0, <2>1, <2>2, <2>3, PanicKept DEF PanicInv, Up
<1>6. CASE Recover \/ RecoverFails \/ WriteLine \/ TakeSignal \/ Signal
  <2>1. /\ UNCHANGED <<srv, io, gaveUp, main>> /\ proc' # "panic"
        /\ log'.closed = log.closed /\ (sig' = "closed" => sig = "closed")
    BY <1>0, <1>6 DEF Recover, RecoverFails, Recovering, WriteLine, TakeSignal, Signal, Up
  <2> QED
    BY <1>0, <2>1, PanicKept DEF PanicInv, Active
<1>7. CASE TakeNil \/ RecoverNothing
  <2>1. UNCHANGED <<main, sig, wal, srv, gaveUp, io, log>>
    BY <1>7 DEF TakeNil, RecoverNothing
  <2>2. \/ culprit' = "signal" /\ main \in {"logger", "last"}
        \/ culprit' = "recovery" /\ wal = "missing"
    BY <1>0, <1>7 DEF TakeNil, RecoverNothing, Recovering, Panics, PanicInv
  <2>3. PanicsAreKnown'
    BY <2>1, <2>2 DEF PanicsAreKnown
  <2> QED
    BY <1>0, <2>1, <2>3, PanicKept DEF PanicInv, Active
<1>8. CASE ServerStopped
  <2>1. Up /\ UNCHANGED <<sig, srv, io, gaveUp>> /\ main = "errors" /\ asyncLog("main")
    BY <1>8 DEF ServerStopped, MainGoes
  <2>2. ~log.closed /\ sig # "closed"
    BY <1>0, <2>1 DEF PanicInv
  <2>3. proc' # "panic" /\ ~log'.closed
    BY <2>1, <2>2, QuietLog DEF Up
  <2> QED
    BY <1>0, <2>1, <2>2, <2>3, PanicKept DEF PanicInv, Active
<1>9. CASE Drain \/ RunServerReturns
  <2>1. Up /\ UNCHANGED <<sig, io, main>> /\ srv.pc \in {"drain", "return"} /\ asyncLog("server")
    BY <1>9 DEF Drain, RunServerReturns, ServerGoes
  <2>2. ~log.closed
    BY <1>0, <2>1 DEF PanicInv, Joined
  <2>3. proc' # "panic" /\ ~log'.closed
    BY <2>1, <2>2, QuietLog DEF Up
  <2>4. srv'.pc \in {"return", "closing"} /\ (~gaveUp' => Active' = {})
    <3>1. CASE Drain
      BY <1>0, <3>1 DEF Drain, ServerGoes, Active
    <3>2. CASE RunServerReturns
      BY <1>0, <3>2 DEF RunServerReturns, ServerGoes, PanicInv, Active
    <3> QED
      BY <1>9, <3>1, <3>2
  <2> QED
    BY <1>0, <2>1, <2>3, <2>4, PanicKept DEF PanicInv
<1>10. CASE FlushBatch
  <2>1. Up /\ UNCHANGED <<main, sig, srv, gaveUp, io>> /\ (UNCHANGED <<log, ending>> \/ asyncLog("wal"))
    BY <1>10 DEF FlushBatch
  <2>2. log'.closed = log.closed /\ (proc' = "panic" => log.closed /\ culprit' = "wal")
    BY <2>1, QuietLog DEF Up, Panics
  <2>3. proc' = "panic" => PanicsAreKnown'
    BY <2>2 DEF PanicsAreKnown
  <2> QED
    BY <1>0, <2>1, <2>2, <2>3, PanicKept DEF PanicInv, Active
<1>11. ASSUME NEW w \in Workers, OnTraffic(w) \/ Leave(w) \/ OnDisconnect(w) PROVE PanicInv'
  <2>1. /\ Up /\ UNCHANGED <<main, sig, srv, gaveUp>> /\ io[w] \in {"run", "done"}
        /\ srv.pc \notin {"none", "bind"}
    BY <1>0, <1>11 DEF OnTraffic, Leave, OnDisconnect, PanicInv
  <2>2. /\ log'.closed = log.closed
        /\ proc' = "panic" => culprit' = "command" \/ (log.closed /\ culprit' = w)
    BY <1>11, <2>1, QuietLog DEF OnTraffic, Leave, OnDisconnect, Panics, Up
  <2>3. Active' \subseteq Active
    BY <1>0, <1>11 DEF OnTraffic, Leave, OnDisconnect, Active
  <2>4. ASSUME log.closed PROVE gaveUp \/ io'[w] = "gone" \/ Leave(w)
    <3>1. srv.pc = "ended"
      BY <1>0, <2>4 DEF PanicInv, Joined
    <3>2. CASE OnTraffic(w)
      BY <1>0, <3>1, <3>2 DEF OnTraffic, PanicInv, Active
    <3>3. CASE OnDisconnect(w)
      BY <1>0, <3>3 DEF OnDisconnect
    <3> QED
      BY <1>11, <3>2, <3>3
  <2>5. Leave(w) => proc' # "panic"
    BY DEF Leave, Up
  <2>6. proc' = "panic" => PanicsAreKnown'
    BY <2>1, <2>2, <2>4, <2>5 DEF PanicsAreKnown
  <2> QED
    BY <1>0, <2>1, <2>2, <2>3, <2>6, PanicKept DEF PanicInv
<1> QED
  BY <1>1, <1>2, <1>3, <1>4, <1>5, <1>6, <1>7, <1>8, <1>9, <1>10, <1>11
     DEF Next, MainStep, ServerStep

(* The main goroutine and the server thread never panic, whoever logs when *)
(* and whatever signals come; an io-thread that is not told to stop does   *)
(* so behind CloseLogger only if nobody waited for it, or if it counted as *)
(* gone too early; all other panics are those of a command, of a log that  *)
(* could not be opened, of the nil that is printed for no signal and of    *)
(* the goroutine of a write-ahead log.                                     *)
THEOREM OnlyKnownPanics == Spec => []PanicsAreKnown
<1>1. Init => PanicInv
  BY DEF Init, PanicInv, PanicsAreKnown
<1>2. JoinInv /\ PanicInv /\ [Next]_vars => PanicInv'
  BY PanicStep DEF AllInv
<1>3. PanicInv => PanicsAreKnown
  BY DEF PanicInv
<1> QED
  BY <1>1, <1>2, <1>3, JoinIsInvariant, PTL DEF Spec
=============================================================================
