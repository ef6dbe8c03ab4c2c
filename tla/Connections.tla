----------------------------- MODULE Connections -----------------------------
(***************************************************************************)
(* The event loop and its connections: src/server/eventloop, with the      *)
(* sessions of src/internal/auth.                                          *)
(*                                                                         *)
(* One goroutine waits on epoll for the listening socket, accepts ONE      *)
(* connection per event, authenticates it with blocking reads, and starts  *)
(* a goroutine (an io-thread) that reads a request, executes it, writes    *)
(* the answer, and cleans up when reading fails.                           *)
(*                                                                         *)
(* Descriptors are numbers the kernel uses again: table says which         *)
(* connection each one denotes now.  A connection holds two, the one       *)
(* accept gave (fd) and the duplicate that net.FileConn made (dup).  Every *)
(* system call goes by the number, whoever holds it at that moment.        *)
(*                                                                         *)
(* acc.pc: "poll", "auth" (blocked in AuthenticateClient), "setup", "ended"*)
(* thr[p].pc, the io-thread of the connection of p:                        *)
(*   none      not accepted yet                                            *)
(*   register  started, not registered                                     *)
(*   run       blocked in ReadSync        serve    executing a request     *)
(*   leave     the deferred clean-up begins: Unregister                    *)
(*   conn, file, again, finish            the steps of the clean-up        *)
(*   refused   over the limit: closed once, its file and conn left to the  *)
(*             garbage collector, which makes it   collected               *)
(*   failed    authenticated, but no thread could be made for it           *)
(*   gone                                                                  *)
(*                                                                         *)
(* What a request does is in Commands; a request here is a frame to be     *)
(* answered.                                                               *)
(***************************************************************************)
EXTENDS Naturals, Sequences, FiniteSets

CONSTANTS
    Peers,       \* clients, each connecting once
    Addresses,   \* the addresses clients may have, [Peers -> Addr] each
    Limits,      \* how many descriptors the process may have: RLIMIT_NOFILE
    MaxThreads,  \* the limit of IOThreadManager.Register: 100000 in the code
    EnableAuth,  \* Security.EnableAuth
    Pipelining,  \* peers that send a request before the last one is answered
    Credentials, \* what a peer may send first: see RequestAuth
    MaySend,     \* what each peer may send: credentials, "request", "badlength"
    MaxSends,    \* bound on the frames each peer sends
    MaxScraps,   \* bound on the frames that a cut frame is taken for, but one
    Nobody       \* a descriptor that is closed

ASSUME ConnectionsAssumption ==
    /\ IsFiniteSet(Peers) /\ Limits \subseteq Nat
    /\ MaxThreads \in Nat /\ MaxSends \in [Peers -> Nat] /\ MaxScraps \in Nat
    /\ EnableAuth \in BOOLEAN
    /\ Pipelining \subseteq Peers
    /\ Credentials \cap {"request", "badlength", "scrap", "badscrap", "part"} = {}
    /\ Nobody \notin Peers

VARIABLES
    peer,      \* each client: [pc, sent, got, said, bad] (got: the answers it was
               \* sent, or of one that pipelines whether it was sent any; said: the
               \* credentials it sent; bad: it has sent an invalid length)
    inbox,     \* what was received and not read: see Items
    backlog,   \* connections the kernel has completed and nobody accepted
    edge,      \* epoll has an event of the listening socket to report
    table,     \* which connection a number denotes
    acc,       \* the accept goroutine: [pc, p, fd]
    thr,       \* the io-threads: [pc, fd, dup, from, err]
    clients,   \* connectedClients: ids of registered threads
    count,     \* numIOThreads
    active,    \* activeThreads, the wait group
    sessions,  \* SessionsStore: ids that have a session
    addr,      \* the address of each client: address and port
    srv,       \* "serving", or "stopped": the process is gone
    cancelled, \* the context: SIGINT, SIGTERM or SIGHUP has come
    stolen     \* history: connections one of whose numbers another closed

kernel == <<backlog, edge, inbox, addr>>
books == <<clients, count, active, sessions>>
vars == <<peer, inbox, backlog, edge, table, acc, thr, clients, count, active,
          sessions, addr, srv, cancelled, stolen>>

NoThread == [pc |-> "none", fd |-> 0, dup |-> 0, from |-> Nobody, err |-> FALSE]
NewThread(fd, dup) ==
    [pc |-> "register", fd |-> fd, dup |-> dup, from |-> Nobody, err |-> FALSE]
Polling == [pc |-> "poll", p |-> Nobody, fd |-> 0]

Init ==
    /\ peer = [p \in Peers |-> [pc |-> "new", sent |-> 0, got |-> 0, said |-> "nothing", bad |-> FALSE]]
    /\ inbox = [p \in Peers |-> <<>>]
    /\ backlog = <<>> /\ edge = FALSE
    /\ \E limit \in Limits : table = [n \in 1 .. limit |-> Nobody]
    /\ acc = Polling
    /\ thr = [p \in Peers |-> NoThread]
    /\ clients = {} /\ count = 0 /\ active = 0 /\ sessions = {}
    /\ addr \in Addresses
    /\ srv = "serving" /\ cancelled = FALSE
    /\ stolen = {}

Up == srv # "stopped"
Numbers == DOMAIN table
Free == {n \in Numbers : table[n] = Nobody}
Lowest(ns) == CHOOSE n \in ns : \A m \in ns : n <= m

(* GenerateUniqueClientID: the descriptor and the address.                 *)
ClientId(p, fd) == <<fd, addr[p]>>

(* The kernel still holds the connection of q, on the server's side.       *)
Held(q) ==
    \/ \E i \in DOMAIN backlog : backlog[i] = q
    \/ \E n \in Numbers : table[n] = q
Connected(q) == peer[q].pc = "open" \/ Held(q)

(* The goroutine of p closes numbers ns, whatever they denote.             *)
Closing(p, ns) ==
    /\ table' = [n \in Numbers |-> IF n \in ns THEN Nobody ELSE table[n]]
    /\ stolen' = stolen \cup ({table[n] : n \in ns} \ {p, Nobody})

-----------------------------------------------------------------------------
(* The clients and the kernel.                                             *)

(* Two clients may have the same address, one after the other: a client    *)
(* that reconnects from the same port.                                     *)
Connect(p) ==
    /\ Up /\ peer[p].pc = "new"
    /\ \A q \in Peers \ {p} : addr[q] = addr[p] => ~Connected(q)
    /\ peer' = [peer EXCEPT ![p].pc = "open"]
    /\ backlog' = Append(backlog, p)
    /\ edge' = TRUE
    /\ UNCHANGED <<inbox, table, acc, thr, books, srv, cancelled, stolen, addr>>

(* A client sends its credentials, then requests: the next one when the    *)
(* last is answered, unless it pipelines.  (Credentials whose length is    *)
(* not valid are refused like others that are wrong.  What is sent when    *)
(* the server has closed the connection is lost, and left out.)            *)
Send(p, frame) ==
    LET q == peer[p]
    IN /\ Up /\ q.pc = "open" /\ Held(p) /\ q.sent < MaxSends[p]
       /\ q.got >= q.sent \/ (p \in Pipelining /\ q.got > 0)
       /\ frame \in MaySend[p] /\ (frame \in Credentials <=> q.sent = 0)
       /\ peer' = [peer EXCEPT ![p].sent = @ + 1,
                               ![p].said = IF q.sent = 0 THEN frame ELSE @,
                               ![p].bad = @ \/ frame = "badlength"]
       /\ inbox' = [inbox EXCEPT ![p] = Append(@, frame)]
       /\ UNCHANGED <<backlog, edge, table, acc, thr, books, srv, cancelled, stolen, addr>>

Hangup(p) ==
    /\ Up /\ peer[p].pc = "open"
    /\ peer' = [peer EXCEPT ![p].pc = "closed"]
    /\ UNCHANGED <<kernel, table, acc, thr, books, srv, cancelled, stolen>>

Answer(s) == [peer EXCEPT ![s].got = IF s \in Pipelining THEN 1 ELSE @ + 1]

-----------------------------------------------------------------------------
(* AcceptNewConnection.                                                    *)

AcceptOne ==
    /\ Up /\ acc.pc = "poll" /\ ~cancelled
    /\ edge /\ Free # {}
    /\ edge' = FALSE
    /\ LET p == Head(backlog)
           fd == Lowest(Free)
       IN /\ table' = [table EXCEPT ![fd] = p]
          /\ acc' = [pc |-> "auth", p |-> p, fd |-> fd]
    /\ backlog' = Tail(backlog)
    /\ UNCHANGED <<peer, inbox, thr, books, srv, cancelled, stolen, addr>>

(* EMFILE: the event is used up, the connection is not.  (So is the event  *)
(* of an accept that EINTR ends; a non-blocking accept does not meet it.)  *)
AcceptFails ==
    /\ Up /\ acc.pc = "poll" /\ ~cancelled
    /\ edge /\ Free = {}
    /\ edge' = FALSE
    /\ UNCHANGED <<peer, inbox, backlog, table, acc, thr, books, srv, cancelled, stolen, addr>>

(* RequestAuth: no arguments, or a name and a password; Validate.  An auth *)
(* frame with one argument, or with three, is "odd".                       *)
RequestAuth(frame) == frame = IF EnableAuth THEN "right" ELSE "none"

Authenticate ==
    /\ Up /\ acc.pc = "auth" /\ inbox[acc.p] # <<>>
    /\ table[acc.fd] = acc.p
    /\ RequestAuth(Head(inbox[acc.p]))
    /\ inbox' = [inbox EXCEPT ![acc.p] = Tail(@)]
    /\ sessions' = sessions \cup {ClientId(acc.p, acc.fd)}
    /\ acc' = [acc EXCEPT !.pc = "setup"]
    /\ peer' = Answer(acc.p)
    /\ UNCHANGED <<backlog, edge, table, thr, clients, count, active, srv, cancelled, stolen, addr>>

(* Mutant: the error is returned, and ends the loop.                       *)
Reject_EndsLoop ==
    /\ Up /\ acc.pc = "auth"
    /\ \/ inbox[acc.p] # <<>> /\ ~RequestAuth(Head(inbox[acc.p]))
       \/ peer[acc.p].pc = "closed"
       \/ table[acc.fd] # acc.p
    /\ Closing(acc.p, {acc.fd})
    /\ inbox' = [inbox EXCEPT ![acc.p] = <<>>]
    /\ acc' = [Polling EXCEPT !.pc = "ended"]
    /\ UNCHANGED <<peer, backlog, edge, thr, books, srv, cancelled, addr>>

(* The credentials or their length are refused, the client hung up, or the *)
(* number has been closed under the read: an error is written and the      *)
(* socket closed.                                                          *)
Reject ==
    /\ Up /\ acc.pc = "auth"
    /\ \/ inbox[acc.p] # <<>> /\ ~RequestAuth(Head(inbox[acc.p]))
       \/ peer[acc.p].pc = "closed"
       \/ table[acc.fd] # acc.p
    /\ Closing(acc.p, {acc.fd})
    /\ inbox' = [inbox EXCEPT ![acc.p] = <<>>]
    /\ acc' = Polling
    /\ UNCHANGED <<peer, backlog, edge, thr, books, srv, cancelled, addr>>

(* The threads that are in connectedClients, or were under the same id.    *)
InMap == {"run", "serve", "leave"}
Registered(id) == {q \in Peers : thr[q].pc \in InMap /\ ClientId(q, thr[q].fd) = id}

(* SetNonblock, the epoll registration, GetThread, and NewIOThread, whose  *)
(* net.FileConn duplicates the descriptor.  Any failure closes it.  A      *)
(* thread that GetThread finds (NoThreadToReuse says when there is none)   *)
(* is run by two goroutines then, over one net.Conn.                       *)
Setup ==
    /\ Up /\ acc.pc = "setup"
    /\ LET p == acc.p
           known == ClientId(p, acc.fd) \in clients
           dups == IF known THEN {thr[q].dup : q \in Registered(ClientId(p, acc.fd))}
                   ELSE {n \in Free : n = Lowest(Free)}
       IN IF table[acc.fd] = p /\ dups # {}
          THEN \E dup \in dups :
               /\ table' = IF known THEN table ELSE [table EXCEPT ![dup] = p]
               /\ thr' = [thr EXCEPT ![p] = NewThread(acc.fd, dup)]
               /\ active' = active + 1
               /\ UNCHANGED stolen
          ELSE /\ Closing(p, {acc.fd})
               /\ thr' = [thr EXCEPT ![p].pc = "failed", ![p].fd = acc.fd]
               /\ UNCHANGED active
    /\ acc' = Polling
    /\ UNCHANGED <<peer, kernel, clients, count, sessions, srv, cancelled>>

AcceptEnds ==
    /\ Up /\ acc.pc = "poll" /\ cancelled
    /\ acc' = [acc EXCEPT !.pc = "ended"]
    /\ UNCHANGED <<peer, kernel, table, thr, books, srv, cancelled, stolen>>

-----------------------------------------------------------------------------
(* An io-thread.                                                           *)

Id(p) == ClientId(p, thr[p].fd)
At(p, where) == Up /\ thr[p].pc = where
GoTo(p, where) == thr' = [thr EXCEPT ![p].pc = where]

(* Mutant: the thread is counted before the limit is tested.               *)
RegisterThread_CountsFirst(p) ==
    /\ At(p, "register")
    /\ count' = count + 1
    /\ IF count >= MaxThreads
       THEN /\ GoTo(p, "refused")
            /\ Closing(p, {thr[p].fd})
            /\ active' = active - 1
            /\ UNCHANGED clients
       ELSE /\ GoTo(p, "run")
            /\ clients' = clients \cup {Id(p)}
            /\ UNCHANGED <<active, table, stolen>>
    /\ UNCHANGED <<peer, kernel, acc, sessions, srv, cancelled>>

(* IOThreadManager.Register, and what the goroutine does when it refuses.  *)
RegisterThread(p) ==
    /\ At(p, "register")
    /\ IF count >= MaxThreads
       THEN /\ GoTo(p, "refused")
            /\ Closing(p, {thr[p].fd})
            /\ active' = active - 1
            /\ UNCHANGED <<clients, count>>
       ELSE /\ GoTo(p, "run")
            /\ clients' = clients \cup {Id(p)}
            /\ count' = count + 1
            /\ UNCHANGED <<active, table, stolen>>
    /\ UNCHANGED <<peer, kernel, acc, sessions, srv, cancelled>>

(* The finalizers of a refused thread's os.File and net.Conn.              *)
Collect(p) ==
    /\ At(p, "refused")
    /\ Closing(p, {thr[p].fd, thr[p].dup})
    /\ GoTo(p, "collected")
    /\ UNCHANGED <<peer, kernel, acc, books, srv, cancelled>>

(* What a socket holds, as the next reader takes it: frames as they were   *)
(* sent, with a length that is valid or is not (0, or over 10 MB); and     *)
(* where a reader has left the middle of a frame, bytes that pass for a    *)
(* frame (scrap), for an invalid length (badscrap), or for the beginning   *)
(* of a frame that goes on in what comes next (part).                      *)
Frames == Credentials \cup {"request", "badlength"}
Items == Frames \cup {"scrap", "badscrap", "part"}
Invalid == {"badlength", "badscrap"}

Piece(n, last) == [i \in 1 .. n |-> "scrap"] \o <<last>>
Pieces == {Piece(n, last) : n \in 0 .. MaxScraps, last \in {"scrap", "badscrap", "part"}}

(* A reader has taken some bytes of q too many: whole frames, and the      *)
(* beginning of the next.  (Pieces are not cut again: what they would be   *)
(* cut into, the frame they come from may have been.)                      *)
From(q, n) == SubSeq(q, n + 1, Len(q))
Left(q) ==
    {From(q, n) : n \in 0 .. Len(q)}
        \cup UNION {{s \o From(q, n) : s \in Pieces} : n \in {m \in 1 .. Len(q) : q[m] \in Frames}}

(* Mutant: a frame that is not understood is skipped, not answered.        *)
ReadSync_Skips(p) ==
    LET s == table[thr[p].dup]
    IN /\ At(p, "run") /\ s # Nobody
       /\ inbox[s] # <<>> /\ Head(inbox[s]) \notin Invalid
       /\ inbox' = [inbox EXCEPT ![s] = Tail(@)]
       /\ thr' = [thr EXCEPT ![p].from = s]
       /\ UNCHANGED <<peer, backlog, edge, table, acc, books, srv, cancelled, stolen, addr>>

(* ReadSync makes a new buffered reader for each request: the bytes it     *)
(* took beyond the frame are lost with it.  A part ends somewhere in what  *)
(* follows it.                                                             *)
ReadSync(p) ==
    LET s == table[thr[p].dup]
        rest == Tail(inbox[s])
    IN /\ At(p, "run") /\ s # Nobody
       /\ inbox[s] # <<>> /\ Head(inbox[s]) \notin Invalid
       /\ \E left \in Left(rest) :
             /\ Head(inbox[s]) = "part" => left # rest
             /\ inbox' = [inbox EXCEPT ![s] = left]
       /\ thr' = [thr EXCEPT ![p].pc = "serve", ![p].from = s]
       /\ UNCHANGED <<peer, backlog, edge, table, acc, books, srv, cancelled, stolen, addr>>

(* Or it does not end there either, and the read goes on waiting.          *)
ReadOn(p) ==
    LET s == table[thr[p].dup]
    IN /\ At(p, "run") /\ s # Nobody
       /\ Len(inbox[s]) > 1 /\ Head(inbox[s]) = "part"
       /\ inbox' = [inbox EXCEPT ![s] = <<"part">>]
       /\ UNCHANGED <<peer, backlog, edge, table, acc, thr, books, srv, cancelled, stolen, addr>>

(* Mutant: no return after the answer that reports an error.               *)
OnTraffic_GoesOn(p) ==
    LET s == table[thr[p].dup]
    IN /\ At(p, "serve")
       /\ peer' = IF s = Nobody THEN peer ELSE [peer EXCEPT ![s].got = @ + 2]
       /\ GoTo(p, "run")
       /\ UNCHANGED <<kernel, table, acc, books, srv, cancelled, stolen>>

(* OnTraffic: execute, and write the answer to whatever the number denotes.*)
OnTraffic(p) ==
    LET s == table[thr[p].dup]
    IN /\ At(p, "serve")
       /\ peer' = IF s = Nobody THEN peer ELSE Answer(s)
       /\ GoTo(p, "run")
       /\ UNCHANGED <<kernel, table, acc, books, srv, cancelled, stolen>>

(* End of file, a reset (which discards what was received), an error on a  *)
(* number that is closed, or a length that is not valid: any error ends    *)
(* the thread, and none is answered.                                       *)
ReadEnds(p) ==
    LET s == table[thr[p].dup]
    IN /\ At(p, "run")
       /\ \/ s = Nobody /\ UNCHANGED inbox
          \/ /\ s # Nobody
             /\ \/ /\ peer[s].pc = "closed"
                   /\ inbox' = [inbox EXCEPT ![s] = <<>>]
                \/ /\ inbox[s] # <<>> /\ Head(inbox[s]) \in Invalid
                   /\ \E left \in Left(Tail(inbox[s])) : inbox' = [inbox EXCEPT ![s] = left]
       /\ GoTo(p, "leave")
       /\ UNCHANGED <<peer, backlog, edge, table, acc, books, srv, cancelled, stolen, addr>>

(* Mutant: the thread is not stopped.                                      *)
Unregister_StopsNothing(p) ==
    /\ At(p, "leave")
    /\ clients' = clients \ {Id(p)}
    /\ GoTo(p, "again")
    /\ UNCHANGED <<peer, kernel, table, acc, count, active, sessions, srv, cancelled, stolen>>

(* Unregister: LoadAndDelete, then Stop, which closes conn and file, then  *)
(* the count, unless Stop failed.                                          *)
Unregister(p) ==
    /\ At(p, "leave")
    /\ clients' = clients \ {Id(p)}
    /\ GoTo(p, IF Id(p) \in clients THEN "conn" ELSE "again")
    /\ UNCHANGED <<peer, kernel, table, acc, count, active, sessions, srv, cancelled, stolen>>

CloseConn(p) ==
    /\ At(p, "conn")
    /\ Closing(p, {thr[p].dup})
    /\ thr' = [thr EXCEPT ![p].pc = "file", ![p].err = table[thr[p].dup] = Nobody]
    /\ UNCHANGED <<peer, kernel, acc, books, srv, cancelled>>

CloseFile(p) ==
    /\ At(p, "file")
    /\ Closing(p, {thr[p].fd})
    /\ GoTo(p, "again")
    /\ count' = IF thr[p].err \/ table[thr[p].fd] = Nobody THEN count ELSE count - 1
    /\ UNCHANGED <<peer, kernel, acc, clients, active, sessions, srv, cancelled>>

(* startConnThread's own unix.Close of the number, which Stop has closed.  *)
(* The second IOConn.Close after it finds both closed and does nothing.    *)
CloseAgain(p) ==
    /\ At(p, "again")
    /\ Closing(p, {thr[p].fd})
    /\ GoTo(p, "finish")
    /\ UNCHANGED <<peer, kernel, acc, books, srv, cancelled>>

(* Mutant: OnDisconnect leaves the session.                                *)
Finish_KeepsSession(p) ==
    /\ At(p, "finish")
    /\ active' = active - 1
    /\ GoTo(p, "gone")
    /\ UNCHANGED <<peer, kernel, table, acc, clients, count, sessions, srv, cancelled, stolen>>

(* activeThreads.Done and OnDisconnect, which expires the session.         *)
Finish(p) ==
    /\ At(p, "finish")
    /\ active' = active - 1
    /\ sessions' = sessions \ {Id(p)}
    /\ GoTo(p, "gone")
    /\ UNCHANGED <<peer, kernel, table, acc, clients, count, srv, cancelled, stolen>>

-----------------------------------------------------------------------------
(* Shutdown: StartEventLoop waits for the accept goroutine, then a second  *)
(* at most for the io-threads, which nothing tells to stop.                *)

Signal ==
    /\ Up /\ ~cancelled
    /\ cancelled' = TRUE
    /\ UNCHANGED <<peer, kernel, table, acc, thr, books, srv, stolen>>

Exit ==
    /\ Up /\ acc.pc = "ended"
    /\ srv' = "stopped"
    /\ UNCHANGED <<peer, kernel, table, acc, thr, books, cancelled, stolen>>

Accepting == AcceptOne \/ AcceptFails \/ Authenticate \/ Reject \/ Setup \/ AcceptEnds
Reading(p) == ReadSync(p) \/ ReadOn(p) \/ OnTraffic(p) \/ ReadEnds(p)
Leaving(p) == RegisterThread(p) \/ Unregister(p) \/ CloseConn(p) \/ CloseFile(p)
                  \/ CloseAgain(p) \/ Finish(p)

Next ==
    \/ \E p \in Peers : Connect(p) \/ Hangup(p) \/ \E f \in Frames : Send(p, f)
    \/ Accepting
    \/ \E p \in Peers : Reading(p) \/ Leaving(p) \/ Collect(p)
    \/ Signal \/ Exit

Spec == Init /\ [][Next]_vars

(* The goroutines run.  A client need not send or hang up, a refused       *)
(* thread need not be collected, and a thread whose number was closed or   *)
(* given to another connection need not wake.                              *)
Owned(p) == table[thr[p].dup] = p
AuthReady == acc.pc = "auth" => inbox[acc.p] # <<>> \/ peer[acc.p].pc = "closed"
Fairness ==
    /\ WF_vars(Accepting /\ AuthReady)
    /\ \A p \in Peers : WF_vars((Reading(p) /\ Owned(p)) \/ Leaving(p))

FairSpec == Spec /\ Fairness

-----------------------------------------------------------------------------
(* Properties.                                                             *)

ThreadPc == {"none", "register", "run", "serve", "leave", "conn", "file",
             "again", "finish", "refused", "collected", "failed", "gone"}

PeerType == [pc : {"new", "open", "closed"}, sent : Nat, got : Nat,
             said : Frames \cup {"nothing"}, bad : BOOLEAN]
AcceptType == [pc : {"poll", "auth", "setup", "ended"}, p : Peers \cup {Nobody},
               fd : Numbers \cup {0}]
ThreadType == [pc : ThreadPc, fd : Numbers \cup {0}, dup : Numbers \cup {0},
               from : Peers \cup {Nobody}, err : BOOLEAN]
AllIds == {ClientId(p, n) : p \in Peers, n \in Numbers}

TypesOK ==
    /\ peer \in [Peers -> PeerType]
    /\ inbox \in [Peers -> Seq(Items)]
    /\ backlog \in Seq(Peers) /\ edge \in BOOLEAN
    /\ \E n \in Limits : table \in [1 .. n -> Peers \cup {Nobody}]
    /\ acc \in AcceptType /\ thr \in [Peers -> ThreadType]
    /\ addr \in Addresses
    /\ clients \subseteq AllIds /\ sessions \subseteq AllIds
    /\ srv \in {"serving", "stopped"}
    /\ cancelled \in BOOLEAN /\ stolen \subseteq Peers

(* Every variable has its type, and the counters count no more than there  *)
(* are clients.                                                            *)
TypeOK ==
    /\ TypesOK
    /\ \A p \in Peers : peer[p].sent <= MaxSends[p]
    /\ count \in 0 .. Cardinality(Peers) /\ active \in 0 .. Cardinality(Peers)

Turned(p) == thr[p].pc \in {"refused", "collected", "failed"}
Live(p) == ~Turned(p) /\ thr[p].pc \notin {"none", "gone"}

(* Sessions and connections belong together.  A thread executes requests   *)
(* only for a client whose credentials were accepted, and as long as it    *)
(* does the client has a session, unless an earlier connection had the     *)
(* same id and took the session with it.  Sessions outlive connections     *)
(* only where nobody disconnects: the thread could not be made, or was     *)
(* refused at the limit.                                                   *)
SessionsBelong ==
    /\ \A p \in Peers :
          /\ thr[p].pc # "none" => peer[p].said = IF EnableAuth THEN "right" ELSE "none"
          /\ thr[p].pc \in {"run", "serve"} =>
                Id(p) \in sessions \/ \E q \in Peers \ {p} : thr[q].pc = "gone" /\ Id(q) = Id(p)
    /\ \A s \in sessions :
          \/ acc.pc = "setup" /\ s = ClientId(acc.p, acc.fd)
          \/ \E p \in Peers : s = Id(p) /\ (Live(p) \/ Turned(p))

(* As long as no number was closed under its connection, GetThread finds   *)
(* no thread for a connection that has just been authenticated: none is    *)
(* shared (main.go: "Try to get a thread from the IO thread manager        *)
(* first").  After that it may find the thread of a client whose numbers   *)
(* were both closed and whose address was taken: it takes four clients.    *)
NoThreadToReuse ==
    stolen = {} /\ acc.pc = "setup" => ClientId(acc.p, acc.fd) \notin clients

(* As long as no number was closed under its connection, numIOThreads says *)
(* how many threads are registered or closing, and never more than the     *)
(* limit: closed connections do not use it up.                             *)
CountTellsThreads ==
    stolen = {} =>
        /\ count = Cardinality(clients)
                       + Cardinality({p \in Peers : thr[p].pc \in {"conn", "file"}})
        /\ count <= MaxThreads

(* The books of IOThreadManager are right: nothing is registered twice     *)
(* under one id, and what is counted is there, or on its way out.          *)
BooksAreRight == TypeOK /\ NoThreadToReuse /\ CountTellsThreads

(* As long as no number was closed under its connection, a number that a   *)
(* thread reads from is a number of its own connection, and a client that  *)
(* waits for each answer gets no more answers than it sent frames.  (One   *)
(* that pipelines may: a frame cut in its middle is read as others.)       *)
AnswersAreOwn ==
    stolen = {} =>
        \A p \in Peers :
            /\ p \notin Pipelining => peer[p].got <= peer[p].sent
            /\ thr[p].pc \in {"run", "serve"} => Owned(p)
            /\ thr[p].pc = "serve" => thr[p].from = p

(* startConnThread: "Close the socket only once at the end".  No goroutine *)
(* closes a number that denotes another's connection.                      *)
ClosesOwnSocket == stolen = {}

Stuck == acc.pc = "auth" /\ ~AuthReady

(* The connection at the head of the backlog when epoll has an event is    *)
(* accepted, unless the server is told to stop, the descriptors have run   *)
(* out, or a silent client blocks the loop.  (One behind it may not be: it *)
(* shares the event, and waits for the next client to connect.)            *)
HeadIsAccepted ==
    \/ \A p \in Peers :
          (edge /\ backlog # <<>> /\ Head(backlog) = p)
              ~> (cancelled \/ Free = {} \/ \A i \in DOMAIN backlog : backlog[i] # p)
    \/ <>[]Stuck

(* When a client hangs up its thread ends, its descriptors are closed and  *)
(* its session is gone, unless it was refused at the limit or its number   *)
(* was closed by another thread.                                           *)
HangupCleansUp ==
    \A p \in Peers :
        (Live(p) /\ peer[p].pc = "closed")
            ~> (srv = "stopped" \/ p \in stolen
                \/ Turned(p)
                \/ (thr[p].pc = "gone" /\ Id(p) \notin sessions
                        /\ \A n \in Numbers : table[n] # p))

(* A client that waits for each answer before it sends gets every answer,  *)
(* or the end of the connection if it hung up or sent a length that is not *)
(* valid; unless the server stops, or numbers were closed under            *)
(* connections.  One that pipelines may wait for ever: ReadSync drops what *)
(* it buffered.                                                            *)
Disconnected(p) ==
    /\ thr[p].pc = "gone" /\ \A n \in Numbers : table[n] # p
    /\ peer[p].pc = "closed" \/ peer[p].bad
AskedIsAnswered ==
    \A p \in Peers \ Pipelining :
        (thr[p].pc = "run" /\ peer[p].sent > peer[p].got)
            ~> (peer[p].got = peer[p].sent \/ Disconnected(p) \/ srv = "stopped" \/ stolen # {})
=============================================================================
