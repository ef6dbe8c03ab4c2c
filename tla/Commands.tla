------------------------------ MODULE Commands ------------------------------
(***************************************************************************)
(* The commands over the memory and the log: commander/*.                  *)
(*                                                                         *)
(* A command looks its key up, decides (Effects), changes the memory, and  *)
(* puts an entry into the log: four steps with nothing held in between.    *)
(* Lookups give out pointers.  Some commands change the object they        *)
(* looked up in place, and some put that very object into the log, whose   *)
(* goroutine reads it when its turn comes; so objects have an identity,    *)
(* an index of heap, and an unreferenced one is used again.                *)
(*                                                                         *)
(* pc of a client:                                                         *)
(*   idle      between requests                                            *)
(*   found     has looked its key up, if the command does so               *)
(*   scan      in a loop over more keys: todo says which                   *)
(*   emptied   MAP.CSET has deleted the key and not yet set it             *)
(*   dated     TTL.EXPIRE has changed the deadline, not yet fetched it     *)
(*   logging   the entry is on its way into the log                        *)
(*                                                                         *)
(* Deadlines are absent (0) or far in the future (1): no clock runs here.  *)
(* Shards do not appear: what keys share a memory makes no difference to   *)
(* these steps, and one queue stands for the logs of all shards, which     *)
(* leaves the entries of a key in the order they have in its own log.      *)
(***************************************************************************)
EXTENDS Effects

CONSTANTS
    Clients,     \* connections
    Keys,        \* valid keys
    BadKey,      \* a key that IsValidKey refuses: empty, or over 200 bytes
    ObjIds,      \* 1 .. n: bound on the objects at a time
    QueueSize,   \* capacity of the log's channel
    CountBits,   \* width of the counter of EXISTS: 8 in the code
    MaxLen,      \* bound on the length of lists and texts
    Jobs         \* workloads: strict, may[c], the requests of client c, and lossy:
                 \* whether the log may refuse or drop entries

Readers == {"GET", "EXISTS", "TTL", "STR.GET", "STR.LENGTH", "STR.RANGE", "NUM.GET", "LIST.GET",
            "LIST.LEN", "LIST.FIND", "MAP.GET", "JSON.GET", "JSON.PGET"}
Writers == {"SET", "DELETE", "TTL.EXPIRE", "STR.SET", "STR.APPEND", "NUM.SET", "NUM.INCR", "NUM.DECR",
            "LIST.PUSH", "LIST.SET", "LIST.ISET", "LIST.POP", "LIST.GPOP", "MAP.SET", "MAP.CSET",
            "MAP.DEL", "JSON.SET", "JSON.SETREF", "JSON.ADD", "JSON.MERGE", "JSON.REMOVE"}

(* The program gets strings.  Here the ith argument behind the key is what *)
(* the command takes it for: a path, the references to set, a condition, a *)
(* key, plain text, and else any value.                                    *)
Takes(op, i, x) ==
    CASE op \in {"EXISTS", "LIST.FIND"} -> TRUE
      [] op = "JSON.SETREF" /\ i = 2 -> Is(x, "refs") =>
            IsFiniteSet(x.refs) /\ \A r \in x.refs : IsSequence(r.path) /\ r.path # <<>>
      [] op \in {"MAP.GET", "MAP.SET", "MAP.CSET", "MAP.DEL"} /\ i = 1 ->
            IsSequence(x.path) /\ Len(x.path) = 1
      [] op = "JSON.GET" \/ (op \in {"GET", "JSON.PGET", "JSON.ADD", "JSON.REMOVE"} /\ i = 1) ->
            IsSequence(x.path) /\ x.path # <<>>
      [] op \in {"STR.SET", "STR.APPEND"} -> IsValue(x) /\ Is(x, "text")
      [] OTHER -> IsDocument(x)

IsRequest(r) ==
    /\ r.op \in Readers \cup Writers
    /\ r.key \in Keys \cup {BadKey}
    /\ IsSequence(r.args)
    /\ \A i \in DOMAIN r.args : Takes(r.op, i, r.args[i])

ASSUME CommandsAssumption ==
    /\ BadKey \notin Keys
    /\ ObjIds \subseteq Nat \ {0}
    /\ QueueSize \in Nat \ {0}
    /\ CountBits \in Nat \ {0} /\ 2 ^ CountBits \in Nat \ {0}
    /\ FloatMax \in Nat
    /\ \A j \in Jobs :
          /\ j.strict \in BOOLEAN /\ j.lossy \in BOOLEAN
          /\ \A c \in Clients : \A r \in j.may[c] : IsRequest(r)

(* Every key is written by one client at most.                             *)
OneWriter ==
    \A j \in Jobs, c, d \in Clients : c # d =>
        \A r \in j.may[c], s \in j.may[d] : {r.op, s.op} \subseteq Writers => r.key # s.key

VARIABLES
    job,      \* the workload
    mem,      \* Memory.Mem: the object of each key, 0 for none
    heap,     \* the objects
    queue,    \* entries the log goroutine has not taken
    logged,   \* what the log's last entry for a key says
    missed,   \* history: the keys whose last entry never got into the log
    cl,       \* the clients
    dead      \* a panic has ended the process

vars == <<job, mem, heap, queue, logged, missed, cl, dead>>

IdleClient ==
    [pc |-> "idle", op |-> "none", key |-> BadKey, args |-> <<>>, ptr |-> 0,
     todo |-> <<>>, acc |-> Empty, out |-> Empty, entry |-> NoObj, ever |-> {}, always |-> {}]

Init ==
    /\ job \in Jobs
    /\ mem = [k \in Keys |-> 0]
    /\ heap = [i \in ObjIds |-> NoObj]
    /\ queue = <<>>
    /\ logged = [k \in Keys |-> NoObj]
    /\ missed = {}
    /\ cl = [c \in Clients |-> IdleClient]
    /\ dead = FALSE

Object(i) == IF i = 0 THEN NoObj ELSE heap[i]
Bound(m) == {k \in DOMAIN m : m[k] # 0}
Lookup(k) == IF k \in Keys THEN mem[k] ELSE 0

(* A client that leaves the log with the queue as it was has been refused. *)
Missed(c, q) ==
    IF cl[c].pc # "logging" THEN missed
    ELSE IF q = queue THEN missed \cup {cl[c].key} ELSE missed \ {cl[c].key}

(* One step of client c: new memory, heap and queue, and c's new state.    *)
(* What nothing points to any more is collected.  ever and always are      *)
(* history: the keys bound at some and at every moment since the request   *)
(* of a scanning client came in.                                           *)
Step(c, m, h, q, new) ==
    LET Watched(x) == IF x.op \in {"EXISTS", "JSON.SETREF"}
                      THEN [x EXCEPT !.ever = @ \cup Bound(m), !.always = @ \cap Bound(m)] ELSE x
        then == [d \in Clients |-> Watched(IF d = c THEN new ELSE cl[d])]
        live == {m[k] : k \in Keys} \cup {then[d].ptr : d \in Clients}
                    \cup {q[i].ptr : i \in DOMAIN q}
    IN /\ ~dead
       /\ mem' = m
       /\ heap' = [i \in ObjIds |-> IF i \in live THEN h[i] ELSE NoObj]
       /\ queue' = q
       /\ missed' = Missed(c, q)
       /\ cl' = then
       /\ UNCHANGED <<job, logged, dead>>

Think(c, new) == Step(c, mem, heap, queue, new)

(* A fresh object, while the bound leaves room for one.                    *)
Room == \E i \in ObjIds : heap[i] = NoObj
Fresh == CHOOSE i \in ObjIds : heap[i] = NoObj
NewObj(v, kind) == [val |-> v, kind |-> kind, exp |-> 0]

(* Log entries: a value of its own, a live object, or a deletion.          *)
ByValue(v, kind) == [ptr |-> 0, obj |-> NewObj(v, kind)]
ByPointer(i) == [ptr |-> i, obj |-> NoObj]
Deletion == [ptr |-> 0, obj |-> NoObj]

-----------------------------------------------------------------------------
(* A request comes in; its key is looked up.  The bound MaxLen is kept by  *)
(* not sending what would make a value longer.                             *)

Size(k) ==
    LET o == Object(mem[k]) IN
    IF o = NoObj THEN 0 ELSE IF Is(o.val, "arr") THEN Len(o.val.arr)
    ELSE IF Is(o.val, "text") THEN Len(o.val.text) ELSE 0

Fits(r) ==
    r.op \in {"LIST.PUSH", "STR.APPEND"} /\ r.key \in Keys => Size(r.key) + Len(r.args) <= MaxLen

Request(c, r) ==
    [IdleClient EXCEPT !.op = r.op, !.key = r.key, !.args = r.args, !.always = Keys]

(* EXISTS takes any key and any number of them.                            *)
Refused(r) == r.op # "EXISTS" /\ (r.key \notin Keys \/ Len(r.args) \notin Arity(r.op))

Blind == {"SET", "STR.SET", "NUM.SET", "JSON.SET", "LIST.SET", "MAP.CSET", "DELETE"}

Receive(c, r) ==
    /\ cl[c].pc = "idle"
    /\ Fits(r)
    /\ IF Refused(r) THEN Think(c, IdleClient)
       ELSE Think(c, [Request(c, r) EXCEPT
                !.pc = IF r.op = "EXISTS" THEN "scan" ELSE "found",
                !.todo = IF r.op = "EXISTS" THEN <<r.key>> \o r.args ELSE <<>>,
                !.acc = Num(0),
                !.ptr = IF r.op \in Blind \cup {"EXISTS", "TTL.EXPIRE", "JSON.SETREF"}
                        THEN 0 ELSE Lookup(r.key)])

Invoke(c) == \E r \in job.may[c] : Receive(c, r)

-----------------------------------------------------------------------------
(* Deciding, and changing the memory.                                      *)

Scanning(x) == x.op \in {"EXISTS", "JSON.SETREF"} \/ (x.op = "JSON.GET" /\ Len(x.args) > 1)
Plain(c) == cl[c].pc = "found" /\ ~Scanning(cl[c]) /\ cl[c].op \notin {"MAP.CSET", "TTL.EXPIRE", "DELETE"}
Effect(c) == Execute(cl[c].op, Object(cl[c].ptr), cl[c].args)

Reply(c, e) == e.do = "none" /\ Think(c, IdleClient)

(* On its way to the log: the entry, and the answer to be given then.      *)
Logging(c, entry, out) ==
    [cl[c] EXCEPT !.pc = "logging", !.entry = entry, !.ptr = entry.ptr, !.out = out]

Bind(c, v, kind, out) ==
    /\ Room
    /\ Step(c, [mem EXCEPT ![cl[c].key] = Fresh], [heap EXCEPT ![Fresh] = NewObj(v, kind)],
            queue, Logging(c, ByValue(v, kind), out))

ChangeSet(c, e) == e.do = "set" /\ Bind(c, e.val, e.kind, e.out)

ChangeDelete(c, e) ==
    /\ e.do = "delete"
    /\ Step(c, [mem EXCEPT ![cl[c].key] = 0], heap, queue, Logging(c, Deletion, e.out))

(* MAP.DEL changes the object it has looked up, whoever else has it.       *)
ChangeInPlace(c, e) ==
    LET i == cl[c].ptr IN
    /\ e.do = "inplace"
    /\ Step(c, mem, [heap EXCEPT ![i].val = e.val], queue, Logging(c, ByPointer(i), e.out))

(* LIST.GPOP binds a new object without a deadline, gives the old one the  *)
(* new value, and logs the old one with the deadline it has.               *)
ChangeRegress(c, e) ==
    LET i == cl[c].ptr IN
    /\ e.do = "regress" /\ Room
    /\ Step(c, [mem EXCEPT ![cl[c].key] = Fresh],
            [heap EXCEPT ![Fresh] = NewObj(e.val, e.kind), ![i].val = e.val],
            queue, Logging(c, ByPointer(i), e.out))

End ==
    /\ ~dead
    /\ dead' = TRUE
    /\ UNCHANGED <<job, mem, heap, queue, logged, missed, cl>>

Panic(e) == e.do = "die" /\ End

Decide(c) ==
    /\ Plain(c)
    /\ LET e == Effect(c) IN
       \/ Reply(c, e) \/ ChangeSet(c, e) \/ ChangeDelete(c, e)
       \/ ChangeInPlace(c, e) \/ ChangeRegress(c, e) \/ Panic(e)

(* DELETE logs only when there was something to delete.                    *)
DeleteKey(c) ==
    /\ cl[c].pc = "found" /\ cl[c].op = "DELETE"
    /\ Step(c, [mem EXCEPT ![cl[c].key] = 0], heap, queue,
            IF mem[cl[c].key] = 0 THEN IdleClient ELSE Logging(c, Deletion, Empty))

(* MAP.CSET: the key is gone between its two steps.                        *)
CSetClear(c) ==
    /\ cl[c].pc = "found" /\ cl[c].op = "MAP.CSET"
    /\ IF NoField(cl[c].args[1].path) THEN End
       ELSE Step(c, [mem EXCEPT ![cl[c].key] = 0], heap, queue, [cl[c] EXCEPT !.pc = "emptied"])

CSetFill(c) ==
    LET v == AddNestedKey(Null, cl[c].args[1].path, EnsureUnmarshal(cl[c].args[2])) IN
    /\ cl[c].pc = "emptied"
    /\ Bind(c, v, "Map", Empty)

(* TTL.EXPIRE: the deadline is changed under the lock; then the key is     *)
(* looked up again, and the object that has it by then goes to the log.    *)
ExpireDate(c) ==
    LET i == mem[cl[c].key]
        d == IF cl[c].args[1].num > 0 THEN 1 ELSE 0
    IN /\ cl[c].pc = "found" /\ cl[c].op = "TTL.EXPIRE"
       /\ IF ~Is(cl[c].args[1], "num") \/ i = 0 THEN Think(c, IdleClient)
          ELSE Step(c, mem, [heap EXCEPT ![i].exp = d], queue, [cl[c] EXCEPT !.pc = "dated"])
           
ExpireFetch(c) ==
    /\ cl[c].pc = "dated"
    /\ IF mem[cl[c].key] = 0 THEN Think(c, IdleClient)
       ELSE Think(c, Logging(c, ByPointer(mem[cl[c].key]), Num(1)))

-----------------------------------------------------------------------------
(* Loops over several keys, one lookup a step.                             *)

(* EXISTS counts in a signed integer of CountBits bits.                    *)
Wrap(n) == LET w == 2 ^ CountBits IN ((n + w \div 2) % w) - w \div 2

(* Mutant: an absent key starts the count anew.                            *)
ExistsStep_Resets(c) ==
    LET x == cl[c] IN
    /\ x.pc = "scan" /\ x.op = "EXISTS" /\ x.todo # <<>>
    /\ Think(c, [x EXCEPT !.todo = Tail(@),
                          !.acc = Num(IF Lookup(Head(x.todo)) = 0 THEN 0 ELSE Wrap(@.num + 1))])

ExistsStep(c) ==
    LET x == cl[c] IN
    /\ x.pc = "scan" /\ x.op = "EXISTS" /\ x.todo # <<>>
    /\ Think(c, [x EXCEPT !.todo = Tail(@),
                          !.acc = Num(Wrap(@.num + (IF Lookup(Head(x.todo)) = 0 THEN 0 ELSE 1)))])

ScanEnd(c) ==
    /\ cl[c].pc = "scan" /\ cl[c].op # "JSON.SETREF" /\ cl[c].todo = <<>>
    /\ Think(c, IdleClient)

(* JSON.SETREF document {path: key, ...}, in an order of Go's choosing.    *)
RefsStart(c) ==
    LET x == cl[c] IN
    /\ x.pc = "found" /\ x.op = "JSON.SETREF"
    /\ IF ~IsMap(x.args[1]) \/ ~Is(x.args[2], "refs") THEN Think(c, IdleClient)
       ELSE \E todo \in SetToSeqs(x.args[2].refs) :
                Think(c, [x EXCEPT !.pc = "scan", !.todo = todo, !.acc = x.args[1]])

(* A reference that has no place in the document is left out, and so are   *)
(* all of them when the document is null.                                  *)
RefsStep(c) ==
    LET x == cl[c]
        r == Head(x.todo)
    IN /\ x.pc = "scan" /\ x.op = "JSON.SETREF" /\ x.todo # <<>>
       /\ IF job.strict /\ Lookup(r.key) = 0 THEN Think(c, IdleClient)
          ELSE Think(c, [x EXCEPT !.todo = Tail(@),
                    !.acc = IF Is(@, "null") \/ Blocked(@, r.path) THEN @
                            ELSE AddNestedKey(@, r.path, Ref(r.key))])

RefsStore(c) ==
    /\ cl[c].pc = "scan" /\ cl[c].op = "JSON.SETREF" /\ cl[c].todo = <<>>
    /\ Bind(c, cl[c].acc, "JSON", Empty)

(* JSON.GET path ref ...: each reference found at a path is read, and put  *)
(* beside it under "_"; the first that cannot be ends the reading, and its *)
(* error is dropped.                                                       *)
Underscored(f) == "_" \o f

GetRefsStart(c) ==
    LET x == cl[c]
        o == Object(x.ptr)
    IN /\ x.pc = "found" /\ x.op = "JSON.GET" /\ Len(x.args) > 1
       /\ IF o = NoObj THEN Think(c, IdleClient)
          ELSE IF o.kind # "JSON" \/ ~IsMap(o.val) THEN Think(c, IdleClient)
          ELSE Think(c, [x EXCEPT !.pc = "scan", !.ptr = 0, !.acc = o.val, !.todo = Tail(x.args)])

Resolved(v, p) ==
    LET target == At(v, p)
        o == IF Is(target, "ref") THEN Object(Lookup(target.ref)) ELSE NoObj
    IN IF Is(target, "missing") THEN Missing
       ELSE IF ~Is(target, "ref") THEN v
       ELSE IF o = NoObj THEN Missing
       ELSE IF ~IsMap(o.val) THEN Missing
       ELSE AddNestedKey(v, Front(p) \o <<Underscored(Last(p))>>, o.val)

GetRefsStep(c) ==
    LET x == cl[c]
        v == Resolved(x.acc, Head(x.todo).path)
    IN /\ x.pc = "scan" /\ x.op = "JSON.GET" /\ x.todo # <<>>
       /\ Think(c, IF Is(v, "missing") THEN [x EXCEPT !.todo = <<>>]
                   ELSE [x EXCEPT !.todo = Tail(@), !.acc = v])

-----------------------------------------------------------------------------
(* The log: a channel, and the goroutine that marshals what comes out.     *)

Queued(k, entry) == [key |-> k, ptr |-> entry.ptr, obj |-> entry.obj]

LogPut(c) ==
    /\ cl[c].pc = "logging"
    /\ Len(queue) < QueueSize
    /\ Step(c, mem, heap, Append(queue, Queued(cl[c].key, cl[c].entry)), IdleClient)

(* The channel stays full until enqueue gives up, or the log is closed:    *)
(* the commands drop the error, and answer as if nothing had happened.     *)
LogRefused(c) ==
    /\ job.lossy /\ cl[c].pc = "logging"
    /\ Len(queue) = QueueSize
    /\ Think(c, IdleClient)

(* Mutant: the deadline is left out.                                       *)
Marshalled_NoDeadline(e) == IF e.ptr = 0 THEN e.obj ELSE [heap[e.ptr] EXCEPT !.exp = 0]

Marshalled(e) == IF e.ptr = 0 THEN e.obj ELSE heap[e.ptr]

LogTake ==
    LET e == Head(queue) IN
    /\ ~dead /\ queue # <<>>
    /\ logged' = [logged EXCEPT ![e.key] = Marshalled(e)]
    /\ queue' = Tail(queue)
    /\ UNCHANGED <<job, mem, heap, missed, cl, dead>>

(* obj.Value is assigned while the log goroutine reads it: a race, and     *)
(* what it reads may be neither the old bytes nor the new.                 *)
Torn == Text(<<"torn">>)
Assigns(c, i) == Plain(c) /\ Effect(c).do \in {"inplace", "regress"} /\ i = cl[c].ptr

LogTakeTorn(c) ==
    LET e == Head(queue) IN
    /\ ~dead /\ queue # <<>> /\ e.ptr # 0
    /\ Assigns(c, e.ptr)
    /\ logged' = [logged EXCEPT ![e.key] = [heap[e.ptr] EXCEPT !.val = Torn]]
    /\ queue' = Tail(queue)
    /\ UNCHANGED <<job, mem, heap, missed, cl, dead>>

(* Or the object outgrows or undercuts, by a change of its value or its    *)
(* deadline, the size the marshalling began with.  That is an error: the   *)
(* entry is dropped.                                                       *)
LogDrop(c) ==
    LET e == Head(queue) IN
    /\ job.lossy /\ ~dead /\ queue # <<>> /\ e.ptr # 0
    /\ \/ Assigns(c, e.ptr)
       \/ cl[c].pc = "found" /\ cl[c].op = "TTL.EXPIRE" /\ e.ptr = mem[cl[c].key]
    /\ missed' = IF \E i \in 2 .. Len(queue) : queue[i].key = e.key THEN missed
                 ELSE missed \cup {e.key}
    /\ queue' = Tail(queue)
    /\ UNCHANGED <<job, mem, heap, logged, cl, dead>>

-----------------------------------------------------------------------------
Move(c) ==
    \/ Decide(c) \/ DeleteKey(c) \/ CSetClear(c) \/ CSetFill(c) \/ ExpireDate(c) \/ ExpireFetch(c)
    \/ ExistsStep(c) \/ ScanEnd(c) \/ RefsStart(c) \/ RefsStep(c) \/ RefsStore(c)
    \/ GetRefsStart(c) \/ GetRefsStep(c) \/ LogPut(c) \/ LogRefused(c)

Next ==
    \/ \E c \in Clients : Invoke(c) \/ Move(c) \/ LogTakeTorn(c) \/ LogDrop(c)
    \/ LogTake

Spec == Init /\ [][Next]_vars

-----------------------------------------------------------------------------
(* Properties.                                                             *)

(* Every variable has its type, every key leads to an object in the heap,  *)
(* and the log queue keeps its capacity.                                   *)
TypeOK ==
    /\ job \in Jobs
    /\ mem \in [Keys -> ObjIds \cup {0}]
    /\ \A k \in Keys : mem[k] # 0 => heap[mem[k]] # NoObj
    /\ \A i \in ObjIds : heap[i] = NoObj \/ (heap[i].kind \in Kinds /\ heap[i].exp \in {0, 1})
    /\ Len(queue) <= QueueSize
    /\ \A i \in DOMAIN queue : queue[i].key \in Keys /\ (queue[i].ptr = 0 \/ heap[queue[i].ptr] # NoObj)
    /\ DOMAIN logged = Keys
    /\ \A c \in Clients : cl[c].pc \in {"idle", "found", "scan", "emptied", "dated", "logging"}
    /\ dead \in BOOLEAN

(* What the commands of its kind can read.                                 *)
Shaped(v, kind) ==
    /\ kind = "List" => IsList(v)
    /\ kind = "Map" => Is(v, "obj") /\ DOMAIN v.obj # {}
    /\ kind = "Number" => Is(v, "num") \/ v = Empty
    /\ kind = "String" => Is(v, "text")
    /\ kind = "JSON" => IsJson(v) \/ v = Empty

(* The state is well formed, and no sequence of commands, whatever kinds   *)
(* they find, leaves a key whose value is not of the shape its kind is     *)
(* read as: a list command can always read a List, a map that is there has *)
(* a field, and so on.  The empty bytes stand for what could not be        *)
(* marshalled.                                                             *)
KindsHoldTheirShape ==
    /\ TypeOK
    /\ \A k \in Keys : mem[k] # 0 => LET o == heap[mem[k]] IN Shaped(o.val, o.kind)

(* What the log will say of a key once its goroutine has taken the queue.  *)
Replayed(k) ==
    LET mine == {i \in DOMAIN queue : queue[i].key = k}
    IN IF mine = {} THEN logged[k]
       ELSE Marshalled(queue[CHOOSE i \in mine : \A j \in mine : j <= i])

Writing(c, k) ==
    /\ cl[c].key = k
    /\ \/ cl[c].pc \in {"emptied", "dated", "logging"}
       \/ Plain(c) /\ Effect(c).do \in {"inplace", "regress"}

(* With one writer per key, the log says of a key nobody is changing what  *)
(* the memory says, though entries are pointers to objects that go on      *)
(* changing, and though one may have been read torn; but for keys whose    *)
(* last entry was refused or dropped, until the log takes the next one.    *)
(* The value and its kind are the same, and so is the deadline, unless the *)
(* key is a list whose deadline LIST.GPOP has taken away in the memory and *)
(* left in the log.                                                        *)
LogKeepsUp ==
    \A k \in Keys \ missed : (\A c \in Clients : ~Writing(c, k)) =>
        LET o == Object(mem[k])
            l == Replayed(k)
        IN \/ o = l
           \/ o # NoObj /\ o.kind = "List" /\ o.exp = 0 /\ l = [o EXCEPT !.exp = 1]

Finishes(c, ops) == cl[c].pc = "found" /\ cl[c].op \in ops /\ cl'[c].pc = "logging"
Before(c) == LET o == Object(mem[cl[c].key]) IN IF o = NoObj THEN Missing ELSE o.val
After(c) == IF mem'[cl[c].key] = 0 THEN Missing ELSE heap'[mem'[cl[c].key]].val

(* Paths of up to two fields of those the requests name.                   *)
Names(v) == IF Is(v, "obj") THEN DOMAIN v.obj \cup UNION {DOMAIN Fields(v.obj[f]) : f \in DOMAIN v.obj} ELSE {}
Paths(u, v, w) == LET N == Names(u) \cup Names(v) \cup Names(w)
                  IN {<<>>} \cup {<<f>> : f \in N} \cup {<<f, g>> : f, g \in N}
Beneath(p, q) == SubSeq(q, Len(p) + 1, Len(q))

PutAt(old, new, p, x) ==
    \A q \in Paths(old, new, x) :
        IF IsPrefix(p, q) THEN At(new, q) = At(x, Beneath(p, q))
        ELSE IF IsPrefix(q, p) THEN Is(At(new, q), "obj")
        ELSE At(new, q) = At(old, q)

TakenAt(old, new, p) ==
    \A q \in Paths(old, new, old) :
        IF IsPrefix(p, q) THEN At(new, q) = Missing
        ELSE IF IsPrefix(q, p) /\ Is(At(old, q), "obj") THEN Is(At(new, q), "obj")
        ELSE At(new, q) = At(old, q)

MergedFrom(old, new, x) ==
    \A q \in Paths(old, new, x) :
        LET n == At(x, q) IN
        CASE Is(n, "obj") -> Is(At(new, q), "obj")
          [] ~Is(n, "obj") /\ n # Missing -> At(new, q) = n
          [] n = Missing /\ Blocked(x, q) -> At(new, q) = Missing
          [] OTHER -> At(new, q) = At(old, q)

(* A change of a document, or of a map by MAP.SET, at a path of one or two *)
(* fields changes what is at that path and nothing else: what the memory   *)
(* held just before is there afterwards, but for the path.  Not so MAP.DEL *)
(* of a field, which deletes a map of one field whatever field it names.   *)
DocumentsChangeAtPath ==
    [][\A c \in Clients :
        LET a == cl[c].args IN
        /\ Finishes(c, {"JSON.ADD", "MAP.SET"}) =>
              PutAt(Before(c), After(c), a[1].path, EnsureUnmarshal(a[2]))
        /\ Finishes(c, {"JSON.REMOVE"}) /\ a # <<>> =>
              TakenAt(Before(c), After(c), a[1].path)
        /\ Finishes(c, {"JSON.MERGE"}) /\ ~Is(Before(c), "missing") =>
              MergedFrom(Before(c), After(c), a[1])]_vars

(* Commands that look at several keys, one by one, answer what was true at *)
(* some time while they did, whatever the other clients do in between.     *)
(* EXISTS counts, within the width of its counter, at least the keys that  *)
(* were there all the time and at most those that were there at some time; *)
(* and in strict mode, a document is stored with references only to keys   *)
(* that each were there at some time.                                      *)
ScansAreHonest ==
    \A c \in Clients :
        /\ cl[c].pc = "scan" /\ cl[c].op = "EXISTS" /\ cl[c].todo = <<>> =>
              LET asked == <<cl[c].key>> \o cl[c].args
                  Among(S) == Cardinality({i \in DOMAIN asked : asked[i] \in S})
              IN \E n \in Among(cl[c].always) .. Among(cl[c].ever) :
                    (n - cl[c].acc.num) % 2 ^ CountBits = 0
        /\ job.strict /\ cl[c].pc = "logging" /\ cl[c].op = "JSON.SETREF" =>
              \A r \in cl[c].args[2].refs : r.key \in cl[c].ever

(* The process dies of a command only where the code forgets a case: a GET *)
(* of an absent number or string (which STR.GET is documented to answer),  *)
(* an empty field of a map, a range that ends left of the string or so far *)
(* right that its end overflows.                                           *)
PanicsAreKnown ==
    dead => \E c \in Clients :
        LET x == cl[c] IN
        \/ x.op \in {"STR.GET", "NUM.GET"} /\ x.ptr = 0
        \/ x.op \in {"MAP.GET", "MAP.SET", "MAP.CSET", "MAP.DEL"} /\ x.args # <<>> /\ NoField(x.args[1].path)
        \/ /\ x.op = "STR.RANGE" /\ x.ptr # 0
           /\ LET length == Len(Object(x.ptr).val.text)
                  start == x.args[1].num
                  end == x.args[2].num
              IN /\ end >= 0
                 /\ IF start < 0 THEN length + start + end \notin 0 .. IntMax
                    ELSE start + end > IntMax
=============================================================================
