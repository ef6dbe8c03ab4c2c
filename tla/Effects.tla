------------------------------ MODULE Effects -------------------------------
(***************************************************************************)
(* What each command decides once it has looked its key up: commander/*.   *)
(* Each operator takes the object found, NoObj for none, and the arguments *)
(* behind the key, and gives the answer and what is to be done:            *)
(*   none      answer only                                                 *)
(*   set       Memory.Set with a fresh object, and log the same            *)
(*   delete    Memory.Delete, and log a deletion                           *)
(*   inplace   change the object that was looked up, and log that object   *)
(*   regress   set, then change the old object too, and log the old one    *)
(*   die       a panic nothing recovers from: the process ends             *)
(* Commands that take more than one look at the memory (EXISTS, TTL.EXPIRE,  *)
(* MAP.CSET, JSON.SETREF, references of JSON.GET) are steps in Commands.   *)
(***************************************************************************)
EXTENDS Values, FiniteSets

CONSTANT
    FloatMax     \* the largest finite number; what is beyond is infinite

Kinds == {"Default", "String", "Number", "List", "Map", "JSON"}
NoObj == [none |-> TRUE]
Error == [error |-> TRUE]

Answer(v) == [do |-> "none", out |-> v]
Fail == Answer(Error)
Set(v, k, out) == [do |-> "set", val |-> v, kind |-> k, out |-> out]
Delete(out) == [do |-> "delete", out |-> out]
InPlace(v, out) == [do |-> "inplace", val |-> v, out |-> out]
Die == [do |-> "die", out |-> Error]

(* What the commands check before they look at the memory: the number of   *)
(* arguments behind the key.                                               *)
Arity(op) ==
    CASE op \in {"GET", "LIST.GET", "MAP.GET", "MAP.DEL", "JSON.PGET", "NUM.INCR", "NUM.DECR"} -> 0 .. 1
      [] op \in {"DELETE", "TTL", "LIST.LEN", "STR.GET", "STR.LENGTH", "NUM.GET"} -> {0}
      [] op \in {"SET", "STR.SET", "NUM.SET", "JSON.SET", "JSON.MERGE", "LIST.FIND", "TTL.EXPIRE"} -> {1}
      [] op \in {"LIST.ISET", "MAP.SET", "MAP.CSET", "STR.RANGE", "JSON.ADD", "JSON.SETREF"} -> {2}
      [] op = "LIST.SET" -> Nat \ {0}
      [] OTHER -> Nat

-----------------------------------------------------------------------------
(* Values of any kind.                                                     *)

SetKey(a) == Set(a[1], "Default", Empty)

GetKey(o, a) ==
    IF o = NoObj THEN Answer(Empty)
    ELSE IF a = <<>> THEN Answer(o.val)
    ELSE IF ~IsMap(o.val) THEN Fail
    ELSE Answer(Found(At(o.val, a[1].path)))

-----------------------------------------------------------------------------
(* Strings.  STR.GET reads the object whether or not there is one.         *)

Bytes(s) == FoldLeft(LAMBDA n, c : n + (IF c = "wide" THEN 2 ELSE 1), 0, s)

StrSet(a) == Set(a[1], "String", Empty)

StrGet(o) ==
    IF o = NoObj THEN Die
    ELSE IF o.kind # "String" THEN Fail
    ELSE Answer(o.val)

StrAppend(o, a) ==
    IF o # NoObj /\ o.kind # "String" THEN Fail
    ELSE LET old == IF o = NoObj THEN <<>> ELSE o.val.text
         IN Set(Text(old \o FlattenSeq([i \in DOMAIN a |-> a[i].text])), "String", Empty)

StrLength(o) ==
    IF o = NoObj THEN Answer(Num(0))
    ELSE IF o.kind # "String" THEN Fail
    ELSE Answer(Num(Bytes(o.val.text)))

IsInt(v) == Is(v, "num") /\ v.num \in Ints

StrRange(o, a) ==
    IF ~IsInt(a[1]) \/ ~IsInt(a[2]) \/ o = NoObj THEN Fail
    ELSE IF o.kind # "String" THEN Fail
    ELSE LET r == GetRange(o.val.text, a[1].num, a[2].num)
         IN IF r = Beyond THEN Die ELSE Answer(r)

-----------------------------------------------------------------------------
(* Numbers.  An infinite result cannot be marshalled: what is stored is    *)
(* empty, and is no number any more.                                       *)

Float(n) == IF n \in -FloatMax .. FloatMax THEN Num(n) ELSE Inf

NumSet(a) == IF ~IsNumber(a[1]) THEN Fail ELSE Set(ObjectToByte(a[1]), "Number", Empty)

NumGet(o) ==
    IF o = NoObj THEN Die
    ELSE IF o.kind # "Number" THEN Fail
    ELSE Answer(o.val)

(* NUM.INCR with sign 1, NUM.DECR with -1; an absent key gets the amount   *)
(* itself in both.                                                         *)
NumAdd(o, a, sign) ==
    LET by == IF a = <<>> THEN Num(1) ELSE a[1]
        sum == IF o = NoObj \/ Is(by, "inf") THEN by ELSE Float(o.val.num + sign * by.num)
    IN IF ~IsNumber(by) THEN Fail
       ELSE IF o # NoObj /\ (~Is(o.val, "num") \/ o.kind # "Number") THEN Fail
       ELSE Set(ObjectToByte(sum), "Number", ObjectToByte(sum))

-----------------------------------------------------------------------------
(* Lists.  A list nobody put anything in is stored as null.                *)

Listed(s, old) == IF s = <<>> /\ ~Is(old, "arr") THEN Null ELSE Arr(s)
Parsed(a) == [i \in DOMAIN a |-> EnsureUnmarshal(a[i])]

ListPush(o, a) ==
    LET old == IF o = NoObj THEN Null ELSE o.val
        new == Elements(old) \o Parsed(a)
    IN IF ~IsList(old) THEN Fail ELSE Set(Listed(new, old), "List", Num(Len(new)))

ListSet(a) == Set(Arr(Parsed(a)), "List", Num(Len(a)))

(* Absent, a list of one can be begun at index 0; any kind of array will do. *)
ListISet(o, a) ==
    LET i == a[1].num + 1
        new == EnsureUnmarshal(a[2])
    IN IF ~IsIndex(a[1]) THEN Fail
       ELSE IF o = NoObj THEN IF i > 1 THEN Fail ELSE Set(Arr(<<new>>), "List", Empty)
       ELSE IF ~IsList(o.val) THEN Fail
       ELSE IF i > Len(Elements(o.val)) THEN Fail
       ELSE Set(Arr([o.val.arr EXCEPT ![i] = new]), "List", Empty)

(* What the reading list commands have in common.                          *)
OfList(o, absent, Read(_)) ==
    IF o = NoObj THEN Answer(absent)
    ELSE IF o.kind # "List" \/ ~IsList(o.val) THEN Fail
    ELSE Read(Elements(o.val))

ListGet(o, a) ==
    OfList(o, Empty, LAMBDA s :
        IF a = <<>> THEN Answer(o.val)
        ELSE IF ~IsIndex(a[1]) THEN Fail
        ELSE IF a[1].num >= Len(s) THEN Fail
        ELSE Answer(ObjectToByte(s[a[1].num + 1])))

ListLen(o) == OfList(o, Num(0), LAMBDA s : Answer(Num(Len(s))))

ListFind(o, a) ==
    OfList(o, Empty, LAMBDA s :
        IF s = <<>> THEN Answer(Empty) ELSE Answer(Listed(Filter(s, a[1]), Null)))

(* The last element goes, with the key when it is the only one.  A null at *)
(* the end is answered as empty and stays.                                 *)
ListPop(o) ==
    OfList(o, Empty, LAMBDA s :
        IF s = <<>> THEN Answer(Empty)
        ELSE IF Len(s) = 1 THEN Delete(ObjectToByte(s[1]))
        ELSE IF Is(Last(s), "null") THEN Answer(Empty)
        ELSE Set(Arr(Front(s)), "List", ObjectToByte(Last(s))))

ListGPop(o) ==
    IF o = NoObj THEN Fail
    ELSE OfList(o, Empty, LAMBDA s :
        IF s = <<>> THEN Answer(Empty)
        ELSE [do |-> "regress", val |-> Arr(Front(s)), kind |-> "List", out |-> ObjectToByte(Last(s))])

-----------------------------------------------------------------------------
(* Maps.  For a field that is "" the message is taken from an error that   *)
(* is nil.                                                                 *)

NoField(p) == p = <<"">>

MapGet(o, a) ==
    IF o = NoObj THEN Answer(Empty)
    ELSE IF a = <<>> THEN Answer(o.val)
    ELSE IF ~IsMap(o.val) THEN Fail
    ELSE IF NoField(a[1].path) THEN Die
    ELSE LET x == At(o.val, a[1].path) IN Answer(IF Is(x, "missing") THEN Empty ELSE x)

MapSet(o, a) ==
    IF NoField(a[1].path) THEN Die
    ELSE IF o # NoObj /\ (~IsMap(o.val) \/ o.kind # "Map") THEN Fail
    ELSE LET old == IF o = NoObj THEN Null ELSE o.val
         IN Set(AddNestedKey(old, a[1].path, EnsureUnmarshal(a[2])), "Map", Empty)

(* MAP.DEL without a field deletes the key, of whatever kind.  With one, a *)
(* map that has a single field is deleted whole, whichever field that is.  *)
(* Mutant: it never is.                                                    *)
MapDel_Empties(o, a) ==
    IF a = <<>> THEN Delete(Empty)
    ELSE IF NoField(a[1].path) THEN Die
    ELSE IF o = NoObj THEN Answer(Empty)
    ELSE IF ~IsMap(o.val) \/ o.kind # "Map" THEN Fail
    ELSE InPlace(Obj(Without(Fields(o.val), a[1].path[1])), Empty)

MapDel(o, a) ==
    IF a = <<>> THEN Delete(Empty)
    ELSE IF NoField(a[1].path) THEN Die
    ELSE IF o = NoObj THEN Answer(Empty)
    ELSE IF ~IsMap(o.val) \/ o.kind # "Map" THEN Fail
    ELSE IF Cardinality(DOMAIN Fields(o.val)) = 1 THEN Delete(Empty)
    ELSE InPlace(Obj(Without(Fields(o.val), a[1].path[1])), Empty)

-----------------------------------------------------------------------------
(* JSON documents.                                                         *)

JsonSet(a) == IF ~IsJson(a[1]) THEN Fail ELSE Set(a[1], "JSON", Empty)

(* What the commands that read a document by a path have in common.        *)
OfDocument(o, a, Read(_)) ==
    IF o = NoObj THEN Answer(Empty)
    ELSE IF o.kind # "JSON" THEN Fail
    ELSE IF a = <<>> THEN Answer(o.val)
    ELSE IF ~IsMap(o.val) THEN Fail
    ELSE Read(a[1].path)

JsonPGet(o, a) == OfDocument(o, a, LAMBDA p : Answer(Found(ReadNestedKey(o.val, p))))

(* The answer of a change is the document.                                 *)
SetDocument(v) == Set(v, "JSON", v)

JsonAdd(o, a) ==
    LET old == IF o = NoObj THEN Null ELSE o.val
        p == a[1].path
    IN IF (o # NoObj /\ o.kind # "JSON") \/ ~IsMap(old) \/ Blocked(old, p) THEN Fail
       ELSE SetDocument(AddNestedKey(old, p, EnsureUnmarshal(a[2])))

(* With no document yet, the value becomes it, object or not.              *)
JsonMerge(o, a) ==
    LET new == EnsureUnmarshal(a[1])
    IN IF o = NoObj THEN SetDocument(ObjectToByte(new))
       ELSE IF o.kind # "JSON" \/ ~IsMap(o.val) \/ ~Is(new, "obj") THEN Fail
       ELSE SetDocument(Obj(MergeObjects(Fields(o.val), new.obj)))

JsonRemove(o, a) ==
    IF o = NoObj THEN Answer(Empty)
    ELSE IF o.kind # "JSON" THEN Fail
    ELSE IF a = <<>> THEN Delete(Empty)
    ELSE IF ~IsMap(o.val) \/ Blocked(o.val, a[1].path) THEN Fail
    ELSE SetDocument(RemoveNestedKey(o.val, a[1].path))

-----------------------------------------------------------------------------
(* The dispatcher, for the commands with one look at the memory.           *)
Execute(op, o, a) ==
    CASE op = "SET" -> SetKey(a)                [] op = "GET" -> GetKey(o, a)
      [] op = "STR.SET" -> StrSet(a)            [] op = "STR.GET" -> StrGet(o)
      [] op = "STR.APPEND" -> StrAppend(o, a)   [] op = "STR.LENGTH" -> StrLength(o)
      [] op = "STR.RANGE" -> StrRange(o, a)     [] op = "NUM.SET" -> NumSet(a)
      [] op = "NUM.GET" -> NumGet(o)            [] op = "NUM.INCR" -> NumAdd(o, a, 1)
      [] op = "NUM.DECR" -> NumAdd(o, a, -1)    [] op = "LIST.PUSH" -> ListPush(o, a)
      [] op = "LIST.SET" -> ListSet(a)          [] op = "LIST.ISET" -> ListISet(o, a)
      [] op = "LIST.GET" -> ListGet(o, a)       [] op = "LIST.LEN" -> ListLen(o)
      [] op = "LIST.FIND" -> ListFind(o, a)     [] op = "LIST.POP" -> ListPop(o)
      [] op = "LIST.GPOP" -> ListGPop(o)        [] op = "MAP.GET" -> MapGet(o, a)
      [] op = "MAP.SET" -> MapSet(o, a)         [] op = "MAP.DEL" -> MapDel(o, a)
      [] op = "JSON.SET" -> JsonSet(a)          [] op = "JSON.GET" -> JsonPGet(o, a)
      [] op = "JSON.PGET" -> JsonPGet(o, a)     [] op = "JSON.ADD" -> JsonAdd(o, a)
      [] op = "JSON.MERGE" -> JsonMerge(o, a)   [] op = "JSON.REMOVE" -> JsonRemove(o, a)
      [] op = "TTL" -> Answer(IF o = NoObj THEN Num(-2) ELSE IF o.exp = 0 THEN Num(-1) ELSE Num(1))
=============================================================================
