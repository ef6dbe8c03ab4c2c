------------------------------- MODULE Values -------------------------------
(***************************************************************************)
(* What the commands store and compute with: JSON documents, other bytes,  *)
(* paths into documents, merging, and the conditions of LIST.FIND.         *)
(*                                                                         *)
(* A value is a record with one field that tells its kind:                 *)
(*   num   a number                null  JSON null                         *)
(*   str   a JSON string           obj   a JSON object: field -> value     *)
(*   ref   the string "$ref:key"   arr   a JSON array                      *)
(*   text  bytes that are not JSON, character by character; no characters  *)
(*         at all are the empty bytes                                      *)
(*   inf   the text of an infinity or NaN: a number to strconv.ParseFloat, *)
(*         but not JSON                                                    *)
(* A path is the sequence of its fields; "" is the path of one field "".   *)
(***************************************************************************)
EXTENDS Integers, Sequences, SequencesExt

CONSTANTS
    Nesting,     \* how deep the documents encoding/json reads nest: 10000 in Go
    IntMax       \* the largest int: 2^63 - 1 in Go on the usual machines

ASSUME NestingAssumption == Nesting \in Nat /\ Nesting >= 2
ASSUME IntAssumption == IntMax \in Nat

Is(v, tag) == tag \in DOMAIN v

Num(n) == [num |-> n]
Text(s) == [text |-> s]
Str(s) == [str |-> s]
Ref(k) == [ref |-> k]
Arr(s) == [arr |-> s]
Obj(f) == [obj |-> f]
Path(p) == [path |-> p]
Null == [null |-> TRUE]
Inf == [inf |-> TRUE]
Missing == [missing |-> TRUE]
Empty == Text(<<>>)

IsSequence(s) == s \in Seq(Range(s))

(* A value has one kind.                                                   *)
IsValue(v) ==
    \/ v \in [num : Int] \cup [null : {TRUE}] \cup [inf : {TRUE}]
    \/ DOMAIN v = {"ref"} \/ DOMAIN v = {"obj"} \/ DOMAIN v = {"str"}
    \/ v = [text |-> v.text] /\ IsSequence(v.text)
    \/ DOMAIN v = {"arr"} /\ IsSequence(v.arr)

(* A document holds values under strings, and so do the objects in it.     *)
Holds(v) == Is(v, "obj") => \A f \in DOMAIN v.obj : f \in STRING /\ IsValue(v.obj[f])
IsDocument(v) == IsValue(v) /\ Holds(v) /\ (Is(v, "obj") => \A f \in DOMAIN v.obj : Holds(v.obj[f]))

With(f, x, v) == [g \in DOMAIN f \cup {x} |-> IF g = x THEN v ELSE f[g]]
Without(f, x) == [g \in DOMAIN f \ {x} |-> f[g]]

-----------------------------------------------------------------------------
(* Conversions.                                                            *)

IsJson(v) == ~Is(v, "text") /\ ~Is(v, "inf")

(* json.Unmarshal into a map, and into a slice; null is fine for both.     *)
IsMap(v) == Is(v, "obj") \/ Is(v, "null")
IsList(v) == Is(v, "arr") \/ Is(v, "null")
Fields(v) == IF Is(v, "obj") THEN v.obj ELSE <<>>
Elements(v) == IF Is(v, "arr") THEN v.arr ELSE <<>>

(* Whatever is not JSON becomes a JSON string.                             *)
EnsureUnmarshal(v) ==
    CASE Is(v, "text") -> Str(v.text)
      [] Is(v, "inf") -> Str(<<"Inf">>)
      [] OTHER -> v

(* nil becomes the empty bytes, and so does what json.Marshal refuses.     *)
ObjectToByte(v) == IF Is(v, "null") \/ Is(v, "inf") THEN Empty ELSE v

IsNumber(v) == Is(v, "num") \/ Is(v, "inf")
IsIndex(v) == Is(v, "num") /\ v.num >= 0

-----------------------------------------------------------------------------
(* Paths.                                                                  *)

Child(node, f) ==
    IF Is(node, "obj") /\ f \in DOMAIN node.obj THEN node.obj[f] ELSE Missing

At(v, p) == FoldLeft(Child, v, p)

(* Something that is not an object stands on the way.                      *)
Blocked(v, p) ==
    \E i \in 1 .. Len(p) - 1 :
        LET node == At(v, SubSeq(p, 1, i)) IN ~Is(node, "obj") /\ ~Is(node, "missing")

Rebuilt(v, p, Change(_)) ==
    LET fields(i) == Fields(At(v, SubSeq(p, 1, i - 1)))
        node[i \in 1 .. Len(p)] ==
            IF i = Len(p) THEN Obj(Change(fields(i)))
                          ELSE Obj(With(fields(i), p[i], node[i + 1]))
    IN node[1]

(* addNestedKey: objects are made on the way.  Mutant: the object at the   *)
(* path's parent starts anew.                                              *)
AddNestedKey_Overwrites(v, p, x) == Rebuilt(v, p, LAMBDA f : With(<<>>, Last(p), x))

AddNestedKey(v, p, x) == Rebuilt(v, p, LAMBDA f : With(f, Last(p), x))

RemoveNestedKey(v, p) ==
    IF At(v, p) = Missing THEN v
    ELSE Rebuilt(v, p, LAMBDA f : Without(f, Last(p)))

(* readNestedKey of the JSON commands: "" is the whole document.           *)
ReadNestedKey(v, p) == IF p = <<"">> THEN v ELSE At(v, p)

(* What a failed lookup answers, its error being dropped.                  *)
Found(v) == IF Is(v, "missing") THEN Empty ELSE ObjectToByte(v)

(* The paths to the objects of a document.                                 *)
DocumentPaths == {p \in Seq(STRING) : Len(p) < Nesting}

(* merged[p]: what the objects at path p of both merge to.                 *)
MergeObjects(old, new) ==
    LET merged[p \in DocumentPaths] ==
            LET was == Fields(At(Obj(old), p))
                now == Fields(At(Obj(new), p))
            IN [f \in DOMAIN was \cup DOMAIN now |->
                   IF f \notin DOMAIN now THEN was[f]
                   ELSE IF /\ f \in DOMAIN was /\ Is(was[f], "obj") /\ Is(now[f], "obj")
                           /\ Append(p, f) \in DocumentPaths
                   THEN Obj(merged[Append(p, f)])
                   ELSE now[f]]
    IN merged[<<>>]

-----------------------------------------------------------------------------
(* Conditions of LIST.FIND, $field op value and op value.  Both sides are  *)
(* compared as printed; nil prints as <nil>, and so does an absent field.  *)

Printed(v) ==
    IF Is(v, "null") \/ Is(v, "missing") THEN Str(<<"<nil>">>) ELSE EnsureUnmarshal(v)

Folded(v) == IF Is(v, "str") THEN Str([i \in DOMAIN v.str |-> IF v.str[i] = "A" THEN "a" ELSE v.str[i]]) ELSE v

Match(left, op, right) ==
    CASE op = ":" -> left = right
      [] op = "!" -> left # right
      [] op = "~" -> Folded(left) = Folded(right)
      [] OTHER ->
            /\ Is(left, "num") /\ Is(right, "num")
            /\ CASE op = ">" -> left.num > right.num
                 [] op = "<" -> left.num < right.num
                 [] op = ">=" -> left.num >= right.num
                 [] op = "<=" -> left.num <= right.num

(* An object is judged by a field, anything else by itself.  No field is   *)
(* the path <<>>.                                                          *)
Selected(item, q) ==
    IF Is(item, "obj")
    THEN /\ q.field # <<>>
         /\ Is(At(item, Front(q.field)), "obj")
         /\ Match(Printed(At(item, q.field)), q.op, q.value)
    ELSE q.field = <<>> /\ Match(Printed(item), q.op, q.value)

Filter(items, q) == SelectSeq(items, LAMBDA item : Selected(item, q))

-----------------------------------------------------------------------------
(* getRange: runes[start:end] after normalising and clamping.  A negative  *)
(* end is the end of the string, another one a length.  Beyond is the      *)
(* panic of a slice whose end lies before its start.  The sum of the two   *)
(* may run over the largest int and is then negative.                      *)
Beyond == [beyond |-> TRUE]
Ints == -IntMax - 1 .. IntMax
IntSum(m, n) == IF m + n > IntMax THEN m + n - 2 * (IntMax + 1) ELSE m + n

(* Mutant: a start behind the end of the string is left there.             *)
GetRange_NoLimit(s, start, end) ==
    LET from == IF start < 0 THEN Len(s) + start ELSE start
        to == IF end < 0 THEN Len(s) ELSE IntSum(from, end)
        low == IF from < 0 THEN 0 ELSE from
        high == IF to >= Len(s) THEN Len(s) ELSE to
    IN IF high < low THEN Beyond ELSE Text(SubSeq(s, low + 1, high))

GetRange(s, start, end) ==
    LET from == IF start < 0 THEN Len(s) + start ELSE start
        to == IF end < 0 THEN Len(s) ELSE IntSum(from, end)
        low == IF from < 0 THEN 0 ELSE IF from > Len(s) THEN Len(s) ELSE from
        high == IF to >= Len(s) THEN Len(s) ELSE to
    IN IF high < low THEN Beyond ELSE Text(SubSeq(s, low + 1, high))
=============================================================================
