----------------------------- MODULE MCCommands -----------------------------
(***************************************************************************)
(* Instances of Commands for TLC: one workload for each family, the first  *)
(* client writing its keys while the second reads them or writes its own.  *)
(***************************************************************************)
EXTENDS Commands, TLC

CONSTANTS c1, c2, k1, k2, k3

Req(op, key, args) == [op |-> op, key |-> key, args |-> args]
F == Path(<<"f">>)
G == Path(<<"g">>)
FG == Path(<<"f", "g">>)
NoName == Path(<<"">>)
One == Num(1)
A == Text(<<"a">>)
Upper == Text(<<"A">>)
Wide == Text(<<"wide">>)
Query(field, op, value) == [field |-> field, op |-> op, value |-> value]
Conditions ==
    {Query(<<>>, op, v) : op \in {":", "!", "~"}, v \in {Str(<<"A">>), Str(<<"<nil>">>)}}
        \cup {Query(<<>>, op, One) : op \in {"<", ">", "<=", ">="}}
        \cup {Query(<<"f">>, ":", One), Query(<<"f", "g">>, ":", One)}

Work(strict, first, second) ==
    [strict |-> strict, lossy |-> FALSE, may |-> c1 :> first @@ c2 :> second]

Lists == Work(FALSE,
    {Req("LIST.PUSH", k1, <<One>>), Req("LIST.PUSH", k1, <<Null>>),
     Req("LIST.POP", k1, <<>>), Req("LIST.GPOP", k1, <<>>), Req("TTL.EXPIRE", k1, <<Num(9)>>)},
    {Req("LIST.LEN", k1, <<>>)})

(* Every LIST.FIND condition over a list of one of everything.             *)
Finds == Work(FALSE,
    {Req("LIST.SET", k1, <<Upper, Obj("f" :> One), Null>>), Req("LIST.ISET", k1, <<Num(0), Null>>),
     Req("LIST.GET", k1, <<>>), Req("LIST.PUSH", k1, <<>>), Req("LIST.POP", k1, <<>>)}
        \cup {Req("LIST.FIND", k1, <<q>>) : q \in Conditions},
    {Req("LIST.GET", k1, <<One>>)})

Maps == Work(FALSE,
    {Req("MAP.SET", k1, <<F, One>>), Req("MAP.SET", k1, <<G, A>>), Req("MAP.DEL", k1, <<F>>),
     Req("MAP.DEL", k1, <<>>), Req("MAP.SET", k1, <<NoName, A>>), Req("LIST.PUSH", k1, <<A>>),
     Req("TTL.EXPIRE", k1, <<Num(9)>>), Req("TTL.EXPIRE", k1, <<Num(0)>>)},
    {Req("MAP.GET", k1, <<F>>)})

Resets == Work(FALSE,
    {Req("MAP.CSET", k1, <<F, A>>), Req("MAP.DEL", k1, <<>>), Req("MAP.CSET", k1, <<NoName, A>>), Req("TTL.EXPIRE", k1, <<Num(9)>>)},
    {Req("GET", k1, <<F>>), Req("TTL", k1, <<>>), Req("MAP.GET", k1, <<NoName>>)})

Documents == Work(FALSE,
    {Req("JSON.ADD", k1, <<FG, One>>), Req("JSON.ADD", k1, <<G, A>>), Req("JSON.REMOVE", k1, <<FG>>),
     Req("JSON.REMOVE", k1, <<F>>), Req("JSON.REMOVE", k1, <<>>)},
    {Req("JSON.PGET", k1, <<FG>>)})

Merges == Work(FALSE,
    {Req("JSON.MERGE", k1, <<Obj("f" :> Obj("g" :> Num(2)))>>), Req("JSON.MERGE", k1, <<Null>>),
     Req("JSON.MERGE", k1, <<Obj("f" :> One @@ "g" :> One)>>), Req("JSON.ADD", k1, <<FG, One>>),
     Req("JSON.SET", k1, <<Null>>), Req("JSON.SET", k1, <<A>>)},
    {Req("JSON.GET", k1, <<NoName>>)})

Target(p, k) == [path |-> p, key |-> k]
Targets == [refs |-> {Target(<<"f">>, k2), Target(<<"f", "g">>, k3)}]
SetRef(doc) == Req("JSON.SETREF", k1, <<doc, Targets>>)
Others == {Req("JSON.SET", k2, <<Obj("g" :> One)>>), Req("MAP.CSET", k3, <<F, A>>), Req("DELETE", k2, <<>>)}
Strict == Work(TRUE, {SetRef(Obj(<<>>))}, Others)
Lax == Work(FALSE, {SetRef(Obj(<<>>)), SetRef(Null)}, {Req("DELETE", k2, <<>>)})

Reads == Work(TRUE,
    {Req("JSON.SETREF", k1, <<Obj(<<>>), [refs |-> {Target(<<"f">>, k2)}]>>),
     Req("JSON.GET", k1, <<NoName, F, FG>>), Req("EXISTS", k2, <<k1, BadKey, k2>>)},
    {Req("JSON.SET", k2, <<Obj("g" :> One)>>), Req("DELETE", k2, <<>>)})

Texts == Work(FALSE,
    {Req("STR.APPEND", k1, <<A>>), Req("STR.SET", k1, <<Wide>>), Req("STR.LENGTH", k1, <<>>),
     Req("DELETE", k1, <<>>), Req("SET", k1, <<A>>)}
        \cup {Req("STR.RANGE", k1, <<Num(i), Num(j)>>) : i \in {-3, -1, 4}, j \in {-1, 0, 1}},
    {Req("STR.GET", k1, <<>>)})

Numbers == Work(FALSE,
    {Req("NUM.SET", k1, <<Inf>>), Req("NUM.INCR", k1, <<>>), Req("NUM.DECR", k1, <<Num(2)>>),
     Req("SET", k1, <<One>>), Req("SET", BadKey, <<One>>), Req("NUM.SET", k1, <<A>>)},
    {Req("NUM.GET", k1, <<>>)})

(* The log refuses and drops entries.                                      *)
Lossy(first) == [Work(FALSE, first, {}) EXCEPT !.lossy = TRUE]
LossyLists == Lossy({Req("LIST.PUSH", k1, <<One>>), Req("LIST.GPOP", k1, <<>>),
                     Req("TTL.EXPIRE", k1, <<Num(9)>>)})
LossyMaps == Lossy({Req("MAP.SET", k1, <<F, One>>), Req("MAP.SET", k1, <<G, A>>),
                    Req("MAP.DEL", k1, <<F>>), Req("TTL.EXPIRE", k1, <<Num(9)>>)})
LossyResets == Lossy({Req("MAP.CSET", k1, <<F, A>>), Req("SET", k2, <<A>>), Req("DELETE", k2, <<>>)})

(* EXISTS with 128 arguments, all of them the same key.                    *)
Counts == Work(FALSE, {Req("EXISTS", k1, [i \in 1 .. 127 |-> k1]), Req("SET", k1, <<A>>)}, {})

Families == {Lists, Finds, Maps, Resets, LossyLists, LossyMaps, LossyResets, Documents, Merges, Strict, Lax,
             Reads, Texts, Numbers, Counts}

ASSUME OneWriter

SixObjects == 1 .. 6
=============================================================================
