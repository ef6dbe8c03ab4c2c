------------------------------ MODULE TtlStore ------------------------------
(***************************************************************************)
(* What a shard's key space promises, whatever locks it takes: a map whose *)
(* keys are bound, unbound, re-dated and reaped in single steps, where     *)
(*   - a key is removed for a client only while that client asks for it,   *)
(*   - any other removal is of keys past their deadline,                   *)
(*   - a key past its deadline is never given a new one,                   *)
(*   - the deadline of a binding changes by Redate and by nothing else.    *)
(* Abstracts internal/store/IMem.go; Memory implements it.                 *)
(***************************************************************************)
EXTENDS Naturals

CONSTANTS Clients, Keys, Values, Nil, TTLs

VARIABLES
    bound,      \* the value bound to each key, Nil for none
    deadline,   \* when the key expires, 0 for never or for an unbound key
    asked,      \* the key each client wants removed, Nil for none
    now

vars == <<bound, deadline, asked, now>>

Init ==
    /\ bound = [k \in Keys |-> Nil]
    /\ deadline = [k \in Keys |-> 0]
    /\ asked = [c \in Clients |-> Nil]
    /\ now = 1

Due(k) == bound[k] # Nil /\ deadline[k] > 0 /\ now >= deadline[k]

Dates(ttl) == IF ttl > 0 THEN now + ttl ELSE 0

(* Every value put is one of its own: what two keys, or one key before and *)
(* after, are bound to can be told apart.                                  *)
Put(k) ==
    \E v \in Values, ttl \in TTLs \cup {0} :
        /\ \A l \in Keys : bound[l] # v
        /\ bound' = [bound EXCEPT ![k] = v]
        /\ deadline' = [deadline EXCEPT ![k] = Dates(ttl)]
        /\ UNCHANGED <<asked, now>>

Redate(k) ==
    /\ bound[k] # Nil
    /\ ~Due(k)
    /\ \E ttl \in TTLs : deadline' = [deadline EXCEPT ![k] = Dates(ttl)]
    /\ UNCHANGED <<bound, asked, now>>

Unbind(S) ==
    /\ bound' = [k \in Keys |-> IF k \in S THEN Nil ELSE bound[k]]
    /\ deadline' = [k \in Keys |-> IF k \in S THEN 0 ELSE deadline[k]]
    /\ UNCHANGED now

AskRemove(c) ==
    /\ asked[c] = Nil
    /\ \E k \in Keys : asked' = [asked EXCEPT ![c] = k]
    /\ UNCHANGED <<bound, deadline, now>>

Remove(c) ==
    /\ asked[c] # Nil
    /\ Unbind({asked[c]})
    /\ asked' = [asked EXCEPT ![c] = Nil]

Reap ==
    /\ \E S \in SUBSET {k \in Keys : Due(k)} : Unbind(S)
    /\ UNCHANGED asked

Tick == now' = now + 1 /\ UNCHANGED <<bound, deadline, asked>>

Next ==
    \/ \E k \in Keys : Put(k) \/ Redate(k)
    \/ \E c \in Clients : AskRemove(c) \/ Remove(c)
    \/ Reap
    \/ Tick

Spec == Init /\ [][Next]_vars
=============================================================================
