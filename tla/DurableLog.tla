----------------------------- MODULE DurableLog -----------------------------
(***************************************************************************)
(* What one write-ahead log shard promises: a list of entries that grows   *)
(* at its end, of which some prefix is safe; a crash may cut the list, but *)
(* only at its end and never into the safe prefix.  An entry that is not   *)
(* safe may also be given up by itself, from the middle of the list.       *)
(* Abstracts internal/wal/wal.go; WalShard implements it.                  *)
(***************************************************************************)
EXTENDS Naturals, Sequences

CONSTANT Entries

VARIABLES
    entries,    \* the log
    safe        \* how many of its first entries survive every crash

vars == <<entries, safe>>

Init == entries = <<>> /\ safe = 0

Append1 == \E e \in Entries : entries' = Append(entries, e) /\ UNCHANGED safe

Persist == safe' \in (safe + 1) .. Len(entries) /\ UNCHANGED entries

Without(i) == SubSeq(entries, 1, i - 1) \o SubSeq(entries, i + 1, Len(entries))

(* The place of the entry may go to one that was waiting.                  *)
GiveUp ==
    \E i \in (safe + 1) .. Len(entries) :
        /\ \/ entries' = Without(i)
           \/ \E e \in Entries : entries' = Append(Without(i), e)
        /\ UNCHANGED safe

Crash ==
    \E n \in safe .. Len(entries) :
        /\ entries' = SubSeq(entries, 1, n)
        /\ safe' \in safe .. n

Next == Append1 \/ Persist \/ GiveUp \/ Crash

Spec == Init /\ [][Next]_vars
=============================================================================
