------------------------------ MODULE MCRestart ------------------------------
(***************************************************************************)
(* Instances of Restart for TLC.  The hashes are the first bytes of the    *)
(* crc32 of the shards "0", "1", "2" and of the keys "a" and "c".          *)
(***************************************************************************)
EXTENDS Restart, TLC

CONSTANTS a, c

Crc == 0 :> 244 @@ 1 :> 131 @@ 2 :> 26 @@ a :> 232 @@ c :> 6

(* A second, no time at all, the largest number of seconds, and a number   *)
(* of minutes that 8 bits do not hold.                                     *)
Times == {[num |-> 1, unit |-> "s"], [num |-> 0, unit |-> "s"],
          [num |-> 127, unit |-> "s"], [num |-> 3, unit |-> "m"]}
=============================================================================
