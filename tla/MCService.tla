----------------------------- MODULE MCService -----------------------------
(***************************************************************************)
(* Instances of Service for TLC: the settings are those of the file that   *)
(* ships with the server, cut down, and overrides of each kind.            *)
(***************************************************************************)
EXTENDS Service

Default == [port |-> 9210, enable_auth |-> TRUE, users |-> {"root"}, persistence |-> TRUE,
            shard_count |-> 2, strict_mode |-> FALSE]
Open == [Default EXCEPT !.enable_auth = FALSE, !.persistence = FALSE]
Rootless == [Default EXCEPT !.users = {"ann"}]
OtherUsers == [Zero EXCEPT !.users = {"root", "ann"}, !.persistence = TRUE]
NoRoot == [Zero EXCEPT !.users = {"ann"}]

With(file, flag, env) == [file |-> file, flag |-> flag, env |-> env]

AllStarts == {With(Open, Nothing, Nothing), With(Rootless, OtherUsers, NoRoot),
              With(Default, NoRoot, OtherUsers), With(Rootless, Nothing, Nothing),
              With(Default, Invalid, Nothing), With(Nothing, Nothing, Nothing),
              With(Invalid, Nothing, Nothing)}
=============================================================================
