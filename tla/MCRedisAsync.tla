---------------------------- MODULE MCRedisAsync ----------------------------
(* Instances of RedisAsync for TLC.                                        *)
EXTENDS RedisAsync, TLC

\* Headers for strings of less than 2, 3, 6 and 9 characters.
SmallLimits == 0 :> 2 @@ 1 :> 3 @@ 2 :> 6 @@ 3 :> 9

\* Blocking calls may be cut short within a message.
Cut == TRUE :> 2 @@ FALSE :> 1

\* Two topics that share a slot until the table has four.
Collide == "a" :> 1 @@ "b" :> 3

\* Every way to a blocking context, except that a timeout in range behaves as
\* none does, and the way to an asynchronous one that takes in all others.
Ways == {o \in ConnectOptions : IF "BLOCK" \in o.flags THEN o.timeout # "good" ELSE "REUSEADDR" \in o.flags}

Cmd(op, topics, pattern, fn) ==
    [op |-> op, topics |-> topics, pattern |-> pattern, fn |-> fn]

G == Cmd("get", <<>>, FALSE, TRUE)
N == Cmd("get", <<>>, FALSE, FALSE)
M == Cmd("monitor", <<>>, FALSE, TRUE)
Sa == Cmd("subscribe", <<"a">>, FALSE, TRUE)
Saa == Cmd("subscribe", <<"a", "a">>, FALSE, TRUE)
Sab == Cmd("subscribe", <<"a", "b">>, FALSE, TRUE)
Pa == Cmd("subscribe", <<"a">>, TRUE, TRUE)
Ua == Cmd("unsubscribe", <<"a">>, FALSE, TRUE)
Ub == Cmd("unsubscribe", <<"b">>, FALSE, TRUE)
U == Cmd("unsubscribe", <<>>, FALSE, TRUE)
PU == Cmd("unsubscribe", <<>>, TRUE, TRUE)

Mixture ==
    {<<G, N, G>>, <<G, M>>, <<M, G>>, <<G, Sa, Ub>>,
     <<Sa, G, U>>, <<Sa, U, G, G>>, <<Sa, U, U, G>>, <<Sa, PU>>,
     <<Sa, Sab, U>>, <<Sab, Ua, Sa>>, <<Pa, Sa, U, PU>>, <<Saa, U>>}

\* The default way to an asynchronous context, and a command issued while the
\* only subscription is being ended.
Plain == {Option("tcp", {}, "none", FALSE)} \cap ConnectOptions
Leaving == {<<Sa, U, G>>}
=============================================================================
