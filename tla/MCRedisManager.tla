--------------------------- MODULE MCRedisManager ---------------------------
(* Instances of RedisManager for TLC.                                      *)
EXTENDS RedisManager, TLC

CONSTANTS t1, t2, a1, a2

\* InitEx with two slaves.
TwoSlaves == {<<a2, a1>>}

\* Each thread keeps to its own database.
Apart == t1 :> {<<"MASTER", 0>>, <<"SLAVE", 0>>} @@ t2 :> {<<"SLAVE", 1>>}

\* Two threads that share a database of the slaves.
SharedSlave == [t \in {t1, t2} |-> {<<"SLAVE", 1>>}]

\* Pools are interchangeable and so are arrays.
Symmetry == Permutations(Pool) \cup Permutations(Array)
=============================================================================
