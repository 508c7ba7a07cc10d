------------------------- MODULE MCRedisConnection -------------------------
(* Instances of RedisConnection for TLC.                                   *)
EXTENDS RedisConnection, TLC

\* Handles are interchangeable and so are connections.
Symmetry == Permutations(Handle) \cup Permutations(Conn)
=============================================================================
