-------------------------- MODULE MCConnectionPool --------------------------
(* Instances of ConnectionPool for TLC.                                    *)
EXTENDS ConnectionPool, TLC

\* An option that is not set.
NUMBER_UNLIMITED == -1

\* Threads are interchangeable and so are blocks.
Symmetry == Permutations(Thread) \cup Permutations(Block)
=============================================================================
