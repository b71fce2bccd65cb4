--------------------------- MODULE MCPooledSessions ---------------------------
(* PooledSessions on a pool of two connections. *)
EXTENDS PooledSessions, TLC

Interchangeable == Permutations(Threads) \cup Permutations(Conns)
=============================================================================
