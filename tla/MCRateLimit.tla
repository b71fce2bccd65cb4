----------------------------- MODULE MCRateLimit -----------------------------
(***************************************************************************)
(* RateLimit behind a trusted proxy, with five addresses for a table of     *)
(* four buckets.                                                             *)
(***************************************************************************)
EXTENDS RateLimit, TLC

CONSTANTS a1, a2, a3, a4, a5

MCAddresses == {a1, a2, a3, a4, a5}
MCWatched == {a1}
MCForged == {<<>>, <<a1>>, <<Blank>>}
Interchangeable == Permutations({a2, a3, a4, a5})
=============================================================================
