---------------------------- MODULE MCHttpSessions ----------------------------
(***************************************************************************)
(* HttpSessions with two clients, a table of two sessions and three ids,   *)
(* so that a third session finds it full.                                  *)
(***************************************************************************)
EXTENDS HttpSessions, TLC

Symmetric ==
  Permutations(Clients) \cup Permutations(Ids) \cup Permutations(BlockingThreads)

\* Bound: the sessions that were ended by their client or told both revisions.
OneTroubled == Cardinality({s \in Ids : s \in ended \/ agreed[s] = Revs}) <= 1
=============================================================================
