----------------------------- MODULE MCAdmission -----------------------------
(***************************************************************************)
(* Admission on a pool of three permits, two of them reserved.              *)
(***************************************************************************)
EXTENDS Admission, TLC

Interchangeable == Permutations(Requests) \cup Permutations(Clients)
=============================================================================
