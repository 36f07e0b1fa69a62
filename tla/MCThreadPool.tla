---------------------------- MODULE MCThreadPool ----------------------------
(***************************************************************************)
(* Instances of ThreadPool for TLC.  Workers and requesters are            *)
(* interchangeable; the symmetry is only used where nothing but invariants *)
(* is checked.                                                             *)
(***************************************************************************)
EXTENDS ThreadPool, TLC

Symmetry == Permutations(Workers) \cup Permutations(Requesters)
=============================================================================
