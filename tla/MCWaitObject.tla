---------------------------- MODULE MCWaitObject ----------------------------
(***************************************************************************)
(* Instances of WaitObject for TLC.  Threads are interchangeable; the      *)
(* symmetry is only used where nothing but invariants is checked.          *)
(***************************************************************************)
EXTENDS WaitObject

Symmetry == Permutations(Threads)

=============================================================================
