-------------------------- MODULE MCManagedThreads --------------------------
(***************************************************************************)
(* Instances of ManagedThreads for TLC: the finite sets come from the      *)
(* configuration.                                                          *)
(***************************************************************************)
EXTENDS ManagedThreads, TLC
=============================================================================
