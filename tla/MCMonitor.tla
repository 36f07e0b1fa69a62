----------------------------- MODULE MCMonitor -----------------------------
(***************************************************************************)
(* Small instances of Monitor for TLC.  Threads, objects and monitors are  *)
(* interchangeable, so the safety runs use their permutations.             *)
(***************************************************************************)
EXTENDS Monitor

Symmetry == Permutations(Threads) \cup Permutations(Objects) \cup Permutations(Monitors)
============================================================================
