---------------------------- MODULE MCClassInit ----------------------------
(***************************************************************************)
(* Instances of ClassInit for TLC: a class whose constructor uses another, *)
(* and threads that wait for either.                                       *)
(***************************************************************************)
EXTENDS ClassInit

CONSTANTS user, used

UserNeedsUsed == [c \in Classes |-> IF c = user THEN {used} ELSE {}]

=============================================================================
