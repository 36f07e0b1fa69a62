---------------------------- MODULE MCPurchasing ----------------------------
(***************************************************************************)
(* Instances of Purchasing for TLC: all transactions buy the same product. *)
(***************************************************************************)
EXTENDS Purchasing

SameProduct == [t \in Transactions |-> CHOOSE p \in Products : TRUE]

=============================================================================
