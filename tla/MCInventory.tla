---------------------------- MODULE MCInventory ----------------------------
(***************************************************************************)
(* Inventory with two slots in use and two in the inventory.               *)
(***************************************************************************)
EXTENDS Inventory

MCItemType == {1, 4}
MCTier == [t \in MCItemType |-> 1]
=============================================================================
