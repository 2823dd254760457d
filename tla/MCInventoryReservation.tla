---------------------- MODULE MCInventoryReservation ----------------------
(* Instances of InventoryReservation for TLC.                               *)
EXTENDS InventoryReservation

CONSTANTS o1, o2, o3, p1, p2

\* p1 asks for two and p2 for nothing.
MCQuantity == [c \in Calls |-> CASE c = p1 -> 2 [] c = p2 -> 0 [] OTHER -> 1]

===========================================================================
