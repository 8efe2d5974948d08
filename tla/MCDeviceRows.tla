---------------------------- MODULE MCDeviceRows ----------------------------
(***************************************************************************)
(* Two devices that are alike.                                             *)
(***************************************************************************)
EXTENDS DeviceRows, TLC

CONSTANTS a, b

AllKinds == {"edit", "move", "delete", "stop"}
Stops == {"stop"}
Edits == {"edit"}
JustMoves == {"move"}

Symmetry == Permutations(Device)
=============================================================================
