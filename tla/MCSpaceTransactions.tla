------------------------ MODULE MCSpaceTransactions -------------------------
(***************************************************************************)
(* SpaceTransactions with two handlers open at once on two spaces.         *)
(***************************************************************************)
EXTENDS SpaceTransactions

(* A write may ask for nothing, or for the space to be at the first number. *)
MCCursors == {-1, 1}

=============================================================================
