----------------------------- MODULE MCSpaceLog -----------------------------
(* A space on the server and a note on two devices, each alone: SpaceLog     *)
(* with a few accounts, a space's own item and one more, two revisions that  *)
(* hold something and one that is a tombstone; and the rows of a note that   *)
(* does not move, whose syncs go on.  `part` says which one runs, and the    *)
(* other stays as it begins: fairness is about the rows, and says nothing of *)
(* the behaviours in which the space runs.                                   *)
EXTENDS SpaceLog, DeviceRows

CONSTANTS a, b

(* A write does not name the stoken it expects.                              *)
NoStoken == {-1}
Deletes == {"edit", "delete"}

VARIABLE part

PartsInit == part \in {"space", "rows"} /\ Init /\ RowsInit

PartsNext ==
  \/ part = "space" /\ Next /\ UNCHANGED <<part, rowVars>>
  \/ part = "rows" /\ RowsNext /\ UNCHANGED <<part, vars>>

PartsSpec == PartsInit /\ [][PartsNext]_<<part, vars, rowVars>> /\ RowsFairness
=============================================================================
