------------------------------ MODULE MCDevice ------------------------------
(* Five parts of a device that share no state, each alone: the rows of a     *)
(* note on two devices, where it does not move; the folders others share     *)
(* with it; the tree of folders and notes; the images of two notes; and the  *)
(* windows of its vaults across an update.  `part` says which one runs, and  *)
(* the others stay as they begin.                                            *)
EXTENDS DeviceRows, ReceivedFolders, Notebook, NoteImages, UpdateRecovery, TLC

CONSTANTS a, b, f1, f2, f3, c1, c2, n1, n2, n3, n4, p1, p2

Deletes == {"edit", "delete"}
Symmetry == Permutations(Device)
NoteSymmetry == Permutations(Picture)

VARIABLE part

DeviceInit ==
  /\ part \in {"rows", "folders", "book", "images", "update"}
  /\ RowsInit /\ FoldersInit /\ BookInit /\ ImagesInit /\ UpdateInit
  /\ part = "folders" \/ cursor = 0

Alone(name) == part = name /\ UNCHANGED part
RestOf(name) ==
  /\ name = "rows" \/ UNCHANGED rowVars
  /\ name = "folders" \/ UNCHANGED folderVars
  /\ name = "book" \/ UNCHANGED bookVars
  /\ name = "images" \/ UNCHANGED imageVars
  /\ name = "update" \/ UNCHANGED updateVars

DeviceNext ==
  \/ Alone("rows") /\ RowsNext /\ RestOf("rows")
  \/ Alone("folders") /\ FoldersNext /\ RestOf("folders")
  \/ Alone("book") /\ BookNext /\ RestOf("book")
  \/ Alone("images") /\ ImagesNext /\ RestOf("images")
  \/ Alone("update") /\ UpdateNext /\ RestOf("update")

DeviceSpec ==
  DeviceInit /\ [][DeviceNext]_<<part, rowVars, folderVars, bookVars, imageVars, updateVars>>
=============================================================================
