------------------------------- MODULE Blobs --------------------------------
(***************************************************************************)
(* Where the content of items is: rows of chunks in the database, and      *)
(* files beside it for the large ones (chunks.rs, blob.rs).  The two are   *)
(* written one after the other and either may be cut off: a request ends   *)
(* half-way, the server stops, or the answer to a commit is lost.  Whoever *)
(* writes to a space holds its row, so there is one transaction at a time. *)
(***************************************************************************)
EXTENDS Naturals, Sequences, FiniteSets

CONSTANTS
  Note,      \* items of the space
  Chunk,     \* chunks, by uid, that are too large for their row
  BlobKey,   \* bound: keys of files, each made once
  NoKey,     \* a chunk that has no row
  Kept,      \* keep_revisions: how many revisions stay beside the current one
  MaxStops   \* bound: how often the server stops

ASSUME BlobsAssumption == {Kept, MaxStops} \subseteq Nat /\ NoKey \notin BlobKey

VARIABLES
  revs,     \* an item's revisions, newest first, each by the chunk it names
  rows,     \* the file a chunk's row points into, as committed
  files,    \* the files that are there
  aged,     \* those of them written longer ago than the grace
  fresh,    \* the keys not made yet
  late,     \* files being written for a request that went away
  tx,       \* the transaction that holds the space's row
  doomed,   \* keys that somebody is about to remove after a transaction
  sweep,    \* keys the sweep found without a row and is about to remove
  ended,    \* the space is deleted
  stops

blobVars == <<revs, rows, files, aged, fresh, late, tx, doomed, sweep, ended, stops>>

NoTx == [at |-> "none", revs |-> [n \in Note |-> <<>>], rows |-> [c \in Chunk |-> NoKey],
         chunk |-> NoKey, put |-> {}, freed |-> {}, ended |-> FALSE]

BlobsInit ==
  /\ revs = NoTx.revs /\ rows = NoTx.rows
  /\ files = {} /\ aged = {} /\ fresh = BlobKey /\ late = {}
  /\ tx = NoTx /\ doomed = {} /\ sweep = {} /\ ended = FALSE /\ stops = 0

Named(rv) == UNION {{rv[n][i] : i \in DOMAIN rv[n]} : n \in Note}

(* UNUSED_BLOBS: the keys no row points into.                              *)
Unused(ks, rs) == {k \in ks : \A c \in Chunk : rs[c] # k}

(* A request on a space that is live takes its row (membership).           *)
StartWrite ==
  /\ tx.at = "none" /\ ~ended
  /\ tx' = [NoTx EXCEPT !.at = "open", !.revs = revs, !.rows = rows]
  /\ UNCHANGED <<revs, rows, files, aged, fresh, late, doomed, sweep, ended, stops>>

(* Uncommitted::put notes the key before the write, and the file is there  *)
(* before the row that points into it.                                     *)
StartPut(c) ==
  \E k \in fresh :
    /\ tx.at = "open" /\ tx.rows[c] = NoKey
    /\ fresh' = fresh \ {k}
    /\ tx' = [tx EXCEPT !.at = "putting", !.chunk = c, !.put = {k}]
    /\ UNCHANGED <<revs, rows, files, aged, late, doomed, sweep, ended, stops>>

(* The file is written, and store or upload_chunk insert the row.          *)
Inserted ==
  /\ tx.at = "putting"
  /\ files' = files \cup tx.put
  /\ tx' = [tx EXCEPT !.at = "put", !.rows[tx.chunk] = CHOOSE k \in tx.put : TRUE]
  /\ UNCHANGED <<revs, rows, aged, fresh, late, doomed, sweep, ended, stops>>

(* prune: an item keeps its current revision and Kept before it, and of    *)
(* the chunks that only dropped revisions named the rows go.               *)
Pruned(rv, rs, dropped) ==
  [c \in Chunk |-> IF c \in dropped \ Named(rv) THEN NoKey ELSE rs[c]]

Written(rv, dropped, over) ==
  LET rs == Pruned(rv, tx.rows, dropped) IN
  tx' = [tx EXCEPT !.at = "written", !.revs = rv, !.rows = rs, !.ended = over,
                   !.freed = Unused({tx.rows[c] : c \in dropped} \ {NoKey}, rs)]

(* store_revisions: a new revision names a chunk that is stored by now.    *)
Revise(n, c) ==
  LET old == tx.revs[n]
      keep == SubSeq(<<c>> \o old, 1, IF Len(old) < Kept THEN Len(old) + 1 ELSE Kept + 1)
  IN
  /\ tx.at \in {"open", "put"} /\ tx.rows[c] # NoKey
  /\ tx.at = "put" => c = tx.chunk
  /\ Written([tx.revs EXCEPT ![n] = keep], {old[i] : i \in DOMAIN old}, FALSE)
  /\ UNCHANGED <<revs, rows, files, aged, fresh, late, doomed, sweep, ended, stops>>

(* A deleted item keeps its tombstone, which names nothing.                *)
DeleteItem(n) ==
  /\ tx.at = "open"
  /\ Written([tx.revs EXCEPT ![n] = <<>>], {tx.revs[n][i] : i \in DOMAIN tx.revs[n]}, FALSE)
  /\ UNCHANGED <<revs, rows, files, aged, fresh, late, doomed, sweep, ended, stops>>

(* drop_content: deleting the space drops everything in it.                *)
EndSpace ==
  /\ tx.at = "open"
  /\ Written([n \in Note |-> <<>>], Chunk, TRUE)
  /\ UNCHANGED <<revs, rows, files, aged, fresh, late, doomed, sweep, ended, stops>>

(* What can be committed: upload_chunk has its row and no revision.        *)
Complete == tx.at \in {"put", "written"}

Applied == /\ revs' = tx.revs /\ rows' = tx.rows /\ ended' = (ended \/ tx.ended)

(* keep, commit, and only then discard_blobs with what the rows freed.     *)
CommitWrite ==
  /\ Complete /\ Applied
  /\ tx' = NoTx
  /\ doomed' = doomed \cup tx.freed
  /\ UNCHANGED <<files, aged, fresh, late, sweep, stops>>

(* As when the guard is let go of only after the answer.                   *)
CommitUnansweredDrops ==
  \E done \in BOOLEAN :
    /\ Complete
    /\ IF done THEN Applied ELSE UNCHANGED <<revs, rows, ended>>
    /\ tx' = NoTx
    /\ doomed' = doomed \cup tx.put
    /\ UNCHANGED <<files, aged, fresh, late, sweep, stops>>

(* The answer to the commit is lost. Whether it happened or not, nothing   *)
(* is removed: neither what it wrote nor what it freed.                    *)
CommitUnanswered ==
  \E done \in BOOLEAN :
    /\ Complete
    /\ IF done THEN Applied ELSE UNCHANGED <<revs, rows, ended>>
    /\ tx' = NoTx
    /\ UNCHANGED <<files, aged, fresh, late, doomed, sweep, stops>>

(* The request fails, is refused or is abandoned before the commit: the    *)
(* guard removes what it put, in a task of its own, and a file being       *)
(* written may still appear after that.                                    *)
Abandon ==
  /\ tx.at # "none"
  /\ tx' = NoTx
  /\ doomed' = doomed \cup tx.put
  /\ late' = IF tx.at = "putting" THEN late \cup tx.put ELSE late
  /\ UNCHANGED <<revs, rows, files, aged, fresh, sweep, ended, stops>>

Appear ==
  \E k \in late :
    /\ late' = late \ {k}
    /\ files' = files \cup {k}
    /\ UNCHANGED <<revs, rows, aged, fresh, tx, doomed, sweep, ended, stops>>

(* One removal after a transaction: it may fail, which is logged.          *)
RemoveDoomed ==
  \E k \in doomed, fails \in BOOLEAN :
    /\ doomed' = doomed \ {k}
    /\ files' = IF fails THEN files ELSE files \ {k}
    /\ aged' = IF fails THEN aged ELSE aged \ {k}
    /\ UNCHANGED <<revs, rows, fresh, late, tx, sweep, ended, stops>>

(* remove_account drops the rows of the spaces it owned, and               *)
(* remove_collection every file it finds of them after the commit.         *)
OwnerRemoved ==
  /\ tx.at = "none" /\ ~ended
  /\ revs' = NoTx.revs /\ rows' = NoTx.rows /\ ended' = TRUE
  /\ doomed' = doomed \cup files
  /\ UNCHANGED <<files, aged, fresh, late, tx, sweep, stops>>

(* RECLAIM_GRACE is far longer than any transaction stays open.            *)
GrowOld ==
  \E k \in files \ aged :
    /\ k \notin tx.put
    /\ aged' = aged \cup {k}
    /\ UNCHANGED <<revs, rows, files, fresh, late, tx, doomed, sweep, ended, stops>>

(* As when the sweep went by what it had seen before.                      *)
SweptNew == Unused(files \ aged, rows)

(* reclaim_blobs: of the files older than the grace, those without a row.  *)
Swept == Unused(aged, rows)

Sweep ==
  /\ sweep = {} /\ Swept # {}
  /\ sweep' = Swept
  /\ UNCHANGED <<revs, rows, files, aged, fresh, late, tx, doomed, ended, stops>>

Reclaim ==
  /\ sweep # {}
  /\ files' = files \ sweep
  /\ aged' = aged \ sweep
  /\ sweep' = {}
  /\ UNCHANGED <<revs, rows, fresh, late, tx, doomed, ended, stops>>

(* The server stops. A commit that was asked for happened or not.          *)
ServerStops ==
  /\ stops < MaxStops /\ stops' = stops + 1
  /\ \/ UNCHANGED <<revs, rows, ended>>
     \/ Complete /\ Applied
  /\ \/ UNCHANGED files
     \/ tx.at = "putting" /\ files' = files \cup tx.put
  /\ tx' = NoTx /\ doomed' = {} /\ sweep' = {} /\ late' = {}
  /\ UNCHANGED <<aged, fresh>>

Handler ==
  \/ StartWrite \/ Inserted \/ EndSpace \/ CommitWrite \/ CommitUnanswered \/ Abandon
  \/ \E c \in Chunk : StartPut(c) \/ \E n \in Note : Revise(n, c)
  \/ \E n \in Note : DeleteItem(n)

BlobsNext ==
  \/ Handler \/ Appear \/ RemoveDoomed \/ OwnerRemoved
  \/ GrowOld \/ Sweep \/ Reclaim \/ ServerStops

(* Time passes, the sweep comes round every six hours, and no transaction  *)
(* stays open.                                                             *)
TransactionEnds == Inserted \/ (tx.at # "none" /\ Abandon)

BlobsSpec == BlobsInit /\ [][BlobsNext]_blobVars

-----------------------------------------------------------------------------
(* Every revision that is kept can be read: the chunk it names has a row,  *)
(* and the row's file is there, wherever a request, a removal or the       *)
(* server was cut off and whatever other items share the chunk (prune,     *)
(* Uncommitted, reclaim_blobs).                                            *)
RevisionsReadable == \A c \in Named(revs) : rows[c] \in files

(* A file no row points into goes in the end, however the request that     *)
(* wrote it or freed it was cut off (reclaim_blobs).                       *)
OrphansGo ==
  \A k \in BlobKey : []<>(k \notin Unused(files, rows))
=============================================================================
