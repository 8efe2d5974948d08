------------------------------ MODULE Notebook ------------------------------
(* The tree of folders and notes on one device (collections.rs, notes.rs,    *)
(* trash.rs and tree_batch.rs of the storage): what is created, moved, put   *)
(* into the trash, restored and deleted, and what the sync makes of it.  A   *)
(* row belongs to the vault or to a shared folder's space; moving it from    *)
(* one to the other queues the deletion of its item there and sends it anew. *)
(* Every command is one transaction.  What a note says, and the conflict of  *)
(* two devices about one row, are DeviceRows'.                               *)
EXTENDS Integers, FiniteSets

CONSTANTS
  Collection, Note,
  MaxCommands,   \* bound: commands of the user, here and on another device
  MaxItems       \* bound: items ever sent to the server

ASSUME NotebookAssumption ==
  /\ {MaxCommands, MaxItems} \subseteq Nat /\ IsFiniteSet(Collection)
  /\ {"none", "root", "trash", "vault"} \cap (Collection \cup Note) = {}

VARIABLES
  entry,     \* a folder's or a note's row
  anchors,   \* folders with a share_id: the roots of shares
  ended,     \* scopes of shares that are over
  queue,     \* tombstones
  posted,    \* the items on the server, as they were last sent
  acts, sent,
  stranded,  \* items whose row went with a folder and was not queued
  crossed    \* rows that went with the root of a share where it did not belong

bookVars == <<entry, anchors, ended, queue, posted, acts, sent, stranded, crossed>>

Node == Collection \cup Note
Absent == [in |-> "none", scope |-> "vault", uid |-> 0, dirty |-> FALSE, from |-> "root"]

BookInit ==
  /\ entry = [x \in Node |-> Absent]
  /\ anchors = {} /\ ended = {} /\ queue = {} /\ posted = {}
  /\ acts = 0 /\ sent = 0 /\ stranded = {} /\ crossed = {}

There == {x \in Node : entry[x].in # "none"}
Place == {"root", "trash"} \cup (Collection \cap There)

ScopeOf(place) == IF place \in Collection THEN entry[place].scope ELSE "vault"

(* What is below some places, with the places themselves: the recursive      *)
(* queries over parent_collection_id.                                        *)
Below(in, places) ==
  LET Reach[i \in 0 .. Cardinality(Collection) + 1] ==
        IF i = 0 THEN places
        ELSE Reach[i - 1] \cup {x \in DOMAIN in : in[x] \in Reach[i - 1]}
  IN Reach[Cardinality(Collection) + 1]
RowsBelow(places) == There \cap Below([y \in There |-> entry[y].in], places)
Subtree(x) == {x} \cup RowsBelow({x})
InTrash == RowsBelow({"trash"})

Announced(r, xs) == {[uid |-> r[x].uid, scope |-> r[x].scope] : x \in {y \in xs : r[y].uid # 0}}
UidsOf(xs) == {entry[x].uid : x \in xs} \ {0}

Act == acts < MaxCommands /\ acts' = acts + 1

(* Roots of shares below x that x takes along into another space.            *)
CrossedWith(x) == UNION {Subtree(b) : b \in (anchors \cap Subtree(x)) \ {x}}

(* As when the items left behind were not queued.                            *)
RehomedQuietly(r, x, scope) ==
  /\ entry' = [y \in Node |->
       IF y \in Subtree(x) THEN [r[y] EXCEPT !.scope = scope, !.uid = 0, !.dirty = TRUE] ELSE r[y]]
  /\ UNCHANGED queue

(* rehome_folder_subtree, rehome_note_subtree: the items are deleted where   *)
(* the rows were, and the rows wait to be sent to where they are.            *)
Rehomed(r, x, scope) ==
  /\ entry' = [y \in Node |->
       IF y \in Subtree(x) THEN [r[y] EXCEPT !.scope = scope, !.uid = 0, !.dirty = TRUE] ELSE r[y]]
  /\ queue' = queue \cup Announced(r, Subtree(x))

(* create: the row inherits the scope of the folder it is in.                *)
CreateRow(x) ==
  \E to \in Place \ {"trash"} :
    /\ Act /\ x \notin There
    /\ entry' = [entry EXCEPT ![x] = [Absent EXCEPT !.in = to, !.scope = ScopeOf(to), !.dirty = TRUE]]
    /\ UNCHANGED <<anchors, ended, queue, posted, sent, stranded, crossed>>

PlacedIn(x, to) ==
  [entry EXCEPT ![x] = [@ EXCEPT !.in = to, !.dirty = TRUE,
     !.from = IF to = "trash" /\ entry[x].in # "trash" THEN entry[x].in ELSE entry[x].from]]

(* As when a row moved under another folder kept its space.                  *)
MovedInPlace(x, to) == entry' = PlacedIn(x, to) /\ UNCHANGED <<queue, crossed>>

(* move_note, move_folder and the parent in both updates: the root of a      *)
(* share keeps its scope, everything else follows where it goes.             *)
MovedTo(x, to) ==
  IF x \notin anchors /\ entry[x].scope # ScopeOf(to)
  THEN Rehomed(PlacedIn(x, to), x, ScopeOf(to)) /\ crossed' = crossed \cup CrossedWith(x)
  ELSE entry' = PlacedIn(x, to) /\ UNCHANGED <<queue, crossed>>

(* validate_folder_move, is_descendant: no folder goes below itself.         *)
MayHold(to, x) == to \notin Subtree(x)

MoveRow(x) ==
  \E to \in Place :
    /\ Act /\ x \in There /\ to # entry[x].in
    /\ MayHold(to, x)
    /\ MovedTo(x, to)
    /\ UNCHANGED <<anchors, ended, posted, sent, stranded>>

(* notes::trash leaves the note in its scope.                                *)
TrashNote(n) ==
  /\ Act /\ n \in There /\ entry[n].in # "trash"
  /\ entry' = PlacedIn(n, "trash")
  /\ UNCHANGED <<anchors, ended, queue, posted, sent, stranded, crossed>>

(* restore_many_items: back to where it was, if that is there and outside    *)
(* the trash and outside what is restored; to the root otherwise.            *)
RestoreTarget(x) ==
  IF entry[x].from \in Place /\ entry[x].from \notin InTrash \cup Subtree(x) THEN entry[x].from ELSE "root"

RestoreRow(x) ==
  /\ Act /\ x \in There /\ entry[x].in = "trash"
  /\ MovedTo(x, RestoreTarget(x))
  /\ UNCHANGED <<anchors, ended, posted, sent, stranded>>

(* Rows go, some with their deletion queued; the foreign keys take along     *)
(* what is below them.                                                       *)
Removed(xs, announced) ==
  /\ entry' = [x \in Node |-> IF x \in xs THEN Absent ELSE entry[x]]
  /\ queue' = queue \cup Announced(entry, announced)
  /\ anchors' = anchors \ xs
  /\ stranded' = stranded \cup UidsOf(xs \ announced)
  /\ UNCHANGED <<ended, posted, sent, crossed>>

(* notes::purge, collections::delete: only the folder itself is queued.      *)
Purge(x) == x \in There /\ Act /\ Removed(Subtree(x), {x})

(* trash::empty: everything below the trash is queued.                       *)
EmptyTrash == InTrash # {} /\ Act /\ Removed(InTrash, InTrash)

(* sweep: what went to the trash long enough ago, with the notes below it.   *)
(* How long is left open.                                                    *)
Sweep ==
  \E top \in (SUBSET {x \in There : entry[x].in = "trash"}) \ {{}} :
    LET all == UNION {Subtree(x) : x \in top}
    IN Act /\ Removed(all, top \cup (all \cap Note))

(* move_into_space with record_outgoing_share, for a new collection.         *)
Share(f) ==
  /\ Act /\ f \in There /\ f \notin anchors \cup ended
  /\ entry[f].scope = "vault" /\ f \notin InTrash
  /\ Rehomed(entry, f, f) /\ crossed' = crossed \cup CrossedWith(f)
  /\ anchors' = anchors \cup {f}
  /\ UNCHANGED <<ended, posted, sent, stranded>>

(* detach_owner_share; the collection is deleted on the server.              *)
Unshare(f) ==
  /\ Act /\ f \in anchors
  /\ Rehomed(entry, f, "vault")
  /\ crossed' = crossed \cup IF ScopeOf(entry[f].in) = "vault" THEN CrossedWith(f) ELSE Subtree(f)
  /\ anchors' = anchors \ {f} /\ ended' = ended \cup {f}
  /\ posted' = {i \in posted : i.scope # f}
  /\ UNCHANGED <<sent, stranded>>

(* The sync sends a row, as a new item or as a new revision of its item.     *)
PostedItem(x, u) == [uid |-> u, node |-> x, in |-> entry[x].in, scope |-> entry[x].scope]
Carried(x) == {i \in posted : i.uid = entry[x].uid}

SendRow(x) ==
  /\ x \in There /\ entry[x].dirty /\ entry[x].scope \notin ended
  /\ IF entry[x].uid = 0
     THEN /\ sent < MaxItems /\ sent' = sent + 1
          /\ posted' = posted \cup {PostedItem(x, sent + 1)}
          /\ entry' = [entry EXCEPT ![x].uid = sent + 1, ![x].dirty = FALSE]
     ELSE /\ Carried(x) # {}
          /\ posted' = (posted \ Carried(x)) \cup {PostedItem(x, entry[x].uid)}
          /\ entry' = [entry EXCEPT ![x].dirty = FALSE]
          /\ UNCHANGED sent
  /\ UNCHANGED <<anchors, ended, queue, acts, stranded, crossed>>

DrainQueue ==
  \E t \in queue :
    /\ queue' = queue \ {t}
    /\ posted' = {i \in posted : i.uid # t.uid \/ i.scope # t.scope}
    /\ UNCHANGED <<entry, anchors, ended, acts, sent, stranded, crossed>>

(* Another device of the account deletes what it sees, a folder with         *)
(* everything below it, by emptying its trash.                               *)
OthersDelete ==
  \E i \in posted :
    LET seen == [x \in {j.node : j \in posted} |-> (CHOOSE j \in posted : j.node = x).in]
    IN
    /\ Act
    /\ posted' = {j \in posted : j.node \notin Below(seen, {i.node})}
    /\ UNCHANGED <<entry, anchors, ended, queue, sent, stranded, crossed>>

(* apply_remote_delete: a row with unsent changes is kept and let go of its  *)
(* item, another one goes, with whatever is below it here.                   *)
PullDelete(x) ==
  /\ x \in There /\ entry[x].uid # 0 /\ entry[x].scope \notin ended
  /\ Carried(x) = {}
  /\ IF entry[x].dirty
     THEN /\ entry' = [entry EXCEPT ![x].uid = 0]
          /\ UNCHANGED <<anchors, ended, queue, posted, sent, stranded, crossed>>
     ELSE Removed(Subtree(x), {})
  /\ UNCHANGED acts

BookNext ==
  \/ \E x \in Node :
       CreateRow(x) \/ MoveRow(x) \/ RestoreRow(x) \/ Purge(x) \/ SendRow(x) \/ PullDelete(x)
  \/ \E n \in Note : TrashNote(n)
  \/ \E f \in Collection : Share(f) \/ Unshare(f)
  \/ EmptyTrash \/ Sweep \/ DrainQueue \/ OthersDelete

BookSpec == BookInit /\ [][BookNext]_bookVars

-----------------------------------------------------------------------------
(* What a row left behind on the server goes: an item there is carried by    *)
(* the row it was made for, in that row's space, or its deletion is queued,  *)
(* however the row was moved, shared, restored or deleted; and no row's own  *)
(* item is queued.  Set aside are rows that go with a folder unannounced     *)
(* (rehome_folder_subtree, trash::empty, queue_tombstone).                   *)
NothingLeftBehind ==
  /\ \A i \in posted :
       \/ entry[i.node].uid = i.uid /\ entry[i.node].scope = i.scope
       \/ [uid |-> i.uid, scope |-> i.scope] \in queue
       \/ i.uid \in stranded
  /\ \A x \in Node, t \in queue : entry[x].uid # t.uid

(* Outside the trash a row is in the space of the folder it is in, and the   *)
(* root of a share in its own: nothing in a shared folder stays private and  *)
(* nothing private is shared.  Set aside are the roots of shares that were   *)
(* taken into another space with the folder they were in, or that stopped    *)
(* being shared inside another share (rehome_folder_subtree,                 *)
(* detach_owner_share), with what was below them.                            *)
ScopesFollowFolders ==
  \A x \in There \ crossed :
    entry[x].in = "trash" \/ entry[x].scope = IF x \in anchors THEN x ELSE ScopeOf(entry[x].in)

(* A note with unsent changes does not go unless its user deletes it (docs/  *)
(* sync-and-sharing.md:85, claim.rs:63).                                     *)
UnsentNotesStay ==
  [][acts' = acts => \A n \in Note : entry[n].in # "none" /\ entry[n].dirty => entry'[n].in # "none"]_bookVars
=============================================================================
