----------------------------- MODULE NoteImages -----------------------------
(* The images of the notes on one device (assets.rs of the storage, and the  *)
(* part of sharing.rs that takes them along): which notes refer to an image, *)
(* which one it was made for, the space it is in, and when it goes.  The     *)
(* same bytes are stored once per space; a note that goes to another space   *)
(* takes its images along, and gets a copy of one that others keep.  Here    *)
(* every image has the same bytes.                                           *)
EXTENDS Integers, FiniteSetsExt

CONSTANTS
  Picture,       \* the notes that have images
  MaxImages,     \* bound: images ever stored
  MaxUploads,    \* bound: items ever made of them
  MaxImageActs   \* bound: commands

ASSUME ImagesAssumption ==
  /\ IsFiniteSet(Picture) /\ "unowned" \notin Picture
  /\ {MaxImages, MaxUploads, MaxImageActs} \subseteq Nat

VARIABLES
  note,      \* a note: whether it is there, its space, the images its text
             \* and its versions name, and what an open editor has
  image,     \* the image rows, by id
  refs,      \* asset_refs
  remaps,    \* asset_id_remaps
  queued, deleted,   \* the items to be deleted; those that are
  uploads, imageActs,
  lost       \* images the code gives up while a note names them

imageVars == <<note, image, refs, remaps, queued, deleted, uploads, imageActs, lost>>

Ids == 1 .. MaxImages
Unowned == "unowned"

(* An id that is not given to an image yet, and one whose image went: no id  *)
(* is given twice.                                                           *)
NoImage == [there |-> FALSE, made |-> FALSE, owner |-> Unowned, space |-> "vault", item |-> 0, dirty |-> FALSE]
Gone == [NoImage EXCEPT !.made = TRUE]
Closed == {0}   \* no editor is open

ImagesInit ==
  /\ note = [n \in Picture |->
       [there |-> TRUE, space |-> "vault", body |-> {}, past |-> {}, open |-> Closed]]
  /\ image = [i \in Ids |-> NoImage]
  /\ refs = {} /\ remaps = {} /\ queued = {} /\ deleted = {}
  /\ uploads = 0 /\ imageActs = 0 /\ lost = {}

Stored(img) == {i \in Ids : img[i].there}
Free(img) == {i \in Ids : ~img[i].made}
IsOpen(n) == note[n].there /\ note[n].open # Closed
ImageAct == imageActs < MaxImageActs /\ imageActs' = imageActs + 1

(* Where the redirects of a note lead to, from some ids.                     *)
Targets(ms, n, ids) == {m[3] : m \in {r \in ms : r[1] = n /\ r[2] \in ids}}

(* normalize_asset_ids_for_note: the redirects one after the other, by their *)
(* old ids.  Ids are random: that one is less says nothing of its age.       *)
Normal(t, n, ids) ==
  LET named[k \in 0 .. MaxImages] ==
        IF k = 0 THEN ids
        ELSE LET to == Targets(t.remaps, n, {k} \cap named[k - 1])
             IN IF to = {} THEN named[k - 1] ELSE (named[k - 1] \ {k}) \cup to
  IN named[MaxImages]

InPlace(n, i) == image[i].there /\ image[i].space = note[n].space

(* What a note has for its editor alone: the ids an open text names, and     *)
(* those its redirects lead to, that no stored text or version names.        *)
Edited(n) ==
  ((note[n].open \ Closed) \cup Targets(remaps, n, Ids)) \ (note[n].body \cup note[n].past)

(* Such an image is lost if it goes or parts with the note, and with an      *)
(* image the old ids that an editor still has for it.                        *)
Taken ==
  UNION {{i \in Edited(n) : InPlace(n, i) /\ ~InPlace(n, i)'}
           \cup {i \in note[n].open \ Closed :
                   /\ ~InPlace(n, i)'
                   /\ \E j \in Targets(remaps, n, {i}) : ~image'[j].there}
         : n \in {m \in Picture : note'[m].there}}
Same == UNCHANGED <<deleted, uploads>> /\ lost' = lost \cup Taken

(* What the tables hold; an operation is a function of them.                 *)
Tables == [note |-> note, image |-> image, refs |-> refs, remaps |-> remaps, queued |-> queued]
Become(t) ==
  /\ note' = t.note /\ image' = t.image /\ refs' = t.refs
  /\ remaps' = t.remaps /\ queued' = t.queued

(* A row of `assets` goes, and by its foreign keys what names it.            *)
DropImage(t, i) ==
  [t EXCEPT !.image[i] = Gone,
            !.refs = {r \in @ : r[1] # i},
            !.remaps = {m \in @ : m[3] # i}]

(* delete_asset                                                              *)
DeleteImage(t, i) ==
  [DropImage(t, i) EXCEPT !.queued = IF t.image[i].item = 0 THEN @ ELSE @ \cup {t.image[i].item}]

(* DELETE FROM notes, with what its foreign keys do.                         *)
DropNote(t, n) ==
  [t EXCEPT !.note[n] = [@ EXCEPT !.there = FALSE, !.body = {}, !.past = {}, !.open = Closed],
            !.refs = {r \in @ : r[2] # n},
            !.remaps = {m \in @ : m[1] # n},
            !.image = [i \in Ids |-> IF @[i].owner = n THEN [@[i] EXCEPT !.owner = Unowned] ELSE @[i]]]

(* store_deduped: the image an editor is given for a file.                   *)
InSpace(t, space) == {i \in Stored(t.image) : t.image[i].space = space}

Inserted(t, i, n) ==
  [t EXCEPT !.note[n].open = @ \cup {i}, !.refs = @ \cup {<<i, n>>},
            !.image[i] = IF @.there THEN @
              ELSE [Gone EXCEPT !.there = TRUE, !.owner = n, !.space = t.note[n].space, !.dirty = TRUE]]

Insert(n) ==
  /\ ImageAct /\ IsOpen(n)
  /\ LET same == InSpace(Tables, note[n].space)
     IN \E i \in IF same # {} THEN same ELSE Free(image) :
          Become(Inserted(Tables, i, n))
  /\ Same

(* A note is opened, or what is in an editor copied, cut or brought back     *)
(* from a version; from notes of the same space.                             *)
Open(n) ==
  /\ note[n].there /\ ~IsOpen(n)
  /\ note' = [note EXCEPT ![n].open = note[n].body]
  /\ UNCHANGED <<image, refs, remaps, queued, imageActs>> /\ Same

EditText(n) ==
  /\ ImageAct /\ IsOpen(n)
  /\ \/ \E m \in Picture \ {n} :
          /\ note[m].space = note[n].space
          /\ \E i \in note[m].body : note' = [note EXCEPT ![n].open = @ \cup {i}]
     \/ \E i \in note[n].open : note' = [note EXCEPT ![n].open = @ \ {i}]
     \/ note[n].past # {} /\ note' = [note EXCEPT ![n].open = note[n].past]
  /\ UNCHANGED <<image, refs, remaps, queued>> /\ Same

(* As when an editor's text was stored as it is.                             *)
SavedAsIs(t, n) ==
  LET ids == t.note[n].open
  IN [t EXCEPT !.note[n].body = ids,
               !.refs = @ \cup {<<i, n>> : i \in ids \cap Stored(t.image)}]

(* update, with register_body_refs.                                          *)
Saved(t, n) ==
  LET ids == Normal(t, n, t.note[n].open)
  IN [t EXCEPT !.note[n].body = ids,
               !.refs = @ \cup {<<i, n>> : i \in ids \cap Stored(t.image)}]

Save(n) == IsOpen(n) /\ Become(Saved(Tables, n)) /\ UNCHANGED imageActs /\ Same

(* The editor saves as it closes.                                            *)
CloseEditor(n) ==
  /\ IsOpen(n)
  /\ Become([Saved(Tables, n) EXCEPT !.note[n].open = Closed])
  /\ UNCHANGED imageActs /\ Same

(* insert_prepared: a version keeps what the note names; pruning drops them. *)
TakeVersion(n) ==
  /\ note[n].there
  /\ \/ note' = [note EXCEPT ![n].past = @ \cup note[n].body]
     \/ note' = [note EXCEPT ![n].past = {}]
  /\ UNCHANGED <<image, refs, remaps, queued, imageActs>> /\ Same

-----------------------------------------------------------------------------
(* Notes that go to another space.                                           *)

Referrers(t, i) == {n \in Picture : <<i, n>> \in t.refs}

(* The image goes along, under its own id.                                   *)
TakenAlong(t, i, with, space) ==
  [t EXCEPT
     !.queued = IF t.image[i].item = 0 THEN @ ELSE @ \cup {t.image[i].item},
     !.image[i] = [@ EXCEPT !.space = space, !.item = 0, !.dirty = TRUE,
                            !.owner = CHOOSE n \in with : TRUE]]

(* record_asset_remap                                                        *)
Remapped(ms, n, old, new) ==
  {IF m[1] = n /\ m[3] = old THEN <<n, m[2], new>> ELSE m : m \in {r \in ms : <<r[1], r[2]>> # <<n, old>>}}
    \cup {<<n, old, new>>}

Renamed(ids, old, new) == IF old \in ids THEN (ids \ {old}) \cup {new} ELSE ids

(* rewrite_note_asset_id, for a note and its versions.                       *)
Rewritten(t, n, old, new) ==
  [t EXCEPT !.note[n].body = Renamed(@, old, new), !.note[n].past = Renamed(@, old, new),
            !.remaps = Remapped(@, n, old, new),
            !.refs = (@ \ {<<old, n>>}) \cup {<<new, n>>}]

(* Others keep the image: those that go get a copy.                          *)
Copied(t, i, with, space, fresh) ==
  LET found == InSpace(t, space)
      new == IF found # {} THEN CHOOSE j \in found : TRUE ELSE fresh
      made == IF found # {} THEN t
              ELSE [t EXCEPT !.image[new] = [Gone EXCEPT !.there = TRUE, !.dirty = TRUE,
                      !.space = space, !.owner = CHOOSE n \in with : TRUE]]
      stay == Referrers(t, i) \ with
      named == FoldSet(LAMBDA n, u : Rewritten(u, n, i, new), made, with)
  IN [named EXCEPT !.image[i] =
        IF t.image[i].owner \in with \cup {Unowned}
        THEN [@ EXCEPT !.owner = CHOOSE n \in stay : TRUE, !.dirty = TRUE] ELSE @]

(* rehome_assets_for_notes; an image nobody refers to is its owner's.        *)
Anchored(t, i) ==
  LET owner == t.image[i].owner
  IN IF Referrers(t, i) = {} /\ owner # Unowned THEN [t EXCEPT !.refs = @ \cup {<<i, owner>>}] ELSE t

ImageMoved(t, i, moving, space, fresh) ==
  LET u == Anchored(t, i)
      with == Referrers(u, i) \cap moving
  IN IF t.image[i].space = space THEN t
     ELSE IF with = {} THEN u
     ELSE IF Referrers(u, i) \subseteq moving THEN TakenAlong(u, i, with, space)
     ELSE Copied(u, i, with, space, fresh)

ImagesOf(t, moving) ==
  {i \in Stored(t.image) : t.image[i].owner \in moving \/ Referrers(t, i) \cap moving # {}}

NotesMoved(moving, space, fresh) ==
  LET t == [Tables EXCEPT !.note = [n \in Picture |->
              IF n \in moving THEN [@[n] EXCEPT !.space = space] ELSE @[n]]]
  IN FoldSet(LAMBDA i, u : ImageMoved(u, i, moving, space, fresh), t, ImagesOf(t, moving))

(* rehome_note_subtree, rehome_folder_subtree.  The images being the same,   *)
(* at most one copy is made, under the id `fresh`.                           *)
MoveNotes ==
  \E moving \in SUBSET {n \in Picture : note[n].there}, space \in {"vault", "shared"}, fresh \in Free(image) :
    /\ ImageAct /\ moving # {} /\ \A n \in moving : note[n].space # space
    /\ Become(NotesMoved(moving, space, fresh))
    /\ Same

-----------------------------------------------------------------------------
(* Notes that go.                                                            *)

(* release_note_assets                                                       *)
ReleasedOne(t, i, n) ==
  IF Referrers(t, i) = {} THEN DeleteImage(t, i)
  ELSE IF t.image[i].owner = n
  THEN [t EXCEPT !.image[i] = [@ EXCEPT !.owner = CHOOSE m \in Referrers(t, i) : TRUE, !.dirty = TRUE]]
  ELSE t

Released(t, n) ==
  LET freed == [t EXCEPT !.refs = {r \in @ : r[2] # n}]
  IN FoldSet(LAMBDA i, u : ReleasedOne(u, i, n), freed, ImagesOf(t, {n}))

(* notes::purge                                                              *)
PurgeNote(n) ==
  /\ ImageAct /\ note[n].there
  /\ Become(DropNote(Released(Tables, n), n)) /\ Same

(* collections::delete: the note goes with its folder.                       *)
DeleteFolderOf(n) ==
  /\ ImageAct /\ note[n].there
  /\ Become(DropNote(Tables, n)) /\ Same

(* trash::empty, sweep: the images made for the note have their items        *)
(* deleted, whoever else refers to them.                                     *)
EmptyTrashOf(n) ==
  LET made == {i \in Stored(image) : image[i].owner = n}
  IN
  /\ ImageAct /\ note[n].there
  /\ Become([DropNote(Tables, n) EXCEPT !.queued = @ \cup ({image[i].item : i \in made} \ {0})])
  /\ lost' = lost \cup {i \in made : image[i].item # 0}
  /\ UNCHANGED <<deleted, uploads>>

(* sweep_unreferenced_markdown_assets_inner: references are those of texts   *)
(* and versions, and an image without one goes.                              *)
Counted(t, n) == t.note[n].body \cup t.note[n].past

SweptNote(t, n) ==
  LET before == ImagesOf(t, {n})
      counted == [t EXCEPT !.refs = {r \in @ : r[2] # n}
                     \cup {<<i, n>> : i \in Counted(t, n) \cap Stored(t.image)}]
      gone == {i \in before \ Counted(t, n) : Referrers(counted, i) = {}}
  IN FoldSet(LAMBDA i, u : DeleteImage(u, i), counted, gone)

Swept(t) ==
  LET each == FoldSet(LAMBDA n, u : SweptNote(u, n), t, {n \in Picture : t.note[n].there})
      orphans == {i \in Stored(each.image) : each.image[i].owner = Unowned /\ Referrers(each, i) = {}}
  IN FoldSet(LAMBDA i, u : DeleteImage(u, i), each, orphans)

(* It runs as the main window begins, beside the editors.                    *)
SweepImages ==
  /\ Become(Swept(Tables)) /\ Swept(Tables) # Tables
  /\ UNCHANGED imageActs /\ Same

-----------------------------------------------------------------------------
(* push_assets, drain_tombstones and apply_remote_delete.                    *)
PushImage(i) ==
  /\ image[i].there /\ image[i].dirty
  /\ IF image[i].item = 0
     THEN /\ uploads < MaxUploads /\ uploads' = uploads + 1
          /\ image' = [image EXCEPT ![i].item = uploads + 1, ![i].dirty = FALSE]
     ELSE image' = [image EXCEPT ![i].dirty = FALSE] /\ UNCHANGED uploads
  /\ UNCHANGED <<note, refs, remaps, queued, deleted, imageActs, lost>>

DrainImage ==
  \E u \in queued :
    /\ queued' = queued \ {u} /\ deleted' = deleted \cup {u}
    /\ UNCHANGED <<note, image, refs, remaps, uploads, imageActs, lost>>

PullImageDelete(i) ==
  /\ image[i].there /\ image[i].item \in deleted
  /\ IF image[i].dirty THEN Become([Tables EXCEPT !.image[i].item = 0]) ELSE Become(DropImage(Tables, i))
  /\ UNCHANGED imageActs /\ Same

ImagesNext ==
  \/ \E n \in Picture :
       \/ Open(n) \/ Insert(n) \/ EditText(n) \/ Save(n) \/ CloseEditor(n) \/ TakeVersion(n)
       \/ PurgeNote(n) \/ DeleteFolderOf(n) \/ EmptyTrashOf(n)
  \/ MoveNotes \/ SweepImages
  \/ \E i \in Ids : PushImage(i) \/ PullImageDelete(i)
  \/ DrainImage

(* Every image that a note's text or a version of it names is there and in   *)
(* the note's own space, whichever notes it was shared with, moved away from *)
(* or outlived, and however late an editor saves a text from before a move.  *)
(* Set aside are images whose items the trash deletes although others refer  *)
(* to them (trash::empty), those taken from under an editor that has not     *)
(* saved (assets.rs:697), and those that a redirect still leads to when the  *)
(* note leaves them behind (record_asset_remap; see LateSavesResolve).       *)
ImagesStay ==
  \A n \in Picture : note[n].there =>
    \A i \in note[n].body \cup note[n].past : i \in lost \/ InPlace(n, i)

(* "A late save resolves to the blob's current id" in the note's current     *)
(* scope (assets.rs:382): an image of this space that an editor names is one *)
(* of this space when it is saved.  The code breaks this.                    *)
LateSavesResolve ==
  \A n \in Picture : IsOpen(n) =>
    \A i \in note[n].open : InPlace(n, i) => \A j \in Normal(Tables, n, {i}) : InPlace(n, j)
=============================================================================
