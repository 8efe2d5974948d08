---------------------------- MODULE ReceivedFolders ----------------------------
(* The folders that others share with an account, on one device of it: the   *)
(* list of what changed that opens a sync (sync/changes.rs), the pull of    *)
(* each folder (sync/scopes.rs), the removal of the ones the account lost    *)
(* (sharing/revoke.rs), and the cursor the sync keeps when it is done       *)
(* (sync/mod.rs).  Syncs run one at a time (scheduler.rs); leaving a folder  *)
(* does not wait for them, and the server's members act in between.  A       *)
(* folder's content is the change number it was pulled at; single rows, and  *)
(* the rows one space waits for another to let go, are DeviceRows'.          *)
EXTENDS SequencesExt

CONSTANTS
  Folder,      \* the shared folders
  MaxChanges,  \* bound: changes on the server
  MaxActs      \* bound: folders edited, and left, on the device

NoFolder == "none"

ASSUME ReceivedFoldersAssumption ==
  IsFiniteSet(Folder) /\ NoFolder \notin Folder /\ {MaxChanges, MaxActs} \subseteq Nat

VARIABLES
  share,    \* on the server: whether the account is a member, when the
            \* folder last changed, and when it was lost
  now,      \* the server's last change number
  copy,     \* on the device: rows that are "none", a "part" or "whole", and
            \* the folder's own cursor
  rooted,   \* folders whose root says it is shared (share_id)
  work,     \* folders with rows to send
  cursor,   \* the account's cursor, 0 for none
  run,      \* the sync that runs
  leaving,  \* the leave that runs
  astray,   \* folders that may stay incomplete until they change again
  did       \* edits and leaves so far

folderVars == <<share, now, copy, rooted, work, cursor, run, leaving, astray, did>>
serverVars == <<share, now>>

AtRest == [at |-> "idle", full |-> FALSE, next |-> 0, live |-> {}, gone |-> {}, todo |-> <<>>,
         open |-> {}, folder |-> NoFolder, upTo |-> 0, fresh |-> FALSE, complete |-> TRUE]
Nothing == [rows |-> "none", upTo |-> 0]

(* Every folder is shared; the device has heard of the oldest ones.          *)
Order == SetToSeq(Folder)
Number(f) == CHOOSE i \in DOMAIN Order : Order[i] = f

FoldersInit ==
  /\ share = [f \in Folder |-> [in |-> TRUE, at |-> Number(f), lost |-> 0]]
  /\ now = Len(Order)
  /\ cursor \in 0 .. now
  /\ copy = [f \in Folder |-> IF Number(f) <= cursor
                               THEN [rows |-> "whole", upTo |-> Number(f)] ELSE Nothing]
  /\ rooted = {f \in Folder : Number(f) <= cursor}
  /\ work = {} /\ astray = {}
  /\ run = AtRest
  /\ leaving = [at |-> "idle", folder |-> NoFolder]
  /\ did = 0

-----------------------------------------------------------------------------
(* The server.  A change of the content, and one of the members, moves the   *)
(* folder past every cursor; deleting it takes its members out.              *)
Moved(f, in) ==
  /\ now < MaxChanges
  /\ now' = now + 1
  /\ share' = [share EXCEPT ![f] =
       [in |-> in, at |-> now + 1, lost |-> IF in THEN 0 ELSE now + 1]]

OthersAct(f) ==
  /\ \E in \in BOOLEAN : (share[f].in \/ in) /\ Moved(f, in)
  /\ UNCHANGED <<copy, rooted, work, cursor, run, leaving, astray, did>>

(* list_collections: the members' folders past the cursor, oldest first, one *)
(* to a page, and with a cursor the folders that were lost since.            *)
Listed(from) == {f \in Folder : share[f].in /\ share[f].at > from}
Lost(from) == {f \in Folder : from > 0 /\ share[f].lost > from}
Oldest(folders) == {CHOOSE f \in folders : \A g \in folders : share[f].at <= share[g].at}
NextCursor(page, done, from) ==
  Max({from} \cup {share[f].at : f \in page}
             \cup (IF done THEN {share[f].lost : f \in Lost(from)} ELSE {}))

-----------------------------------------------------------------------------
(* A run.  list_changes asks page by page, first with the account's        *)
(* cursor.  Without an answer the sync ends.                                *)
Asking == IF run.at = "idle"
          THEN [AtRest EXCEPT !.at = "list", !.full = (cursor = 0), !.next = cursor]
          ELSE run

ListPage ==
  LET from == Asking.next
      listed == Listed(from)
      page == IF listed = {} THEN {} ELSE Oldest(listed)
      done == listed = page
  IN /\ run.at \in {"idle", "list"}
     /\ run' = [Asking EXCEPT
          !.next = NextCursor(page, done, from),
          !.live = @ \cup page, !.todo = @ \o SetToSeq(page), !.gone = @ \cup Lost(from),
          !.at = IF done THEN "visit" ELSE "list"]
     /\ UNCHANGED <<serverVars, copy, rooted, work, cursor, leaving, astray, did>>
NoAnswer ==
  /\ run.at = "list"
  /\ run' = AtRest
  /\ UNCHANGED <<serverVars, copy, rooted, work, cursor, leaving, astray, did>>

(* scopes_to_fetch: the folders with work the server did not name.           *)
AddWork ==
  /\ run.at = "visit" /\ ~run.full /\ run.todo = <<>> /\ run.folder = NoFolder
  /\ LET changed == run.live \cup run.gone
     IN run' = [run EXCEPT !.at = "work", !.todo = SetToSeq(work \ changed)]
  /\ UNCHANGED <<serverVars, copy, rooted, work, cursor, leaving, astray, did>>

(* pull_one_scope: what changed since the folder's cursor is fetched.  A     *)
(* folder that is gone, or is not reached, keeps the account's cursor back.  *)
FetchFolder ==
  LET f == Head(run.todo)
      rest == [run EXCEPT !.todo = Tail(@)]
  IN /\ run.todo # <<>> /\ run.at \in {"visit", "work"} /\ run.folder = NoFolder
     /\ \/ /\ share[f].in
           /\ run' = [rest EXCEPT !.folder = f, !.upTo = share[f].at,
                                   !.fresh = (copy[f].upTo = 0)]
        \/ run' = [rest EXCEPT !.complete = FALSE]
     /\ UNCHANGED <<serverVars, copy, rooted, work, cursor, leaving, astray, did>>

(* and applied, whatever became of the rows since.  The root is stamped when *)
(* it is there (project_shared_root).                                        *)
Concluded == [run EXCEPT !.folder = NoFolder, !.upTo = 0, !.fresh = FALSE]

ApplyFolder ==
  LET f == run.folder
      whole == run.fresh \/ copy[f].rows = "whole"
  IN /\ f # NoFolder
     /\ copy' = [copy EXCEPT ![f] = [rows |-> IF whole THEN "whole" ELSE "part",
                                     upTo |-> run.upTo]]
     /\ \/ rooted' = rooted \cup {f}
        \/ ~whole /\ UNCHANGED rooted
     /\ astray' = IF run.fresh THEN astray \ {f} ELSE astray
     /\ run' = [Concluded EXCEPT !.open = @ \cup {f}]
     /\ UNCHANGED <<serverVars, work, cursor, leaving, did>>

(* The connection breaks between two batches: the folder's cursor stays.     *)
PullBreaks ==
  LET f == run.folder
  IN /\ f # NoFolder
     /\ copy' = [copy EXCEPT ![f].rows = IF @ = "none" THEN "part" ELSE @]
     /\ run' = [Concluded EXCEPT !.complete = FALSE]
     /\ UNCHANGED <<serverVars, rooted, work, cursor, leaving, astray, did>>

(* purge_local_scope.                                                        *)
Purged(folders) ==
  /\ copy' = [f \in Folder |-> IF f \in folders THEN Nothing ELSE copy[f]]
  /\ rooted' = rooted \ folders
  /\ work' = work \ folders

(* reconcile_revoked_shares after a full list, purge_lost_shares after       *)
(* another.  A folder that was lost and given back between two pages is      *)
(* purged after its pull.                                                    *)
PurgeLost ==
  LET lost == IF run.full THEN rooted \ run.live ELSE rooted \cap run.gone
  IN /\ run.at = (IF run.full THEN "visit" ELSE "work")
     /\ run.todo = <<>> /\ run.folder = NoFolder
     /\ Purged(lost)
     /\ astray' = (astray \ lost)
                  \cup {f \in lost : share[f].in /\ share[f].at <= run.next}
     /\ run' = [run EXCEPT !.at = "push"]
     /\ UNCHANGED <<serverVars, cursor, leaving, did>>

(* push_scopes: the server takes it, or it waits.                            *)
PushFolder(f) ==
  /\ run.at = "push" /\ f \in run.open \cap work
  /\ \/ share[f].in /\ Moved(f, TRUE) /\ work' = work \ {f}
     \/ UNCHANGED <<serverVars, work>>
  /\ run' = [run EXCEPT !.open = @ \ {f}]
  /\ UNCHANGED <<copy, rooted, cursor, leaving, astray, did>>

(* The cursor moves last, and as far as the list went.                       *)
KeptAnyway == run.next
Kept == IF run.complete THEN run.next ELSE cursor

EndSync ==
  /\ run.at = "push" /\ run.open \cap work = {}
  /\ cursor' = Kept
  /\ run' = AtRest
  /\ UNCHANGED <<serverVars, copy, rooted, work, leaving, astray, did>>

(* The program ends; Db::open forgets the cursor.                            *)
Reopened ==
  /\ cursor # 0 \/ run # AtRest
  /\ cursor' = 0
  /\ run' = AtRest
  /\ leaving' = [at |-> "idle", folder |-> NoFolder]
  /\ UNCHANGED <<serverVars, copy, rooted, work, astray, did>>

-----------------------------------------------------------------------------
(* The user edits, and leaves a folder (leave_shared_collection): the        *)
(* membership is given up, or the request fails, and the rows go.            *)
EditFolder(f) ==
  /\ copy[f].rows # "none" /\ f \notin work
  /\ did < MaxActs
  /\ did' = did + 1
  /\ work' = work \cup {f}
  /\ UNCHANGED <<serverVars, copy, rooted, cursor, run, leaving, astray>>

BeginLeave(f) ==
  /\ leaving.at = "idle" /\ copy[f].rows # "none"
  /\ did < MaxActs
  /\ did' = did + 1
  /\ leaving' = [at |-> "purge", folder |-> f]
  /\ \/ share[f].in /\ Moved(f, FALSE)
     \/ UNCHANGED serverVars
  /\ UNCHANGED <<copy, rooted, work, cursor, run, astray>>

(* A member's folder is back when it changes, or after a restart; a pull     *)
(* that was fetched before applies to nothing.                               *)
PurgeLeft ==
  LET f == leaving.folder
  IN /\ leaving.at = "purge"
     /\ Purged({f})
     /\ astray' = IF share[f].in \/ run.folder = f THEN astray \cup {f} ELSE astray \ {f}
     /\ leaving' = [at |-> "idle", folder |-> NoFolder]
     /\ UNCHANGED <<serverVars, cursor, run, did>>

FoldersNext ==
  \/ \E f \in Folder : OthersAct(f) \/ PushFolder(f) \/ EditFolder(f) \/ BeginLeave(f)
  \/ ListPage \/ NoAnswer \/ AddWork \/ FetchFolder \/ ApplyFolder \/ PullBreaks \/ PurgeLost \/ EndSync
  \/ Reopened \/ PurgeLeft

FoldersSpec == FoldersInit /\ [][FoldersNext]_folderVars

-----------------------------------------------------------------------------
(* A device that has heard of everything holds every folder it is a member   *)
(* of, whole and up to date, and nothing of a folder it lost, whatever       *)
(* changed during its syncs and however often they broke off (changes.rs:7,  *)
(* :9; mod.rs:544).  What may go astray is named where it does, and so is a  *)
(* first pull that broke off before the root was stamped and whose folder    *)
(* was then lost: local_received_scopes does not see its rows.               *)
HeardEverything ==
  /\ run.at = "idle" /\ leaving.at = "idle" /\ cursor > 0
  /\ Listed(cursor) = {} /\ Lost(cursor) = {}
HoldsWhatItShares ==
  HeardEverything =>
    \A f \in Folder \ astray :
      IF share[f].in THEN copy[f].rows = "whole" /\ copy[f].upTo = share[f].at
      ELSE copy[f].rows = "none" \/ f \notin rooted
=============================================================================
