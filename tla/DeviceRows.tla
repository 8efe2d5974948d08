----------------------------- MODULE DeviceRows -----------------------------
(***************************************************************************)
(* One note as the devices of one account hold it, and what a sync does to *)
(* it.  The note has one id wherever it is.  It can be at home in the      *)
(* account's vault or in a folder the account shares, which is a space of  *)
(* its own with items of its own, so a note that moves is deleted as an    *)
(* item of one space and created as an item of the other.  Several items   *)
(* can therefore name one row, and what may write the row is decided when  *)
(* they are pulled.                                                        *)
(*                                                                         *)
(* A sync asks once what changed, pulls each space that did, tries again   *)
(* what a row at home elsewhere refused, sends deletions, then what is     *)
(* new.  Between any two of its requests the user and the other devices    *)
(* go on.  A request can fail, its answer can be lost, and the app can     *)
(* stop.                                                                   *)
(*                                                                         *)
(* A text is the set of the edits in it: merging texts is their union.     *)
(* The edits are numbered by the user's actions.                           *)
(***************************************************************************)
EXTENDS Integers, FiniteSets, SequencesExt

CONSTANTS
  Device,
  Kinds,        \* what users do: a subset of {"edit", "move", "delete", "stop"}
  MaxHolds,     \* how many syncs a space's cursor waits for a refused item
  MaxOps,       \* bound: how often a user does something
  MaxUid,       \* bound: how many items are ever created
  MaxFaults     \* bound: how often a request fails or the app stops

ASSUME RowsAssumption == {MaxHolds, MaxOps, MaxUid, MaxFaults} \subseteq Nat

VARIABLES
  \* the server
  items,        \* every item of the note, in the order they were created
  newest,      \* the number of the last change
  last,         \* the number of the last change in each space
  closed,       \* the shared folder's collection is deleted
  \* the devices
  row,          \* the note's row
  tomb,         \* the deletions that wait to be sent
  shared,       \* the folder is a shared one on this device
  cur,          \* the cursor of each space
  acur,         \* the account's cursor
  held,         \* how many syncs each cursor has waited
  sync,         \* the sync that runs
  \* how much has happened
  ops, faults

server == <<items, newest, last, closed>>
store == <<row, tomb, shared, cur, acur, held>>
rowVars == <<server, store, sync, ops, faults>>

Home == {"vault", "share"}

NoRow == [home |-> "none", uid |-> 0, text |-> {}, dirty |-> FALSE,
          released |-> FALSE, rev |-> 0]

NoCursor == -1

NoPush == [prev |-> 0, uid |-> 0, text |-> {}, rev |-> 0, base |-> 0]

NoSync == [at |-> <<"idle", "all">>, share |-> "unnamed", stoken |-> 0, open |-> {},
         complete |-> TRUE, refused |-> [s \in Home |-> <<>>],
         reached |-> [s \in Home |-> 0], push |-> NoPush]

RowsInit ==
  /\ items = <<>> /\ newest = 0 /\ last = [s \in Home |-> 0] /\ closed = FALSE
  /\ row = [d \in Device |-> NoRow]
  /\ tomb = [d \in Device |-> {}]
  /\ shared = [d \in Device |-> TRUE]
  /\ cur = [d \in Device |-> [s \in Home |-> 0]]
  /\ acur = [d \in Device |-> NoCursor]
  /\ held = [d \in Device |-> [s \in Home |-> 0]]
  /\ sync = [d \in Device |-> NoSync]
  /\ ops = 0 /\ faults = 0

-----------------------------------------------------------------------------
(* What a user does.  Each is one transaction on the local database.       *)
Does(kind) ==
  /\ kind \in Kinds
  /\ ops > 0 /\ ops < MaxOps
  /\ ops' = ops + 1

Create(d, s) ==
  /\ ops = 0 /\ ops' = 1
  /\ row' = [row EXCEPT ![d] = [home |-> s, uid |-> 0, text |-> {1}, dirty |-> TRUE,
                                released |-> FALSE, rev |-> 1]]
  /\ UNCHANGED <<server, tomb, shared, cur, acur, held, sync, faults>>

Edit(d) ==
  /\ Does("edit")
  /\ row[d] # NoRow
  /\ row' = [row EXCEPT ![d].text = @ \cup {ops'}, ![d].dirty = TRUE, ![d].rev = ops']
  /\ UNCHANGED <<server, tomb, shared, cur, acur, held, sync, faults>>

(* The deletion of the row's item, if it has one, queued for its space.    *)
Retired(r) == IF r.uid = 0 THEN {} ELSE {[uid |-> r.uid, space |-> r.home]}

(* A row leaves the space it is in: its item there is queued for deletion, *)
(* and it waits to be created in the other.                                *)
Rehome(d, s, rev) ==
  /\ tomb' = [tomb EXCEPT ![d] = @ \cup Retired(row[d])]
  /\ row' = [row EXCEPT ![d] = [@ EXCEPT !.home = s, !.uid = 0, !.dirty = TRUE,
                                         !.released = FALSE, !.rev = rev]]

Move(d, s) ==
  /\ Does("move")
  /\ row[d] # NoRow /\ row[d].home # s
  /\ s = "share" => shared[d]
  /\ Rehome(d, s, ops')
  /\ UNCHANGED <<server, shared, cur, acur, held, sync, faults>>

Delete(d) ==
  /\ Does("delete")
  /\ row[d] # NoRow
  /\ tomb' = [tomb EXCEPT ![d] = @ \cup Retired(row[d])]
  /\ row' = [row EXCEPT ![d] = NoRow]
  /\ UNCHANGED <<server, shared, cur, acur, held, sync, faults>>

(* The folder is a personal one again, here first; then its collection is  *)
(* deleted, which may fail.  This is not an edit: a row keeps its rev.     *)
StopSharing(d, reaches) ==
  /\ Does("stop")
  /\ shared[d]
  /\ shared' = [shared EXCEPT ![d] = FALSE]
  /\ IF row[d].home = "share" THEN Rehome(d, "vault", row[d].rev) ELSE UNCHANGED <<row, tomb>>
  /\ IF reaches /\ ~closed
       THEN /\ closed' = TRUE
            /\ newest' = newest + 1
            /\ last' = [last EXCEPT !["share"] = newest']
       ELSE UNCHANGED <<closed, newest, last>>
  /\ UNCHANGED <<items, cur, acur, held, sync, faults>>

-----------------------------------------------------------------------------
(* Where a sync is: a step, and the space it is about.                     *)
At(d, step, s) == sync[d].at = <<step, s>>

Finish == <<"finish", "all">>
ToVaultPush(open) == IF "vault" \in open THEN <<"fetch", "vault">> ELSE Finish
ToDrainShare(open) == IF "share" \in open THEN <<"drain", "share">> ELSE ToVaultPush(open)
ToDrains(open) == IF "vault" \in open THEN <<"drain", "vault">> ELSE ToDrainShare(open)
AfterDrain(s, open) == IF s = "vault" THEN ToDrainShare(open) ELSE <<"fetch", "share">>
AfterPush(s, open) == IF s = "share" THEN ToVaultPush(open) ELSE Finish

LocalWork(d, s) ==
  \/ row[d].dirty /\ row[d].home = s
  \/ \E t \in tomb[d] : t.space = s

Named(d, s) == acur[d] = NoCursor \/ last[s] > acur[d]

(* The first request: what changed after the account's cursor, everything  *)
(* without one.                                                            *)
List(d) ==
  LET visit == Named(d, "vault") \/ LocalWork(d, "vault")
  IN  /\ sync[d] = NoSync
      /\ sync' = [sync EXCEPT ![d] =
           [NoSync EXCEPT !.at = <<"pull", IF visit THEN "vault" ELSE "share">>,
                        !.open = IF visit THEN {"vault"} ELSE {},
                        !.stoken = newest,
                        !.share = IF ~Named(d, "share") THEN "unnamed"
                                  ELSE IF closed THEN "gone" ELSE "changed"]]
      /\ UNCHANGED <<server, store, ops, faults>>

-----------------------------------------------------------------------------
(* Whether an item of space s may write row r.                             *)
MayClaim(r, s) ==
  \/ r = NoRow
  \/ r.home = s
  \/ r.uid = 0 /\ r.released

(* The row once its item is deleted on the server: an edit that was not    *)
(* sent keeps it, without an item and free for another space to claim.     *)
Deleted(r, it, s) ==
  IF r.uid # it.uid \/ r.home # s THEN r
  ELSE IF r.dirty THEN [r EXCEPT !.uid = 0, !.released = TRUE]
  ELSE NoRow

(* As when a row with unsent edits keeps the identity it has.              *)
WrittenKeepsIdentity(r, it, s) ==
  [r EXCEPT !.home = s, !.uid = IF r.dirty THEN @ ELSE it.uid,
            !.text = @ \cup it.text, !.released = FALSE]

(* As when an item's text takes the place of the row's.                    *)
WrittenOver(r, it, s) ==
  [r EXCEPT !.home = s, !.uid = it.uid, !.text = it.text, !.released = FALSE]

Written(r, it, s) ==
  [r EXCEPT !.home = s, !.uid = it.uid, !.text = @ \cup it.text, !.released = FALSE]

(* One pulled item, on top of what those before it came to.                *)
Applied(acc, it, s) ==
  IF it.gone THEN [acc EXCEPT !.row = Deleted(@, it, s)]
  ELSE IF MayClaim(acc.row, s) THEN [acc EXCEPT !.row = Written(@, it, s)]
  ELSE [acc EXCEPT !.refused = Append(@, it)]

ApplyAll(d, s, its) ==
  FoldLeft(LAMBDA acc, it : Applied(acc, it, s), [row |-> row[d], refused |-> <<>>], its)

(* As when the change next after the cursor is left out.                   *)
ChangedLate(d, s) == {u \in DOMAIN items : items[u].space = s /\ items[u].num > cur[d][s] + 1}

Changed(d, s) == {u \in DOMAIN items : items[u].space = s /\ items[u].num > cur[d][s]}

(* What a space has after the device's cursor, oldest change first.  A     *)
(* deleted collection has nothing left.                                    *)
News(d, s) ==
  LET new == Changed(d, s)
      ordered == CHOOSE q \in [1 .. Cardinality(new) -> new] :
                   \A i, j \in DOMAIN q : i < j => items[q[i]].num < items[q[j]].num
  IN  IF s = "share" /\ closed THEN <<>>
      ELSE [i \in DOMAIN ordered |->
              [uid |-> ordered[i], gone |-> items[ordered[i]].gone, text |-> items[ordered[i]].text]]

Reached(d, s) ==
  IF (s = "share" /\ closed) \/ last[s] <= cur[d][s] THEN cur[d][s] ELSE last[s]

(* As when the shared folder is visited only to send something there.      *)
VisitedToSend(d, s) == s = "vault" \/ (LocalWork(d, "share") /\ ~closed)

(* The shared folder is visited when the list named it, or when there is   *)
(* something to send to it and it is still there.                          *)
Visited(d, s) ==
  \/ s = "vault"
  \/ sync[d].share = "changed"
  \/ sync[d].share = "unnamed" /\ LocalWork(d, "share") /\ ~closed

Pulled(d, s, its) ==
  LET got == ApplyAll(d, s, its)
      here == [sync[d] EXCEPT !.at = IF s = "vault" THEN <<"pull", "share">> ELSE <<"settle", "all">>,
                              !.open = @ \cup {s}]
  IN  /\ row' = [row EXCEPT ![d] = got.row]
      /\ IF got.refused = <<>>
           THEN /\ cur' = [cur EXCEPT ![d][s] = Reached(d, s)]
                /\ sync' = [sync EXCEPT ![d] = here]
           ELSE /\ sync' = [sync EXCEPT ![d] = [here EXCEPT !.refused[s] = got.refused,
                                                            !.reached[s] = Reached(d, s)]]
                /\ UNCHANGED cur

Pull(d, s) ==
  /\ At(d, "pull", s)
  /\ Visited(d, s)
  /\ Pulled(d, s, News(d, s))
  /\ UNCHANGED <<server, tomb, shared, acur, held, ops, faults>>

(* A folder with something to send that is gone without the list saying so *)
(* keeps the account's cursor back.                                        *)
PullNothing(d) ==
  /\ At(d, "pull", "share")
  /\ ~Visited(d, "share")
  /\ sync' = [sync EXCEPT ![d].at = <<"settle", "all">>,
                          ![d].complete = @ /\ ~(sync[d].share = "unnamed" /\ LocalWork(d, "share"))]
  /\ UNCHANGED <<server, store, ops, faults>>

(* The items that were refused once more, the vault's first.  What is      *)
(* still refused holds the cursor, but not for ever.                       *)
Settle(d) ==
  LET vault == ApplyAll(d, "vault", sync[d].refused["vault"])
      both == FoldLeft(LAMBDA acc, it : Applied(acc, it, "share"),
                       [row |-> vault.row, refused |-> <<>>], sync[d].refused["share"])
      Left(s) == IF s = "vault" THEN vault.refused ELSE both.refused
      Had(s) == sync[d].refused[s] # <<>>
      Waits(s) == Had(s) /\ Left(s) # <<>> /\ held[d][s] + 1 < MaxHolds
      Moves(s) == Had(s) /\ ~Waits(s)
  IN  /\ At(d, "settle", "all")
      /\ row' = [row EXCEPT ![d] = both.row]
      /\ held' = [held EXCEPT ![d] = [s \in Home |->
                    IF Waits(s) THEN held[d][s] + 1 ELSE IF Moves(s) THEN 0 ELSE held[d][s]]]
      /\ cur' = [cur EXCEPT ![d] = [s \in Home |->
                    IF Moves(s) THEN sync[d].reached[s] ELSE cur[d][s]]]
      /\ sync' = [sync EXCEPT ![d].at = ToDrains(sync[d].open),
                              ![d].refused = NoSync.refused, ![d].reached = NoSync.reached]
      /\ UNCHANGED <<server, tomb, shared, acur, ops, faults>>

-----------------------------------------------------------------------------
Writable(s) == s = "vault" \/ ~closed

(* The deletions queued for a space.  One the server has already is sent   *)
(* again and changes nothing.                                              *)
Queued(d, s) == {t.uid : t \in {t \in tomb[d] : t.space = s}}

ServerDeletes(d, s) ==
  LET new == {u \in DOMAIN items : u \in Queued(d, s) /\ ~items[u].gone}
  IN  /\ Queued(d, s) # {} => Writable(s)
      /\ newest' = newest + Cardinality(new)
      /\ last' = IF new = {} THEN last ELSE [last EXCEPT ![s] = newest']
      /\ items' = [u \in DOMAIN items |->
           IF u \in new
             THEN [space |-> s, gone |-> TRUE, text |-> {},
                   num |-> newest + Cardinality({v \in new : v <= u})]
             ELSE items[u]]
      /\ UNCHANGED closed

Drain(d, s) ==
  /\ At(d, "drain", s) \/ At(d, "tail", s)
  /\ ServerDeletes(d, s)
  /\ tomb' = [tomb EXCEPT ![d] = {t \in @ : t.space # s}]
  /\ sync' = [sync EXCEPT ![d].at =
       IF At(d, "drain", s) THEN AfterDrain(s, sync[d].open) ELSE AfterPush(s, sync[d].open)]
  /\ UNCHANGED <<row, shared, cur, acur, held, ops, faults>>

(* The unsent row is read, and the revision the server has of its item.    *)
Fetch(d, s) ==
  /\ At(d, "fetch", s)
  /\ IF row[d].dirty /\ row[d].home = s
       THEN /\ row[d].uid # 0 => Writable(s)
            /\ sync' = [sync EXCEPT ![d].at = <<"send", s>>,
                 ![d].push = [prev |-> row[d].uid, uid |-> row[d].uid,
                              text |-> row[d].text, rev |-> row[d].rev,
                              base |-> IF row[d].uid = 0 THEN 0 ELSE items[row[d].uid].num]]
       ELSE sync' = [sync EXCEPT ![d].at = <<"tail", s>>]
  /\ UNCHANGED <<server, store, ops, faults>>

PutRow(u, it) ==
  /\ newest' = newest + 1
  /\ last' = [last EXCEPT ![it.space] = newest']
  /\ items' = IF u \in DOMAIN items THEN [items EXCEPT ![u] = it] ELSE Append(items, it)
  /\ UNCHANGED closed

(* A new item, or new content on the revision that was fetched.  Content   *)
(* put on a deleted revision leaves it deleted.                            *)
Send(d, s) ==
  LET p == sync[d].push
      u == IF p.uid = 0 THEN Len(items) + 1 ELSE p.uid
  IN  /\ At(d, "send", s)
      /\ Writable(s)
      /\ u <= MaxUid
      /\ p.uid # 0 => items[u].num = p.base
      /\ PutRow(u, [space |-> s, gone |-> p.uid # 0 /\ items[u].gone, text |-> p.text,
                 num |-> newest + 1])
      /\ sync' = [sync EXCEPT ![d].at = <<"ack", s>>, ![d].push.uid = u]
      /\ UNCHANGED <<store, ops, faults>>

(* The revision changed in between: fetch it again and merge its text.     *)
Conflict(d, s) ==
  LET p == sync[d].push
  IN  /\ At(d, "send", s)
      /\ Writable(s)
      /\ p.uid # 0 /\ items[p.uid].num # p.base
      /\ sync' = [sync EXCEPT ![d].push.base = items[p.uid].num,
                              ![d].push.text = @ \cup (IF items[p.uid].gone THEN {} ELSE items[p.uid].text)]
      /\ UNCHANGED <<server, store, ops, faults>>

(* The row keeps the item it was sent as.  It still has something to send  *)
(* if it was edited meanwhile.                                             *)
Receipt(r, p) ==
  [r EXCEPT !.uid = p.uid, !.released = FALSE, !.dirty = @ /\ r.rev # p.rev]

(* As when the receipt goes to the row wherever it is by now.              *)
ReceivesAnywhere(r, p, s) == r # NoRow /\ r.uid = p.prev

Receives(r, p, s) == r # NoRow /\ r.uid = p.prev /\ r.home = s

(* A row that moved or went meanwhile must not get its old item back: that *)
(* is queued for deletion.                                                 *)
Ack(d, s) ==
  LET p == sync[d].push
  IN  /\ At(d, "ack", s)
      /\ IF Receives(row[d], p, s)
           THEN /\ row' = [row EXCEPT ![d] = Receipt(@, p)]
                /\ UNCHANGED tomb
           ELSE /\ tomb' = [tomb EXCEPT ![d] = @ \cup {[uid |-> p.uid, space |-> s]}]
                /\ UNCHANGED row
      /\ sync' = [sync EXCEPT ![d].at = <<"tail", s>>, ![d].push = NoPush]
      /\ UNCHANGED <<server, shared, cur, acur, held, ops, faults>>

(* As when the account's cursor moves only when nothing was visited.       *)
EndWhenIdle(d) ==
  /\ At(d, "finish", "all")
  /\ acur' = [acur EXCEPT ![d] = IF sync[d].open = {} THEN sync[d].stoken ELSE @]
  /\ sync' = [sync EXCEPT ![d] = NoSync]
  /\ UNCHANGED <<server, row, tomb, shared, cur, held, ops, faults>>

(* As when the account's cursor moves whatever the sync left undone.       *)
EndRegardless(d) ==
  /\ At(d, "finish", "all")
  /\ acur' = [acur EXCEPT ![d] = sync[d].stoken]
  /\ sync' = [sync EXCEPT ![d] = NoSync]
  /\ UNCHANGED <<server, row, tomb, shared, cur, held, ops, faults>>

(* The account's cursor moves only when everything named was applied.      *)
End(d) ==
  /\ At(d, "finish", "all")
  /\ acur' = [acur EXCEPT ![d] =
       IF sync[d].complete /\ \A s \in Home : held[d][s] = 0 THEN sync[d].stoken ELSE @]
  /\ sync' = [sync EXCEPT ![d] = NoSync]
  /\ UNCHANGED <<server, row, tomb, shared, cur, held, ops, faults>>

-----------------------------------------------------------------------------
Fault == faults < MaxFaults /\ faults' = faults + 1

(* A failure in the vault ends the sync.  One in the shared folder ends    *)
(* what the sync does there.                                               *)
FailedPull(d, s) ==
  /\ Fault
  /\ At(d, "pull", s)
  /\ Visited(d, s)
  /\ \E n \in 0 .. Len(News(d, s)) :
       row' = [row EXCEPT ![d] = ApplyAll(d, s, SubSeq(News(d, s), 1, n)).row]
  /\ sync' = [sync EXCEPT ![d] = IF s = "vault" THEN NoSync
                                 ELSE [@ EXCEPT !.at = <<"settle", "all">>, !.complete = FALSE]]
  /\ UNCHANGED <<server, tomb, shared, cur, acur, held, ops>>

AfterFailure(d, s) ==
  IF s = "vault" THEN NoSync
  ELSE [sync[d] EXCEPT !.at = IF At(d, "drain", s) THEN AfterDrain(s, sync[d].open)
                             ELSE AfterPush(s, sync[d].open),
                       !.push = NoPush]

(* A deletion that was not carried out, or was and nobody heard.           *)
FailedDrain(d, s) ==
  /\ Fault
  /\ At(d, "drain", s) \/ At(d, "tail", s)
  /\ Queued(d, s) # {}
  /\ ServerDeletes(d, s) \/ UNCHANGED server
  /\ sync' = [sync EXCEPT ![d] = AfterFailure(d, s)]
  /\ UNCHANGED <<store, ops>>

(* What is new did not go up, or did and the answer was lost.              *)
FailedPush(d, s) ==
  /\ Fault
  /\ \E step \in {"send", "ack"} : At(d, step, s)
  /\ sync' = [sync EXCEPT ![d] = AfterFailure(d, s)]
  /\ UNCHANGED <<server, store, ops>>

(* A space that was closed since it was pulled takes nothing.              *)
ClosedPush(d) ==
  /\ closed
  /\ \/ (At(d, "drain", "share") \/ At(d, "tail", "share")) /\ Queued(d, "share") # {}
     \/ At(d, "fetch", "share") /\ row[d].dirty /\ row[d].home = "share" /\ row[d].uid # 0
     \/ At(d, "send", "share")
  /\ sync' = [sync EXCEPT ![d] = AfterFailure(d, "share")]
  /\ UNCHANGED <<server, store, ops, faults>>

(* A full vault is not a sync that failed.                                 *)
VaultFull(d) ==
  /\ Fault
  /\ At(d, "send", "vault")
  /\ sync' = [sync EXCEPT ![d].at = Finish, ![d].push = NoPush]
  /\ UNCHANGED <<server, store, ops>>

(* The app stops, at any point, and is opened again: the account's cursor  *)
(* is dropped.                                                             *)
Restart(d) ==
  /\ Fault
  /\ sync' = [sync EXCEPT ![d] = NoSync]
  /\ acur' = [acur EXCEPT ![d] = NoCursor]
  /\ UNCHANGED <<server, row, tomb, shared, cur, held, ops>>

-----------------------------------------------------------------------------
User(d) ==
  \/ \E s \in Home : Create(d, s) \/ Move(d, s)
  \/ Edit(d)
  \/ Delete(d)
  \/ \E reaches \in BOOLEAN : StopSharing(d, reaches)

Sync(d) ==
  \/ List(d) \/ PullNothing(d) \/ Settle(d) \/ ClosedPush(d) \/ End(d)
  \/ \E s \in Home : Pull(d, s) \/ Drain(d, s) \/ Fetch(d, s) \/ Send(d, s) \/ Conflict(d, s) \/ Ack(d, s)

Trouble(d) ==
  \/ VaultFull(d) \/ Restart(d)
  \/ \E s \in Home : FailedPull(d, s) \/ FailedDrain(d, s) \/ FailedPush(d, s)

RowsNext == \E d \in Device : User(d) \/ Sync(d) \/ Trouble(d)

RowsFairness == \A d \in Device : WF_rowVars(Sync(d))

RowsSpec == RowsInit /\ [][RowsNext]_rowVars
RowsFairSpec == RowsSpec /\ RowsFairness

-----------------------------------------------------------------------------
Uids == DOMAIN items

(* What an account that can still read the space finds there.              *)
Live(u) == ~items[u].gone /\ (items[u].space = "share" => ~closed)

(* The account's cursor is what a sync goes by to leave a space alone, so  *)
(* no space may be behind it (changes.rs, End of run): every change at or  *)
(* below it is at or below the cursor of the space it was made in.         *)
AccountCursorBehind ==
  \A d \in Device : \A u \in Uids :
    items[u].num <= acur[d] /\ (items[u].space = "share" => ~closed)
      => items[u].num <= cur[d][items[u].space]

(* Whatever a sync pulls, retries, sends or fails at, a row that was not   *)
(* sent is still there afterwards with everything that was in it           *)
(* (apply_remote_delete, apply_note_payload).                              *)
UnsentSurvives ==
  [][\A d \in Device :
       row[d].dirty /\ ops' = ops => row'[d] # NoRow /\ row[d].text \subseteq row'[d].text]_rowVars

(* A row's item and a queued deletion's item are in the space the device   *)
(* looks for them in, whatever moved while a push was under way, and a row *)
(* without an item is marked to be sent: a push finds each of them         *)
(* (acknowledge_push, drain_tombstones).                                   *)
RoutedHome ==
  \A d \in Device :
    /\ row[d].uid # 0 => items[row[d].uid].space = row[d].home /\ ~row[d].released
    /\ row[d] # NoRow /\ row[d].uid = 0 => row[d].dirty
    /\ \A t \in tomb[d] : items[t.uid].space = t.space

(* Where notes do not move, no cursor passes an item that was not applied: *)
(* what it holds is in the row, or the user deleted the note here and the  *)
(* server is yet to be told, or the note was deleted there later, as       *)
(* another of its items (pull_space_once, settle_held).                    *)
NothingSkipped ==
  \A d \in Device : \A u \in Uids :
    Live(u) /\ items[u].num <= cur[d][items[u].space] =>
      \/ items[u].text \subseteq row[d].text
      \/ tomb[d] # {}
      \/ \E v \in Uids : items[v].gone /\ items[v].num > items[u].num

(* Where notes do not move, a note that was not deleted has one item on    *)
(* the server, however often the answer to a push is lost: the pull before *)
(* the next push finds the item and gives it to the row                    *)
(* (apply_note_payload).                                                   *)
SentOnce == (\A u \in Uids : ~items[u].gone) => Len(items) <= 1

(* Where notes do not move, the account's cursor catches up with the       *)
(* server once the users pause, so that a sync can be one request.         *)
CursorSettles == \A d \in Device : <>[](acur[d] = newest)

(* Where notes do not move, every device ends up with the same item of the *)
(* note, or all without it.  Set aside are notes that two devices brought  *)
(* back after a deletion, each as an item of its own: "what two items of   *)
(* one space do with one id is that space's business" (claim.rs:26).       *)
RowsAgree ==
  [](\A u, v \in Uids : Live(u) /\ Live(v) => u = v)
    => <>[](\A d, e \in Device : row[d].uid = row[e].uid)

-----------------------------------------------------------------------------
(* What the documentation says of the program and the program does not do. *)

(* "Edits to the content are merged, so both sets of changes survive": a   *)
(* row with nothing left to send has its text in the item it stands for.   *)
CleanIsSent ==
  \A d \in Device :
    row[d].uid # 0 /\ ~row[d].dirty /\ Live(row[d].uid)
      => row[d].text \subseteq items[row[d].uid].text

(* "Rehomed/deleted rows must not regain their old identity."              *)
NoOldIdentity == \A d \in Device : \A t \in tomb[d] : row[d].uid # t.uid

(* When a folder the account shares goes, "the rows come back through the  *)
(* vault": a device past such an item has the row there.                   *)
OwnContentComesBack ==
  \A d \in Device : \A u \in Uids :
    closed /\ items[u].space = "vault" /\ items[u].num <= cur[d]["vault"]
      => row[d].home = "vault"
=============================================================================
