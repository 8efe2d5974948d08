------------------------------- MODULE Spaces -------------------------------
(***************************************************************************)
(* What one request does to one space of the sync server, as data.         *)
(*                                                                         *)
(* A space is a collection of backend/server: the vault of an account or a *)
(* shared folder.  Its record here is what the tables collections, members,*)
(* removed_members, invitations, items and revisions hold of it.  A        *)
(* request is what a handler of collections.rs or sharing.rs is called     *)
(* with.  Allowed says when the handler goes ahead on the space it read,   *)
(* Changes which changes of that space take a number from the server-wide  *)
(* counter, and After what the space is once they have been written under  *)
(* those numbers.  SpaceLog applies a request in one step, and             *)
(* SpaceTransactions as the database transaction it is.                    *)
(***************************************************************************)
EXTENDS Integers, Sequences, FiniteSets

CONSTANTS
  Account,      \* the accounts of the server
  Item,         \* the items a space may hold
  Main,         \* the space's own item, which carries its name
  Rev,          \* the uids of revisions
  Tombstone,    \* the revisions that mark their item deleted
  NoRev,        \* an etag or a revision that is none
  Keep,         \* config.keep_revisions
  NoAccount,    \* no sender, no owner
  ItemSets,     \* which items a client sends in one request
  DepSets,      \* which items it names only for their etags
  Cursors       \* the stokens a client may ask a write to be made at

ASSUME SpaceAssumption ==
  /\ IsFiniteSet(Account) /\ IsFiniteSet(Item)
  /\ Main \in Item
  /\ Tombstone \subseteq Rev
  /\ NoRev \notin Rev
  /\ NoAccount \notin Account
  /\ Keep \in Nat
  /\ ItemSets \subseteq (SUBSET Item) \ {{}}
  /\ DepSets \subseteq SUBSET Item
  /\ Cursors \subseteq Nat \cup {-1}

Access == {"read", "write", "admin"}
Standing == Access \cup {"none"}

(* An invitation to an account: who sent it and what it offers.  The       *)
(* table's key allows one per recipient and space.                         *)
NoInvitation == [from |-> NoAccount, access |-> "none"]
Invitation == [from : Account, access : Access]

(* An item: its revisions, the newest first, and the number of its last    *)
(* change.  No revisions means no row.                                     *)
NoItem == [revs |-> <<>>, num |-> 0]

Space ==
  [ owner  : Account \cup {NoAccount},
    stoken : Nat,
    member : [Account -> Standing],
    lost   : [Account -> Nat],          \* removed_members, 0 for no row
    invite : [Account -> Invitation \cup {NoInvitation}],
    item   : [Item -> [revs : Seq(Rev), num : Nat]] ]

NoSpace ==
  [ owner  |-> NoAccount,
    stoken |-> 0,
    member |-> [a \in Account |-> "none"],
    lost   |-> [a \in Account |-> 0],
    invite |-> [a \in Account |-> NoInvitation],
    item   |-> [i \in Item |-> NoItem] ]

Exists(s) == s.owner # NoAccount
IsMember(s, a) == s.member[a] # "none"
IsAdmin(s, a) == s.member[a] = "admin"

Current(s, i) == IF s.item[i].revs = <<>> THEN NoRev ELSE Head(s.item[i].revs)
IsDeleted(s) == Current(s, Main) \in Tombstone

-----------------------------------------------------------------------------
(* Requests.  A batch leaves the etags of its items out.  The cursor -1    *)
(* asks for nothing.                                                       *)

Put(mode) ==
  [rev : Rev, etag : IF mode = "transaction" THEN Rev \cup {NoRev} ELSE {NoRev}]

WriteRequests(mode) ==
  [ op : {"write"}, mode : {mode}, who : Account, at : Cursors,
    put  : UNION { [I -> Put(mode)] : I \in ItemSets },
    deps : UNION { [I -> Rev] : I \in DepSets } ]

MemberRequests ==
       [op : {"create"}, who : Account, rev : Rev \ Tombstone]
  \cup [op : {"remove"}, who : Account, target : Account]
  \cup [op : {"leave"}, who : Account]
  \cup [op : {"modify", "invite"}, who : Account, target : Account, access : Access]
  \cup [op : {"accept", "reject"}, who : Account]
  \cup [op : {"disinvite"}, who : Account, target : Account]

Requests ==
  WriteRequests("batch") \cup WriteRequests("transaction") \cup MemberRequests

-----------------------------------------------------------------------------
(* collections::write_items.                                               *)

(* The items whose revision is not a retry of the one they already have.   *)
Stored(r, s) == { i \in DOMAIN r.put : r.put[i].rev # Current(s, i) }

DeletesSpace(r, s) ==
  /\ ~IsDeleted(s)
  /\ Main \in DOMAIN r.put
  /\ r.put[Main].rev \in Tombstone

(* As when a write does not ask whether the space was deleted. *)
WriteAllowedIntoDeleted(r, s) ==
  /\ s.member[r.who] \in {"write", "admin"}
  /\ Main \in DOMAIN r.put => r.who = s.owner
  /\ r.mode = "transaction" =>
       \A i \in DOMAIN r.put : Current(s, i) \in {r.put[i].rev, r.put[i].etag}
  /\ \A i \in Stored(r, s) : \A k \in 1..Len(s.item[i].revs) :
       r.put[i].rev # s.item[i].revs[k]

WriteAllowed(r, s) ==
  /\ s.member[r.who] \in {"write", "admin"}
  /\ Main \in DOMAIN r.put => IsAdmin(s, r.who)
  /\ IsDeleted(s) => \A i \in DOMAIN r.put : i = Main /\ r.put[i].rev \in Tombstone
  /\ DeletesSpace(r, s) => r.who = s.owner
  /\ r.at # -1 => r.at = s.stoken
  /\ \A i \in DOMAIN r.deps : r.deps[i] = Current(s, i)
  /\ r.mode = "transaction" =>
       \A i \in DOMAIN r.put : Current(s, i) \in {r.put[i].rev, r.put[i].etag}
  /\ \A i \in Stored(r, s) : \A k \in 1..Len(s.item[i].revs) :
       r.put[i].rev # s.item[i].revs[k]

(* Everyone but the owner, whom ending the share takes out.                *)
Others(s) == { a \in Account : IsMember(s, a) /\ a # s.owner }

(* store_revisions and prune: the new revision is the current one, with    *)
(* the Keep before it, and a deleted item keeps its tombstone alone.       *)
Pruned(rev, older) ==
  IF rev \in Tombstone THEN <<rev>>
  ELSE <<rev>> \o SubSeq(older, 1, IF Len(older) < Keep THEN Len(older) ELSE Keep)

WrittenItems(r, s, num) ==
  [i \in Item |->
     IF i \in Stored(r, s)
     THEN [revs |-> Pruned(r.put[i].rev, s.item[i].revs), num |-> num[<<"item", i>>]]
     ELSE s.item[i]]

(* sharing::end_share and drop_content.                                    *)
Ended(s, num) ==
  [s EXCEPT
     !.member = [a \in Account |-> IF a \in Others(s) THEN "none" ELSE @[a]],
     !.lost   = [a \in Account |-> IF a \in Others(s) THEN num[<<"lost", a>>] ELSE @[a]],
     !.invite = [a \in Account |-> NoInvitation],
     !.item   = [i \in Item |-> IF i = Main THEN @[i] ELSE NoItem]]

AfterWrite(r, s, num) ==
  LET written == [s EXCEPT !.item = WrittenItems(r, s, num)]
  IN  IF DeletesSpace(r, s) THEN Ended(written, num) ELSE written

-----------------------------------------------------------------------------
(* collections::create_collection and the members and invitations of       *)
(* sharing.rs.                                                             *)

AfterCreate(r, s, num) ==
  [s EXCEPT
     !.owner = r.who,
     !.member[r.who] = "admin",
     !.item[Main] = [revs |-> <<r.rev>>, num |-> num[<<"item", Main>>]]]

(* withdraw_invitations: what an account sent goes with its authority.     *)
WithoutInvitesFrom(s, a) ==
  [s EXCEPT !.invite = [b \in Account |-> IF @[b].from = a THEN NoInvitation ELSE @[b]]]

(* As when a member is removed and nothing tells their devices.            *)
SilentRemoval(s, target, num) ==
  [WithoutInvitesFrom(s, target) EXCEPT
     !.member[target] = "none", !.invite[target] = NoInvitation]

(* remove_membership, for remove_member and leave.                         *)
AfterRemoval(s, target, num) ==
  [WithoutInvitesFrom(s, target) EXCEPT
     !.member[target] = "none",
     !.lost[target] = num[<<"lost", target>>],
     !.invite[target] = NoInvitation]

(* As when a demoted admin's invitations stand.                            *)
ModifyAlone(r, s) == [s EXCEPT !.member[r.target] = r.access]

AfterModify(r, s) ==
  LET kept == IF r.access = "admin" THEN s ELSE WithoutInvitesFrom(s, r.target)
  IN  [kept EXCEPT !.member[r.target] = r.access]

(* As when an invitation into a space without asking whether it is live.   *)
InviteIntoAny(r, s) ==
  /\ IsAdmin(s, r.who)
  /\ r.target # r.who /\ ~IsMember(s, r.target)
  /\ s.invite[r.target] = NoInvitation

InviteAllowed(r, s) ==
  /\ IsAdmin(s, r.who) /\ ~IsDeleted(s)
  /\ r.target # r.who /\ ~IsMember(s, r.target)
  /\ s.invite[r.target] = NoInvitation

(* sender_still_admin: the rule an invitation is read by.                  *)
Stands(s, a) == s.invite[a] # NoInvitation /\ IsAdmin(s, s.invite[a].from)

(* accept: a member's own invitation is withdrawn, anyone else's is their  *)
(* way in (add_member).                                                    *)
AfterAccept(r, s) ==
  IF IsMember(s, r.who) THEN [s EXCEPT !.invite[r.who] = NoInvitation]
  ELSE [s EXCEPT !.member[r.who] = s.invite[r.who].access,
                 !.lost[r.who]   = 0,
                 !.invite[r.who] = NoInvitation]

-----------------------------------------------------------------------------
(* Whether the handler goes ahead.                                         *)
Allowed(r, s) ==
  \/ r.op = "create"    /\ ~Exists(s)
  \/ r.op = "write"     /\ Exists(s) /\ WriteAllowed(r, s)
  \/ r.op = "remove"    /\ IsAdmin(s, r.who) /\ IsMember(s, r.target) /\ r.target # s.owner
  \/ r.op = "leave"     /\ IsMember(s, r.who) /\ r.who # s.owner
  \/ r.op = "modify"    /\ IsAdmin(s, r.who) /\ IsMember(s, r.target) /\ r.target # s.owner
  \/ r.op = "invite"    /\ InviteAllowed(r, s)
  \/ r.op = "accept"    /\ Stands(s, r.who)
  \/ r.op = "reject"    /\ s.invite[r.who] # NoInvitation
  \/ r.op = "disinvite" /\ s.invite[r.target].from = r.who

(* The changes that take a number each.  touch_collection takes one for a  *)
(* change of the members that writes no row with a number of its own.      *)
Changes(r, s) ==
  CASE r.op = "create" -> { <<"item", Main>> }
    [] r.op = "write"  ->
         { <<"item", i>> : i \in Stored(r, s) }
           \cup (IF DeletesSpace(r, s) THEN { <<"lost", a>> : a \in Others(s) } ELSE {})
    [] r.op = "remove" -> { <<"lost", r.target>> }
    [] r.op = "leave"  -> { <<"lost", r.who>> }
    [] r.op = "modify" -> { <<"touch", r.target>> }
    [] r.op = "accept" -> IF IsMember(s, r.who) THEN {} ELSE { <<"touch", r.who>> }
    [] OTHER           -> {}

(* As when one number for all the changes of a request.                    *)
OneNumber(changes, first) ==
  { [c \in changes |-> first + Cardinality(changes) - 1] }

(* next_changes: consecutive numbers from the first, the items before the  *)
(* members who are taken out.                                              *)
Numberings(changes, first) ==
  LET n == Cardinality(changes)
  IN  { num \in [changes -> first .. (first + n - 1)] :
          \A c, d \in changes :
             /\ num[c] = num[d] => c = d
             /\ c[1] = "item" /\ d[1] = "lost" => num[c] < num[d] }

(* The space once the changes are written.  Its stoken is the last number  *)
(* taken, and stays when none was.                                         *)
Effect(r, s, num) ==
  CASE r.op = "create"    -> AfterCreate(r, s, num)
    [] r.op = "write"     -> AfterWrite(r, s, num)
    [] r.op = "remove"    -> AfterRemoval(s, r.target, num)
    [] r.op = "leave"     -> AfterRemoval(s, r.who, num)
    [] r.op = "modify"    -> AfterModify(r, s)
    [] r.op = "invite"    -> [s EXCEPT !.invite[r.target] =
                                          [from |-> r.who, access |-> r.access]]
    [] r.op = "accept"    -> AfterAccept(r, s)
    [] r.op = "reject"    -> [s EXCEPT !.invite[r.who] = NoInvitation]
    [] r.op = "disinvite" -> [s EXCEPT !.invite[r.target] = NoInvitation]

(* As when a change of the members leaves the stoken alone.                *)
StokenOfItemsOnly(r, s, num, last) ==
  IF Changes(r, s) = {} \/ r.op \notin {"create", "write"} THEN Effect(r, s, num)
  ELSE [Effect(r, s, num) EXCEPT !.stoken = last]

After(r, s, num, last) ==
  IF Changes(r, s) = {} THEN Effect(r, s, num)
  ELSE [Effect(r, s, num) EXCEPT !.stoken = last]

=============================================================================
