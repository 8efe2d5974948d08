------------------------------ MODULE SpaceLog ------------------------------
(***************************************************************************)
(* What the server's spaces promise to whoever uses them: every request    *)
(* takes effect at one instant, on the space as it is at that instant, or  *)
(* not at all, and its changes take the next numbers of one counter.       *)
(* SpaceTransactions is the transactions that are to implement this.       *)
(***************************************************************************)
EXTENDS Spaces

CONSTANTS
  Coll,         \* the uids of spaces
  MaxNum        \* bound: the counter stops here

ASSUME LogAssumption == MaxNum \in Nat

VARIABLES
  counter,      \* change_counter, as committed
  space         \* the spaces, as committed

vars == <<counter, space>>

Init ==
  /\ counter = 0
  /\ space = [c \in Coll |-> NoSpace]

Apply(c, r) ==
  LET changes == Changes(r, space[c])
      last == counter + Cardinality(changes)
  IN  /\ Allowed(r, space[c])
      /\ last <= MaxNum
      /\ counter' = last
      /\ \E num \in Numberings(changes, counter + 1) :
           space' = [space EXCEPT ![c] = After(r, @, num, last)]

Next == \E c \in Coll : \E r \in Requests : Apply(c, r)

Spec == Init /\ [][Next]_vars

-----------------------------------------------------------------------------
TypeOK ==
  /\ counter \in 0..MaxNum
  /\ space \in [Coll -> Space]

(* Every number a row carries was taken from the counter, and lies at or   *)
(* below the stoken of its space: a device that has everything up to a     *)
(* space's stoken has every item of it and every loss.                     *)
RowsBehindStoken ==
  \A c \in Coll :
    /\ space[c].stoken <= counter
    /\ \A i \in Item : space[c].item[i].num <= space[c].stoken
    /\ \A a \in Account : space[c].lost[a] <= space[c].stoken

(* No two rows a list sorts by number share one, within a space or across  *)
(* spaces.  A list goes on after the last number it sent, so of two rows   *)
(* with one number the second could be skipped for good.                   *)
NumbersAreUnique ==
  /\ \A c, d \in Coll :
       Exists(space[c]) /\ space[c].stoken = space[d].stoken => c = d
  /\ \A c \in Coll : \A i, j \in Item :
       /\ space[c].item[i].revs # <<>>
       /\ space[c].item[i].num = space[c].item[j].num
       => i = j

(* A deleted space holds nothing but its own item, has no member but its   *)
(* owner, and there is no way into it.                                     *)
Bare(s) ==
  /\ Others(s) = {}
  /\ \A a \in Account : s.invite[a] = NoInvitation
  /\ \A i \in Item \ {Main} : s.item[i] = NoItem

DeletedIsEmpty == \A c \in Coll : IsDeleted(space[c]) => Bare(space[c])

(* Every invitation carries the authority of an admin who is one now, and  *)
(* is held by somebody outside.  Nobody is member and lost at once, and    *)
(* the owner stays an admin.                                               *)
LiveAuthority(s) ==
  /\ \A a \in Account :
       /\ s.invite[a] # NoInvitation => Stands(s, a) /\ ~IsMember(s, a)
       /\ IsMember(s, a) => s.lost[a] = 0
  /\ Exists(s) => IsAdmin(s, s.owner)

AuthorityIsLive == \A c \in Coll : LiveAuthority(space[c])

(* Whoever stops being a member leaves a marker newer than anything the    *)
(* space carried, so that a device at any cursor it may hold hears of it.  *)
LossIsAnnounced ==
  [][\A c \in Coll, a \in Account :
       IsMember(space[c], a) /\ ~IsMember(space[c], a)' =>
         /\ space'[c].lost[a] > space[c].stoken
         /\ space'[c].stoken >= space'[c].lost[a]]_vars

(* A space once deleted stays deleted, and nobody's access to it returns.  *)
DeletionIsFinal ==
  [][\A c \in Coll : IsDeleted(space[c]) =>
       /\ IsDeleted(space[c])'
       /\ \A a \in Account : ~IsMember(space[c], a) => ~IsMember(space[c], a)']_vars

=============================================================================
