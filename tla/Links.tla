------------------------------- MODULE Links --------------------------------
(***************************************************************************)
(* Ways into a space besides an invitation: links that let in a number of  *)
(* accounts, and may let people without an account sign up (links.rs).     *)
(* Joining, by a link or by an invitation, and signing up read what they   *)
(* decide by under the row of the space and commit later; whatever else    *)
(* changes members or links holds that row from before it reads until it   *)
(* commits, and is one step here.                                          *)
(***************************************************************************)
EXTENDS Naturals, FiniteSets

CONSTANTS
  Person,      \* people, with an account or without
  Maker,       \* the space's owner
  MaxUses,     \* how many a link lets in
  MaxMembers,  \* max_members_per_space of the owner's plan
  MaxLinks     \* bound: links ever made

Unlocked == "free"

ASSUME LinksAssumption ==
  /\ Maker \in Person /\ Unlocked \notin Person
  /\ {MaxUses, MaxMembers, MaxLinks} \subseteq Nat

VARIABLES
  standing,   \* "stranger" without an account, "out", "member" or "admin"
  barred,     \* removed_members with by_admin: taken out by somebody else
  disabled,   \* accounts the operator closed
  invited,    \* invitations that wait: to whom, from whom
  links,      \* the links by the order they were made in
  row,        \* who holds the space's row
  attempt     \* what somebody on the way in is doing

linkVars == <<standing, barred, disabled, invited, links, row, attempt>>

NoLink == [made |-> FALSE, sender |-> Maker, uses |-> 0, signups |-> 0, expired |-> FALSE]
Still == [at |-> "idle", by |-> "none", link |-> 0]
Ids == 1 .. MaxLinks

LinksInit ==
  /\ standing \in {s \in [Person -> {"stranger", "out", "admin"}] :
                     \A p \in Person : s[p] = "admin" <=> p = Maker}
  /\ barred = {} /\ disabled = {} /\ invited = {}
  /\ links = [l \in Ids |-> NoLink]
  /\ row = Unlocked
  /\ attempt = [p \in Person |-> Still]

Members == {p \in Person : standing[p] \in {"member", "admin"}}

(* find: a link stands while whoever made it is an admin on an account     *)
(* that is not disabled.                                                   *)
Stands(l) == links[l].made /\ standing[links[l].sender] = "admin" /\ links[l].sender \notin disabled

Claimable(l) == ~links[l].expired /\ links[l].uses < MaxUses

SignupAvailable(l) == Claimable(l) /\ links[l].signups < MaxUses

(* sender_still_admin: an invitation stands by the same rule.              *)
Invited(p) ==
  \E i \in invited : i.to = p /\ standing[i.from] = "admin" /\ i.from \notin disabled

(* check_new_member, and with `pending` the invitations count as well.     *)
Room(pending) == Cardinality(Members) + (IF pending THEN Cardinality(invited) ELSE 0) < MaxMembers

Wait(p, by, l) == attempt' = [attempt EXCEPT ![p] = [at |-> "locked", by |-> by, link |-> l]]

(* As when the row was not waited for.                                     *)
TakeRowLate(p) ==
  \E by \in {"link", "invitation", "signup"}, l \in Ids :
    /\ attempt[p] = Still
    /\ IF by = "signup" THEN standing[p] = "stranger" ELSE standing[p] # "stranger"
    /\ by = "invitation" => \E i \in invited : i.to = p
    /\ Wait(p, by, l)
    /\ UNCHANGED <<standing, barred, disabled, invited, links, row>>

(* claim, accept and signup_grant wait for the row of the space.           *)
TakeRow(p) ==
  \E by \in {"link", "invitation", "signup"}, l \in Ids :
    /\ attempt[p] = Still /\ row = Unlocked
    /\ IF by = "signup" THEN standing[p] = "stranger" ELSE standing[p] # "stranger"
    /\ by = "invitation" => \E i \in invited : i.to = p
    /\ row' = p
    /\ Wait(p, by, l)
    /\ UNCHANGED <<standing, barred, disabled, invited, links>>

(* As a claim that does not ask who was taken out.                         *)
AllowsBarred(p) ==
  LET l == attempt[p].link IN
  CASE attempt[p].by = "link" -> p \notin Members /\ Stands(l) /\ Claimable(l) /\ Room(FALSE)
    [] attempt[p].by = "signup" -> Stands(l) /\ SignupAvailable(l)
    [] OTHER -> Invited(p) /\ p \notin Members /\ Room(FALSE)

(* What each of them asks before it goes on: a link lets in whoever is not *)
(* a member and was not taken out by an admin, an invitation whoever holds *)
(* it.                                                                     *)
Allowed(p) ==
  LET l == attempt[p].link IN
  CASE attempt[p].by = "link" ->
         p \notin Members /\ p \notin barred /\ Stands(l) /\ Claimable(l) /\ Room(FALSE)
    [] attempt[p].by = "signup" -> Stands(l) /\ SignupAvailable(l)
    [] OTHER -> Invited(p) /\ p \notin Members /\ Room(FALSE)

Examine(p) ==
  /\ attempt[p].at = "locked"
  /\ IF Allowed(p)
     THEN /\ attempt' = [attempt EXCEPT ![p].at = "granted"]
          /\ UNCHANGED row
     ELSE /\ attempt' = [attempt EXCEPT ![p] = Still]
          /\ row' = IF row = p THEN Unlocked ELSE row
  /\ UNCHANGED <<standing, barred, disabled, invited, links>>

(* The membership and the link's count change together: add_member, which  *)
(* forgets that the account was taken out, and the invitations to it go.   *)
Join(p) ==
  LET l == attempt[p].link IN
  /\ attempt[p].at = "granted"
  /\ attempt' = [attempt EXCEPT ![p] = Still]
  /\ row' = IF row = p THEN Unlocked ELSE row
  /\ IF attempt[p].by = "signup"
     THEN /\ standing' = [standing EXCEPT ![p] = "out"]
          /\ links' = [links EXCEPT ![l].signups = @ + 1]
          /\ UNCHANGED <<barred, invited>>
     ELSE /\ standing' = [standing EXCEPT ![p] = "member"]
          /\ links' = IF attempt[p].by = "link" THEN [links EXCEPT ![l].uses = @ + 1] ELSE links
          /\ barred' = barred \ {p}
          /\ invited' = {i \in invited : i.to # p}
  /\ UNCHANGED disabled

(* The request fails before its commit.                                    *)
Refused(p) ==
  /\ attempt[p] # Still
  /\ attempt' = [attempt EXCEPT ![p] = Still]
  /\ row' = IF row = p THEN Unlocked ELSE row
  /\ UNCHANGED <<standing, barred, disabled, invited, links>>

Admin(p) == row = Unlocked /\ standing[p] = "admin"

(* withdraw_invitations and withdraw_links: whoever is no longer an admin  *)
(* takes along what they sent.                                             *)
Unsent(p) == {i \in invited : p \notin {i.from, i.to}}
Without(p) == [l \in Ids |-> IF links[l].sender = p THEN [links[l] EXCEPT !.made = FALSE] ELSE links[l]]

(* create: an admin makes a link if the plan has room for one more.        *)
Create(p) ==
  \E l \in Ids :
    /\ Admin(p) /\ Room(TRUE)
    /\ links[l] = NoLink /\ \A k \in Ids : k < l => links[k] # NoLink
    /\ links' = [links EXCEPT ![l] = [NoLink EXCEPT !.made = TRUE, !.sender = p]]
    /\ UNCHANGED <<standing, barred, disabled, invited, row, attempt>>

(* revoke: any admin of the space may.                                     *)
Revoke(p) ==
  \E l \in Ids :
    /\ Admin(p) /\ links[l].made
    /\ links' = [links EXCEPT ![l].made = FALSE]
    /\ UNCHANGED <<standing, barred, disabled, invited, row, attempt>>

Invite(p, q) ==
  /\ Admin(p) /\ Room(TRUE)
  /\ standing[q] = "out" /\ \A i \in invited : i.to # q
  /\ invited' = invited \cup {[to |-> q, from |-> p]}
  /\ UNCHANGED <<standing, barred, disabled, links, row, attempt>>

(* remove_member, and leave when they are the same.                        *)
Remove(p, q) ==
  /\ row = Unlocked /\ q \in Members \ {Maker}
  /\ p # q => Admin(p)
  /\ standing' = [standing EXCEPT ![q] = "out"]
  /\ barred' = IF p # q THEN barred \cup {q} ELSE barred \ {q}
  /\ links' = Without(q) /\ invited' = Unsent(q)
  /\ UNCHANGED <<disabled, row, attempt>>

(* modify_member.                                                          *)
Modify(p, q) ==
  \E level \in {"member", "admin"} :
    /\ Admin(p) /\ q \in Members \ {Maker} /\ standing[q] # level
    /\ standing' = [standing EXCEPT ![q] = level]
    /\ IF level = "admin" THEN UNCHANGED <<links, invited>>
       ELSE links' = Without(q) /\ invited' = Unsent(q)
    /\ UNCHANGED <<barred, disabled, row, attempt>>

(* The operator closes an account, and time runs out for a link: neither   *)
(* waits for the row.                                                      *)
Disable(p) ==
  /\ standing[p] # "stranger" /\ p \notin disabled
  /\ disabled' = disabled \cup {p}
  /\ UNCHANGED <<standing, barred, invited, links, row, attempt>>

Expire ==
  \E l \in Ids :
    /\ links[l].made /\ ~links[l].expired
    /\ links' = [links EXCEPT ![l].expired = TRUE]
    /\ UNCHANGED <<standing, barred, disabled, invited, row, attempt>>

LinksNext ==
  \/ \E p \in Person :
       \/ TakeRow(p) \/ Examine(p) \/ Join(p) \/ Refused(p)
       \/ Create(p) \/ Revoke(p) \/ Disable(p)
       \/ \E q \in Person : Invite(p, q) \/ Remove(p, q) \/ Modify(p, q)
  \/ Expire

LinksSpec == LinksInit /\ [][LinksNext]_linkVars

-----------------------------------------------------------------------------
(* No link lets in or signs up more than it says, and the space never has  *)
(* more members than the plan allows, but for the owner, however many come *)
(* in at the same time and by whichever way (claimable, signup_available,  *)
(* check_new_member: a plan may allow none, 0009_domain_checks.sql).       *)
PlacesKept ==
  /\ \A l \in Ids : links[l].uses <= MaxUses /\ links[l].signups <= MaxUses
  /\ Members = {Maker} \/ Cardinality(Members) <= MaxMembers

(* Whoever a link lets in has the word of somebody who is an admin at that *)
(* moment, and was not taken out by an admin before: only an invitation    *)
(* lets them back in (claim, find, withdraw_links).                        *)
JoinsAreAuthorised ==
  [][\A p \in Person :
       /\ attempt[p].at = "granted" /\ attempt[p].by = "link" /\ p \notin Members /\ p \in Members'
       => /\ standing[links[attempt[p].link].sender] = "admin"
          /\ p \notin barred]_linkVars
=============================================================================
