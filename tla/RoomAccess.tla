----------------------------- MODULE RoomAccess -----------------------------
(***************************************************************************)
(* Who is in one live room, and how the right to be there follows the      *)
(* database.  What the sockets in it are sent is left out.                 *)
(*                                                                         *)
(* Three kinds of task share the hub, which is memory behind a lock.  The  *)
(* task of each socket checks the database, joins the hub, and checks once *)
(* more.  One task hears the database's notifications in the order of the  *)
(* commits and applies them.  When its connection breaks, what was         *)
(* published meanwhile is lost, and it asks the database about every       *)
(* socket once it can be heard from again.  A third task asks that every   *)
(* few minutes whatever happened.  Between an answer of the database and   *)
(* its use, the other tasks go on.                                         *)
(*                                                                         *)
(* A socket is one connection: whoever comes back does so on another.      *)
(***************************************************************************)
EXTENDS Integers, Sequences

CONSTANTS
  Socket, Session, Account,
  Opened,       \* the session that opens each socket
  Holder,       \* the account of each session
  MaxEvents     \* bound: how often the database changes, a connection breaks
                \* or a query fails, taken together

ASSUME RoomsAssumption ==
  /\ Opened \in [Socket -> Session] /\ Holder \in [Session -> Account]
  /\ MaxEvents \in Nat

VARIABLES
  \* the database
  member,       \* the access of each account, "none" when it has none
  standing,     \* the sessions that have not ended
  live,         \* the item and its collection are not deleted
  events,       \* what was published and is still to be heard, oldest first
  \* the server process
  room,         \* the sockets in the room
  access,       \* the access of each of them
  kicked,       \* the sockets that were dropped and must close
  task,         \* the task of each socket
  listening,    \* notifications arrive
  unchecked,    \* sockets could not be checked when they had to be
  check,        \* the two checks of all sockets
  unsure,       \* something was not heard and no check since made up for it
  happened      \* how often something changed, broke or failed

database == <<member, standing, live, events>>
hub == <<room, access, kicked>>
watch == <<listening, unchecked, check, unsure>>
vars == <<database, hub, task, watch, happened>>

Access == {"none", "read", "write"}
Checker == {"listener", "periodic"}

Event ==
  [kind : {"membership"}, account : Account, access : Access]
    \cup [kind : {"sessions"}, of : SUBSET Session] \cup [kind : {"deleted", "closed"}]

AccountOf(s) == Holder[Opened[s]]

Check ==
  [at : {"idle", "sessions", "members", "access"}, of : SUBSET (Session \cup Account),
   access : [Account -> Access], fresh : BOOLEAN]

NoAccess == [a \in Account |-> "none"]

NoCheck == [at |-> "idle", of |-> {}, access |-> NoAccess, fresh |-> FALSE]

Init ==
  /\ member \in [Account -> {"read", "write"}]
  /\ standing = Session /\ live = TRUE /\ events = <<>>
  /\ room = {} /\ kicked = {} /\ access = [s \in Socket |-> "none"]
  /\ task = [s \in Socket |-> [at |-> "out", access |-> "none"]]
  /\ listening = TRUE /\ unchecked = FALSE /\ unsure = FALSE
  /\ check = [c \in Checker |-> NoCheck]
  /\ happened = 0

-----------------------------------------------------------------------------
(* The hub.  Each of these is one piece of work under its lock.            *)
Without(gone) ==
  /\ room' = room \ gone
  /\ access' = [s \in Socket |-> IF s \in gone THEN "none" ELSE access[s]]

(* Sockets that others remove are told to close.                           *)
Drop(gone) == Without(gone) /\ kicked' = kicked \cup (gone \cap room)

(* An account's access, for every socket it has in the room.               *)
MembershipChanged(a, now) ==
  LET mine == {s \in room : AccountOf(s) = a}
  IN  IF now = "none" THEN Drop(mine)
      ELSE /\ access' = [s \in Socket |-> IF s \in mine THEN now ELSE access[s]]
           /\ UNCHANGED <<room, kicked>>

SessionsClosed(xs) == Drop({s \in room : Opened[s] \in xs})

(* As when a room that closes leaves its sockets to themselves.            *)
RoomForgotten == Without(room) /\ UNCHANGED kicked

RoomClosed == Drop(room)

-----------------------------------------------------------------------------
Happens == happened < MaxEvents /\ happened' = happened + 1

(* The database.  A change and its notification commit together.           *)
Changed(event) ==
  /\ Happens
  /\ events' = IF listening THEN events \o event ELSE events
  /\ unsure' = (unsure \/ ~listening)
  /\ UNCHANGED <<hub, task, listening, unchecked, check>>

SetAccess(a, now) ==
  /\ now # member[a]
  /\ member' = [member EXCEPT ![a] = now]
  /\ Changed(<<[kind |-> "membership", account |-> a, access |-> now]>>)
  /\ UNCHANGED <<standing, live>>

(* A logout, or all sessions of an account but one.                        *)
EndSessions(xs) ==
  /\ xs # {} /\ xs \subseteq standing
  /\ standing' = standing \ xs
  /\ Changed(<<[kind |-> "sessions", of |-> xs]>>)
  /\ UNCHANGED <<member, live>>

(* An account that is switched off is no member of anything.               *)
Disable(a) ==
  /\ member[a] # "none"
  /\ member' = [member EXCEPT ![a] = "none"]
  /\ standing' = {x \in standing : Holder[x] # a}
  /\ Changed(<<[kind |-> "sessions", of |-> {x \in Session : Holder[x] = a}]>>)
  /\ UNCHANGED live

(* The item, or the collection with it.  What is deleted stays so here: an *)
(* item that is written again after its deletion is left out.              *)
DeleteItem(all) ==
  /\ live
  /\ live' = FALSE
  /\ Changed(IF all THEN <<[kind |-> "deleted"], [kind |-> "closed"]>> ELSE <<[kind |-> "deleted"]>>)
  /\ UNCHANGED <<member, standing>>

Standing(s) == Opened[s] \in standing /\ member[AccountOf(s)] # "none" /\ live

-----------------------------------------------------------------------------
(* A socket.                                                               *)
AtTask(s, at) == task[s].at = at

Goes(s, at) == task' = [task EXCEPT ![s] = [at |-> at, access |-> "none"]]

(* The task ends, and takes its socket out of the room if it is in it.     *)
Ends(s) ==
  /\ Goes(s, "left")
  /\ Without({s})
  /\ kicked' = kicked \ {s}

Admit(s) ==
  /\ AtTask(s, "out")
  /\ Standing(s)
  /\ task' = [task EXCEPT ![s] = [at |-> "admitted", access |-> member[AccountOf(s)]]]
  /\ UNCHANGED <<database, hub, watch, happened>>

(* Or it is refused, when its account has too many sockets already.        *)
Join(s) ==
  /\ AtTask(s, "admitted")
  /\ \/ /\ task' = [task EXCEPT ![s].at = "joined"]
        /\ room' = room \cup {s}
        /\ access' = [access EXCEPT ![s] = task[s].access]
        /\ UNCHANGED kicked
     \/ Goes(s, "left") /\ UNCHANGED hub
  /\ UNCHANGED <<database, watch, happened>>

(* As when a socket is not checked again once it can be found.             *)
ServesAtOnce(s) ==
  /\ AtTask(s, "joined")
  /\ Goes(s, "serving")
  /\ UNCHANGED <<database, hub, watch, happened>>

(* What changed between the first check and the join found no socket: the  *)
(* database is asked once more.                                            *)
AskAgain(s) ==
  LET now == member[AccountOf(s)]
  IN  /\ AtTask(s, "joined")
      /\ IF ~Standing(s) THEN Ends(s)
         ELSE /\ UNCHANGED hub
              /\ IF now = task[s].access THEN Goes(s, "serving")
                 ELSE task' = [task EXCEPT ![s] = [at |-> "asked", access |-> now]]
      /\ UNCHANGED <<database, watch, happened>>

TakeAnswer(s) ==
  /\ AtTask(s, "asked")
  /\ Goes(s, "serving")
  /\ MembershipChanged(AccountOf(s), task[s].access)
  /\ UNCHANGED <<database, watch, happened>>

(* The other end closes, or is silent for too long.                        *)
Hangup(s) ==
  /\ AtTask(s, "serving")
  /\ Ends(s)
  /\ UNCHANGED <<database, watch, happened>>

Close(s) == s \in kicked /\ Hangup(s)

(* A socket on which too much waits is dropped when the next frame comes.  *)
FallsBehind(s) ==
  /\ s \in room
  /\ Drop({s})
  /\ UNCHANGED <<database, task, watch, happened>>

-----------------------------------------------------------------------------
(* The notifications.                                                      *)
Apply(e) ==
  CASE e.kind = "membership" -> MembershipChanged(e.account, e.access)
    [] e.kind = "sessions"   -> SessionsClosed(e.of)
    [] e.kind = "deleted"    -> IF live THEN UNCHANGED hub ELSE RoomClosed
    [] e.kind = "closed"     -> RoomClosed

Hear ==
  /\ listening /\ check["listener"].at = "idle"
  /\ events # <<>>
  /\ Apply(Head(events))
  /\ events' = Tail(events)
  /\ UNCHANGED <<member, standing, live, task, watch, happened>>

(* The database cannot be asked about a socket that joined.                *)
AskFails(s) ==
  /\ Happens
  /\ AtTask(s, "joined")
  /\ Ends(s)
  /\ UNCHANGED <<database, watch>>

(* From here on no check that has begun makes up for what is lost.         *)
Missing(cs) ==
  /\ unsure' = TRUE
  /\ check' = [c \in Checker |-> [cs[c] EXCEPT !.fresh = FALSE]]

(* Whether the item is still there could not be asked.                     *)
HearFails ==
  /\ Happens
  /\ listening /\ check["listener"].at = "idle"
  /\ events # <<>> /\ Head(events).kind = "deleted"
  /\ events' = Tail(events)
  /\ Missing(check)
  /\ UNCHANGED <<member, standing, live, hub, task, listening, unchecked>>

Disconnect ==
  /\ Happens
  /\ listening /\ check["listener"].at = "idle"
  /\ listening' = FALSE
  /\ events' = <<>>
  /\ Missing(check)
  /\ UNCHANGED <<member, standing, live, hub, task, unchecked>>

-----------------------------------------------------------------------------
(* All sockets are checked: their sessions, then their memberships, then   *)
(* the room.                                                               *)
Begun(listens) ==
  [NoCheck EXCEPT !.at = "sessions", !.of = {Opened[s] : s \in room}, !.fresh = listens]

Reconnect ==
  /\ ~listening
  /\ check["listener"].at = "idle"
  /\ listening' = TRUE
  /\ check' = [check EXCEPT !["listener"] = Begun(TRUE)]
  /\ UNCHANGED <<database, hub, task, unchecked, unsure, happened>>

(* Without a connection the database is asked instead.                     *)
Recheck ==
  /\ ~listening
  /\ check["listener"].at = "idle"
  /\ check' = [check EXCEPT !["listener"] = Begun(FALSE)]
  /\ UNCHANGED <<database, hub, task, listening, unchecked, unsure, happened>>

Tick ==
  /\ check["periodic"].at = "idle"
  /\ check' = [check EXCEPT !["periodic"] = Begun(listening)]
  /\ UNCHANGED <<database, hub, task, listening, unchecked, unsure, happened>>

CheckSessions(c) ==
  /\ check[c].at = "sessions"
  /\ SessionsClosed(check[c].of \ standing)
  /\ check' = [check EXCEPT ![c].at = "members", ![c].of = {AccountOf(s) : s \in room'}]
  /\ UNCHANGED <<database, task, listening, unchecked, unsure, happened>>

AskMembers(c) ==
  /\ check[c].at = "members"
  /\ check' = [check EXCEPT ![c].at = "access",
              ![c].access = [a \in Account |-> IF a \in check[c].of THEN member[a] ELSE "none"]]
  /\ UNCHANGED <<database, hub, task, listening, unchecked, unsure, happened>>

(* As when a check throws members out and lets the others be.              *)
GiveLosses(c, a) ==
  /\ check[c].at = "access"
  /\ a \in check[c].of
  /\ IF check[c].access[a] = "none" THEN MembershipChanged(a, "none") ELSE UNCHANGED hub
  /\ check' = [check EXCEPT ![c].of = @ \ {a}, ![c].access[a] = "none"]
  /\ UNCHANGED <<database, task, listening, unchecked, unsure, happened>>

GiveAccess(c, a) ==
  /\ check[c].at = "access"
  /\ a \in check[c].of
  /\ MembershipChanged(a, check[c].access[a])
  /\ check' = [check EXCEPT ![c].of = @ \ {a}, ![c].access[a] = "none"]
  /\ UNCHANGED <<database, task, listening, unchecked, unsure, happened>>

(* The items are asked for and the rooms of what is deleted closed.        *)
CheckRoom(c) ==
  /\ check[c].at = "access" /\ check[c].of = {}
  /\ IF live THEN UNCHANGED hub ELSE RoomClosed
  /\ check' = [check EXCEPT ![c] = NoCheck]
  /\ unsure' = (unsure /\ ~check[c].fresh)
  /\ unchecked' = (unchecked /\ c # "listener")
  /\ UNCHANGED <<database, task, listening, happened>>

(* A query of a check fails.  If the listener's last check did as well and *)
(* that is too long ago, every socket is closed.  While nothing can be     *)
(* heard, failures of the listener's checks are no events of their own.    *)
CheckFails(c, overdue) ==
  /\ IF c = "listener" /\ ~listening THEN UNCHANGED happened ELSE Happens
  /\ check[c].at # "idle"
  /\ overdue => c = "listener" /\ unchecked
  /\ check' = [check EXCEPT ![c] = NoCheck]
  /\ unchecked' = (unchecked \/ c = "listener")
  /\ IF overdue THEN Drop(room) ELSE UNCHANGED hub
  /\ UNCHANGED <<database, task, listening, unsure>>

-----------------------------------------------------------------------------
Change ==
  \/ \E a \in Account : Disable(a) \/ \E now \in Access : SetAccess(a, now)
  \/ \E x \in Session : \E xs \in {{x}, {y \in standing : Holder[y] = Holder[x]} \ {x}} : EndSessions(xs)
  \/ \E all \in BOOLEAN : DeleteItem(all)

Own(s) == Join(s) \/ AskAgain(s) \/ TakeAnswer(s) \/ Close(s)

Uses(s) == Admit(s) \/ Hangup(s) \/ FallsBehind(s)

Checks(c) ==
  \/ CheckSessions(c) \/ AskMembers(c) \/ CheckRoom(c)
  \/ \E a \in Account : GiveAccess(c, a)

Listens == Hear \/ Reconnect \/ Checks("listener")
Repeats == Tick \/ Checks("periodic")

Trouble ==
  \/ HearFails \/ Disconnect \/ Recheck
  \/ \E s \in Socket : AskFails(s)
  \/ \E c \in Checker, overdue \in BOOLEAN : CheckFails(c, overdue)

Next ==
  \/ Change \/ Listens \/ Repeats \/ Trouble
  \/ \E s \in Socket : Own(s) \/ Uses(s)

Fairness ==
  /\ WF_vars(Listens) /\ WF_vars(Repeats)
  /\ \A s \in Socket : WF_vars(Own(s))

Spec == Init /\ [][Next]_vars
FairSpec == Spec /\ Fairness

-----------------------------------------------------------------------------
(* Types.  The room has no socket whose task is over or has yet to join.   *)
DatabaseOK ==
  /\ member \in [Account -> Access] /\ standing \subseteq Session /\ live \in BOOLEAN
  /\ events \in Seq(Event)

TaskOK ==
  /\ task \in [Socket -> [at : {"out", "admitted", "joined", "asked", "serving", "left"}, access : Access]]
  /\ \A s \in Socket : task[s].at = "admitted" => task[s].access # "none"

HubOK ==
  /\ room \subseteq Socket /\ kicked \subseteq Socket
  /\ access \in [Socket -> Access] /\ \A s \in Socket : access[s] # "none" <=> s \in room
  /\ \A s \in room : task[s].at \in {"joined", "asked", "serving"}

WatchOK ==
  /\ {listening, unchecked, unsure} \subseteq BOOLEAN
  /\ check \in [Checker -> Check]

TypeOK == DatabaseOK /\ TaskOK /\ HubOK /\ WatchOK /\ happened \in 0..MaxEvents

(* Everything published was heard, or asked for since.                     *)
Caught == listening /\ events = <<>> /\ ~unsure

(* Once every notification is applied, nobody is in the room whose session *)
(* ended, who is no member, or after the item was deleted: not those who   *)
(* joined meanwhile, nor after a broken connection (serve: standing after  *)
(* join; revalidate).                                                      *)
NobodyStays ==
  Caught =>
    \A s \in room : task[s].at \in {"asked", "serving"} => Standing(s)

(* A socket the hub no longer has is told to close, so that no member is   *)
(* left with a connection on which nothing arrives (Kick, leave).          *)
NobodyIsForgotten ==
  \A s \in Socket : task[s].at \in {"joined", "asked", "serving"} => s \in room \cup kicked

(* When the database is left alone, every socket in the room ends up with  *)
(* the access its account has there, or goes (RECHECK_EVERY).              *)
SocketsFollow ==
  <>[](\A s \in room : Standing(s) /\ access[s] = member[AccountOf(s)])

-----------------------------------------------------------------------------
(* What the documentation says of the program and the program does not do. *)

(* "When a member is removed or downgraded, the server closes or           *)
(* downgrades their sockets immediately": once everything was heard and    *)
(* no check runs, nobody writes who may only read.                         *)
DowngradeHolds ==
  Caught /\ (\A c \in Checker : check[c].at = "idle") =>
    \A s \in room : task[s].at = "serving" /\ access[s] = "write" => member[AccountOf(s)] = "write"
=============================================================================
