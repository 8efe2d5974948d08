------------------------------- MODULE Openings -------------------------------
(* Opening vaults and ending the app: the coordinator's book of launches     *)
(* (vault_supervisor.rs), the threads that open a vault for a request        *)
(* (handle_host, open, open_and_wait), the vault's processes from their      *)
(* start to their end, the monitor that ends the app when its last window    *)
(* closed, and Quit.  A process holds its vault's OS lease while it runs     *)
(* (storage_locks.rs).  A coordinator that was just started found processes  *)
(* of an earlier one: those it adopts, and cannot wait for as for a child.   *)
(* The switch of a window is VaultHandoff and how a process closes is        *)
(* VaultClose: here it closes, refuses to, or ends.                          *)
LOCAL INSTANCE Integers

CONSTANTS
  Profile,    \* the vaults: numbers, of the launches that were found
  Opener,     \* requests to open a vault
  MaxStarts   \* bound: the largest launch id

ASSUME OpeningsAssumption == MaxStarts \in Nat /\ Profile \subseteq 1 .. MaxStarts

VARIABLES
  known,    \* Book.workers
  runner,   \* the processes, by launch id
  ask,      \* the thread of a request, or of the open a launch's readiness starts
  entered,  \* Jobs: the threads that are registered
  seen,     \* adopted launches whose lease was found free
  quit      \* Book.quitting, and the thread that quits

openingVars == <<known, runner, ask, entered, seen, quit>>

Start == 1 .. MaxStarts
Child == Start \ Profile
Asking == Opener \cup Start
Nil == -1      \* the id of an owner that could not be identified

NoLaunch == [id |-> 0, ready |-> FALSE, wanted |-> FALSE, error |-> FALSE, adopted |-> FALSE]
NoAim == [id |-> 0, at |-> "none"]
NoQuestion == [at |-> "none", of |-> 0, tracked |-> FALSE, launch |-> 0]
Replied == [NoQuestion EXCEPT !.at = "done"]   \* done, failed or refused
Holding == {"leased", "listening", "up", "closing", "failing"}
Alive == Holding \cup {"started", "allowed"}
Busy == {"open", "retry", "probe", "forget", "wait", "call"}
Opens == \A p \in Profile : known[p] = NoLaunch

(* recover_workers: what the coordinator found of each vault.                *)
FoundAs(p, state) ==
  CASE state = "vacant" -> NoLaunch
    [] state = "unknown" -> [NoLaunch EXCEPT !.id = Nil, !.error = TRUE, !.adopted = TRUE]
    [] OTHER -> [NoLaunch EXCEPT !.id = p, !.ready = state = "up", !.adopted = TRUE]

OpeningsInit ==
  /\ \E state \in [Profile -> {"vacant", "unknown", "listening", "up"}] :
       /\ known = [p \in Profile |-> FoundAs(p, state[p])]
       /\ runner = [i \in Start |->
            IF i \notin Profile THEN [of |-> 0, at |-> "none"]
            ELSE [of |-> i, at |-> CASE state[i] = "vacant" -> "none"
                                     [] state[i] = "unknown" -> "up"
                                     [] OTHER -> state[i]]]
  /\ ask = [a \in Asking |-> NoQuestion]
  /\ entered = {}
  /\ seen = {}
  /\ quit = [at |-> "no", idle |-> "no", hadReady |-> FALSE, aim |-> [p \in Profile |-> NoAim]]

Running == quit.at # "gone"
LeaseFree(p) == \A i \in Start : runner[i].of = p => runner[i].at \notin Holding

(* As when remove_launch does not ask which launch it was told of.           *)
ForgetAny(p, id) == [known EXCEPT ![p] = NoLaunch]

(* remove_launch.                                                            *)
Forget(p, id) == IF known[p].id = id THEN [known EXCEPT ![p] = NoLaunch] ELSE known

-----------------------------------------------------------------------------
(* The requests.                                                             *)
Goes(a, place) == ask' = [ask EXCEPT ![a].at = place] /\ UNCHANGED entered
Ends(a) == ask' = [ask EXCEPT ![a] = Replied] /\ entered' = entered \ {a}

(* accept: once a quit is, nothing else is opened.                           *)
Accepts == quit.at = "no"

(* handle_host: accepted and registered as a job under the book's lock.      *)
Registered(a) == entered \cup {a}

AskOpen(a) ==
  /\ Running /\ a \in Opener /\ ask[a].at = "none"
  /\ \E p \in Profile, tracked \in BOOLEAN :
       IF Accepts
       THEN /\ ask' = [ask EXCEPT ![a] = [@ EXCEPT !.at = "open", !.of = p, !.tracked = tracked]]
            /\ entered' = Registered(a)
       ELSE Ends(a)
  /\ UNCHANGED <<known, runner, seen, quit>>

(* The end of open: a tracked request waits for the launch.                  *)
Returns(a, id) ==
  IF ask[a].tracked
  THEN ask' = [ask EXCEPT ![a] = [@ EXCEPT !.at = "wait", !.launch = id]] /\ UNCHANGED entered
  ELSE Ends(a)

(* open_with_launch: under the book's lock, a launch is found or reserved.   *)
(* What comes before may fail, and nothing is reserved then.                 *)
OpenFails(a) ==
  /\ Running /\ ask[a].at = "open"
  /\ Ends(a)
  /\ UNCHANGED <<known, runner, seen, quit>>

Reserved(a) ==
  LET p == ask[a].of IN
  /\ Running /\ ask[a].at = "open" /\ quit.at = "no" /\ known[p] = NoLaunch
  /\ \E i \in Child :
       /\ \A j \in Child : runner[j].at = "none" <=> j >= i
       /\ known' = [known EXCEPT ![p] = [NoLaunch EXCEPT !.id = i, !.wanted = ~ask[a].tracked]]
       /\ runner' = [runner EXCEPT ![i] = [of |-> p, at |-> "spawning"]]
       /\ Returns(a, i)
  /\ UNCHANGED <<seen, quit>>

FindsLaunch(a) ==
  LET p == ask[a].of
      l == known[p]
      To(place) == ask' = [ask EXCEPT ![a] = [@ EXCEPT !.at = place, !.launch = l.id]]
                   /\ UNCHANGED entered
  IN
  /\ Running /\ ask[a].at = "open" /\ quit.at = "no" /\ l # NoLaunch
  /\ known' = [known EXCEPT ![p].wanted = @ \/ (~ask[a].tracked /\ ~l.ready)]
  /\ CASE l.error -> To("retry")
       [] ~l.error /\ l.adopted /\ ~l.ready -> To("probe")
       [] ~l.error /\ l.ready /\ ~ask[a].tracked -> To("call")
       [] OTHER -> Returns(a, l.id)
  /\ UNCHANGED <<runner, seen, quit>>

(* reconcile: only a lease that the OS grants shows the owner is gone.       *)
Reconciles(a) ==
  /\ Running /\ ask[a].at \in {"retry", "probe"}
  /\ \/ LeaseFree(ask[a].of) /\ Goes(a, "forget")
     \/ ~LeaseFree(ask[a].of) /\ Ends(a)
     \/ ~LeaseFree(ask[a].of) /\ ask[a].at = "probe" /\ Returns(a, ask[a].launch)
  /\ UNCHANGED <<known, runner, seen, quit>>

OpensAgain(a) ==
  /\ Running /\ ask[a].at = "forget"
  /\ known' = Forget(ask[a].of, ask[a].launch)
  /\ ask' = [ask EXCEPT ![a] = [@ EXCEPT !.at = "open", !.launch = 0]]
  /\ UNCHANGED entered
  /\ UNCHANGED <<runner, seen, quit>>

(* wait_for_ready: of that launch only, for 90 seconds.                      *)
WaitsReady(a) ==
  LET l == known[ask[a].of] IN
  /\ Running /\ ask[a].at = "wait"
  /\ \/ (l.id # ask[a].launch \/ l.error) /\ Ends(a)
     \/ l.id = ask[a].launch /\ ~l.error /\ l.ready /\ Goes(a, "call")
     \/ l.id = ask[a].launch /\ ~l.error /\ ~l.ready /\ Ends(a)
  /\ UNCHANGED <<known, runner, seen, quit>>

(* activate_worker, which a lost answer fails.                               *)
Activates(a) ==
  /\ Running /\ ask[a].at = "call"
  /\ \/ runner[ask[a].launch].at \in {"up", "closing"} /\ Ends(a)
     \/ ask[a].tracked /\ Ends(a)
     \/ ~ask[a].tracked /\ Goes(a, "retry")
  /\ UNCHANGED <<known, runner, seen, quit>>

-----------------------------------------------------------------------------
(* The processes.                                                            *)
Set(i, place) == runner' = [runner EXCEPT ![i].at = place]
IsKnown(i) == known[runner[i].of].id = i
Expected(i) ==
  Running /\ IsKnown(i) /\ ~known[runner[i].of].ready /\ ~known[runner[i].of].error

Spawns(i) ==
  /\ Running /\ runner[i].at = "spawning"
  /\ \/ Set(i, "started") /\ UNCHANGED known
     \/ Set(i, "reaped") /\ known' = Forget(runner[i].of, i)
  /\ UNCHANGED <<ask, entered, seen, quit>>

(* authorize_worker, resolve_worker and register_worker: a process that is   *)
(* refused, or finds the vault held, ends.                                   *)
ComesUp(i) ==
  /\ \/ /\ runner[i].at = "started"
        /\ Set(i, IF Expected(i) THEN "allowed" ELSE "over")
     \/ /\ runner[i].at = "allowed"
        /\ Set(i, IF LeaseFree(runner[i].of) THEN "leased" ELSE "over")
     \/ /\ runner[i].at = "leased"
        /\ Set(i, IF Expected(i) THEN "listening" ELSE "over")
  /\ UNCHANGED <<known, ask, entered, seen, quit>>

(* A request that is opening the vault activates the window itself.          *)
Pending(p) == \E a \in Opener : ask[a].tracked /\ ask[a].of = p /\ ask[a].at \in Busy

IsReady(i) ==
  LET p == runner[i].of
      heard == Running /\ IsKnown(i) /\ ~known[p].error
      opens == heard /\ ~known[p].ready /\ known[p].wanted /\ quit.at = "no" /\ ~Pending(p)
  IN
  /\ runner[i].at = "listening"
  /\ Set(i, "up")
  /\ known' = IF heard THEN [known EXCEPT ![p].ready = TRUE] ELSE known
  /\ quit' = [quit EXCEPT !.hadReady = @ \/ (heard /\ ~known[p].ready)]
  /\ IF opens
     THEN /\ ask' = [ask EXCEPT ![i] = [@ EXCEPT !.at = "open", !.of = p]]
          /\ entered' = Registered(i)
     ELSE UNCHANGED <<ask, entered>>
  /\ UNCHANGED seen

(* fail_startup: it says so, and exits; the notice may be lost.              *)
FailsStartup(i) ==
  LET p == runner[i].of IN
  /\ runner[i].at = "listening"
  /\ Set(i, "failing")
  /\ \/ UNCHANGED known
     \/ Running /\ IsKnown(i) /\ ~known[p].ready /\ known' = [known EXCEPT ![p].error = TRUE]
  /\ UNCHANGED <<ask, entered, seen, quit>>

RefusesClose(i) ==
  /\ runner[i].at = "closing" /\ Set(i, "up")
  /\ UNCHANGED <<known, ask, entered, seen, quit>>

(* A process ends: closed, crashed, or after a failure.                      *)
ProcessEnds(i) ==
  /\ runner[i].at \in Alive /\ Set(i, "over")
  /\ UNCHANGED <<known, ask, entered, seen, quit>>

(* The thread that waits for a child; its wait may fail, which proves nothing*)
ChildReaped(i) ==
  /\ Running /\ i \in Child /\ runner[i].at = "over"
  /\ Set(i, "reaped")
  /\ \/ known' = Forget(runner[i].of, i)
     \/ UNCHANGED known
  /\ UNCHANGED <<ask, entered, seen, quit>>

-----------------------------------------------------------------------------
(* reconcile_adopted.                                                        *)
MayPrune(p) == known[p].adopted

FindsFree(p) ==
  /\ Running /\ MayPrune(p) /\ LeaseFree(p) /\ <<p, known[p].id>> \notin seen
  /\ seen' = seen \cup {<<p, known[p].id>>}
  /\ UNCHANGED <<known, runner, ask, entered, quit>>

Prunes(p, id) ==
  /\ Running /\ <<p, id>> \in seen
  /\ seen' = seen \ {<<p, id>>}
  /\ known' = Forget(p, id)
  /\ UNCHANGED <<runner, ask, entered, quit>>

(* idle_exit_candidate.                                                      *)
NothingOpen == quit.hadReady /\ Opens /\ quit.at = "no" /\ entered = {}
StillNothingOpen == NothingOpen

(* reconcile_lifetime: it looks, reads whether the app stays in the tray, and*)
(* looks again under the book's lock.                                        *)
SeesIdle ==
  /\ NothingOpen /\ quit.idle = "no"
  /\ quit' = [quit EXCEPT !.idle = "seen"]
  /\ UNCHANGED <<known, runner, ask, entered, seen>>

Aimed ==
  [p \in Profile |-> IF known[p] = NoLaunch THEN NoAim ELSE [id |-> known[p].id, at |-> "waits"]]

IdleExit ==
  /\ quit.idle = "seen"
  /\ \/ quit' = [quit EXCEPT !.idle = "no"]
     \/ /\ StillNothingOpen
        /\ quit' = [quit EXCEPT !.idle = "quits", !.at = "asked"]
  /\ UNCHANGED <<known, runner, ask, entered, seen>>

AskQuit ==
  /\ quit.at = "no"
  /\ quit' = [quit EXCEPT !.at = "asked"]
  /\ UNCHANGED <<known, runner, ask, entered, seen>>

(* finish_quit: every launch of the book is closed.                          *)
QuitBegins ==
  /\ quit.at = "asked"
  /\ quit' = [quit EXCEPT !.at = "closing", !.aim = Aimed]
  /\ UNCHANGED <<known, runner, ask, entered, seen>>

Aim(p, place) == quit' = [quit EXCEPT !.aim[p].at = place]

(* close_owner: a child's own thread says it is gone, and then the lease is  *)
(* free; of an adopted process only the lease says so.                       *)
OwnerOf(p, id) ==
  LET l == known[p]
      released == (l.id = 0 \/ (l.id = id /\ l.adopted)) /\ LeaseFree(p)
  IN
  CASE released -> "released"
    [] ~released /\ l.id # id -> "changed"
    [] ~released /\ l.id = id -> "present"

(* close_for_quit and close, of one launch.                                  *)
Closes(p) ==
  LET aim == quit.aim[p]
      owner == OwnerOf(p, aim.id)
  IN
  /\ quit.at = "closing" /\ aim.at \in {"waits", "sent"}
  /\ \/ owner = "released" /\ known' = Forget(p, aim.id) /\ Aim(p, "closed") /\ UNCHANGED runner
     \/ owner = "changed" /\ Aim(p, "failed") /\ UNCHANGED <<known, runner>>
     \/ /\ owner = "present" /\ aim.at = "waits" /\ known[p].ready /\ ~known[p].error
        /\ runner[aim.id].at = "up" /\ Set(aim.id, "closing") /\ Aim(p, "sent")
        /\ UNCHANGED known
     \/ owner = "present" /\ Aim(p, "failed") /\ UNCHANGED <<known, runner>>
  /\ UNCHANGED <<ask, entered, seen>>

AllClosed == \A p \in Profile : quit.aim[p].at \in {"none", "closed"}
QuitOver == [quit EXCEPT !.at = "no", !.idle = IF @ = "quits" THEN "no" ELSE @,
                        !.aim = [p \in Profile |-> NoAim]]

StopsJobs ==
  /\ quit.at = "closing" /\ AllClosed
  /\ quit' = [quit EXCEPT !.at = "draining"]
  /\ UNCHANGED <<known, runner, ask, entered, seen>>

Drained == entered = {}

ExitsApp ==
  /\ quit.at = "draining" /\ Drained /\ Opens
  /\ quit' = [quit EXCEPT !.at = "gone"]
  /\ UNCHANGED <<known, runner, ask, entered, seen>>

(* A failure, or the deadline: the app goes on.                              *)
QuitFails ==
  /\ \/ quit.at = "draining" /\ ~(Drained /\ Opens)
     \/ /\ quit.at = "closing"
        /\ \A p \in Profile : quit.aim[p].at \notin {"waits", "sent"}
        /\ ~AllClosed
  /\ quit' = QuitOver
  /\ UNCHANGED <<known, runner, ask, entered, seen>>

OpeningsNext ==
  \/ \E a \in Asking :
       \/ AskOpen(a) \/ OpenFails(a) \/ Reserved(a) \/ FindsLaunch(a) \/ Reconciles(a)
       \/ OpensAgain(a) \/ WaitsReady(a) \/ Activates(a)
  \/ \E i \in Start :
       \/ Spawns(i) \/ ComesUp(i) \/ IsReady(i) \/ FailsStartup(i) \/ RefusesClose(i)
       \/ ProcessEnds(i) \/ ChildReaped(i)
  \/ \E p \in Profile : FindsFree(p) \/ Closes(p) \/ \E id \in Start \cup {Nil} : Prunes(p, id)
  \/ SeesIdle \/ IdleExit \/ AskQuit \/ QuitBegins \/ StopsJobs \/ ExitsApp \/ QuitFails

OpeningsSpec == OpeningsInit /\ [][OpeningsNext]_openingVars

-----------------------------------------------------------------------------
(* A process that holds a vault is in the coordinator's book under its own   *)
(* launch id, whoever forgets launches meanwhile, so that Quit closes it and *)
(* no second one is started for its vault; an app that is gone has left no   *)
(* process and no request it accepted; and one that ends because its last    *)
(* window closed had nothing open and nothing accepted (remove_launch,       *)
(* reconcile_adopted, handle_host, idle_exit_candidate, finish_quit).        *)
NobodyIsAbandoned ==
  /\ \A i \in Start : runner[i].at \in Holding => known[runner[i].of].id \in {i, Nil}
  /\ quit.at = "gone" => \A a \in Asking : ask[a].at \notin Busy
  /\ quit.idle = "quits" => Opens /\ \A a \in Asking : ask[a].at \notin Busy
=============================================================================
