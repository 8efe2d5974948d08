----------------------------- MODULE VaultHandoff -----------------------------
(* Switching the main window from the vault of one process to another vault: *)
(* the coordinator's handoff (vault_supervisor.rs), its journal              *)
(* (vault_handoff.rs), the vaults' OS leases (storage_locks.rs), and the     *)
(* processes that hold them.  The coordinator opens the target hidden, asks  *)
(* the source to close, and shows the target when the source is gone; it may *)
(* crash at any point and is then started again, and takes up the journal.   *)
(* A process is the only holder of its vault's lease from its start to its   *)
(* end.  How a process closes is VaultClose; here it closes, fails to, or is *)
(* told to stop.                                                             *)
LOCAL INSTANCE Integers

CONSTANTS
  MaxLaunches,  \* bound: processes started and launch ids planned
  MaxCrashes,   \* bound: crashes of the coordinator or a process, failed waits
  Retries       \* HANDOFF_RETRIES

ASSUME VaultHandoffAssumption ==
  /\ MaxLaunches \in Nat /\ MaxCrashes \in Nat /\ Retries \in Nat \ {0}

Vault == {"source", "target"}
Launch == 1 .. MaxLaunches
Unknown == -1        \* the nil id of an owner that could not be identified

VARIABLES
  process,  \* who holds each vault's lease
  calls,    \* close requests that may still reach a process: launches
  book,     \* Book.workers, and whether the coordinator runs
  fence,    \* Book.handoff
  journal,  \* vault-handoff.json
  task,     \* where the thread that switches is
  tries,    \* Book.handoff_failures
  used      \* launch ids issued, and faults so far

handoffVars == <<process, calls, book, fence, journal, task, tries, used>>

NoProcess == [launch |-> 0, state |-> "none", close |-> "no"]
Absent == [launch |-> 0, adopted |-> FALSE, ready |-> FALSE]
NoTask == [at |-> "idle", first |-> FALSE, vault |-> "source"]
NoRecord == [phase |-> "none", source |-> 0, target |-> 0]

HandoffInit ==
  /\ process = [v \in Vault |-> IF v = "source"
                 THEN [launch |-> 1, state |-> "ready", close |-> "no"] ELSE NoProcess]
  /\ calls = {}
  /\ book = [up |-> TRUE,
             at |-> [v \in Vault |-> IF v = "source"
                      THEN [launch |-> 1, adopted |-> FALSE, ready |-> TRUE] ELSE Absent]]
  /\ fence = FALSE
  /\ journal = NoRecord
  /\ task = NoTask
  /\ tries = 0
  /\ used = [launches |-> 1, faults |-> 0]

Fault == used.faults < MaxCrashes /\ used' = [used EXCEPT !.faults = @ + 1]
Active == journal.phase \in {"preparing", "closing", "closed"}
Wanted(v) == IF v = "source" THEN journal.source ELSE journal.target

-----------------------------------------------------------------------------
(* The processes.                                                            *)
Free(v) == process[v].launch = 0

(* open_with_launch: the book names the launch, and the process starts, which*)
(* ends at once if the vault is still held.                                  *)
Spawned(v, launch) ==
  /\ book' = [book EXCEPT !.at[v] = [launch |-> launch, adopted |-> FALSE, ready |-> FALSE]]
  /\ process' = IF Free(v)
                THEN [process EXCEPT ![v] = [launch |-> launch, state |-> "starting", close |-> "no"]]
                ELSE process

Ready(v) ==
  /\ process[v].state = "starting"
  /\ process' = [process EXCEPT ![v].state = "ready"]
  /\ book' = IF book.up /\ book.at[v].launch = process[v].launch
             THEN [book EXCEPT !.at[v].ready = TRUE] ELSE book
  /\ UNCHANGED <<calls, fence, journal, task, tries, used>>

(* The request reaches the process; a second copy is the first one's alias,  *)
(* and one that was cancelled before is not taken.                           *)
HearClose(v) ==
  /\ process[v].launch \in calls
  /\ calls' = calls \ {process[v].launch}
  /\ process' = IF process[v].state = "ready" /\ process[v].close = "no"
                THEN [process EXCEPT ![v].close = "asked"] ELSE process
  /\ UNCHANGED <<book, fence, journal, task, tries, used>>

(* Its windows saved and it exits, or they did not.                          *)
CommitClose(v) ==
  /\ process[v].state = "ready" /\ process[v].close = "asked"
  /\ process' = [process EXCEPT ![v].state = "exiting"]
  /\ UNCHANGED <<calls, book, fence, journal, task, tries, used>>
CloseFails(v) ==
  /\ process[v].state = "ready" /\ process[v].close = "asked"
  /\ process' = [process EXCEPT ![v].close = "failed"]
  /\ UNCHANGED <<calls, book, fence, journal, task, tries, used>>

Exit(v) ==
  /\ process[v].state = "exiting"
  /\ process' = [process EXCEPT ![v] = NoProcess]
  /\ UNCHANGED <<calls, book, fence, journal, task, tries, used>>
(* A crash, or the user closes its last window.                              *)
Dies(v) ==
  /\ ~Free(v) /\ Fault
  /\ process' = [process EXCEPT ![v] = NoProcess]
  /\ UNCHANGED <<calls, book, fence, journal, task, tries>>

(* remove_launch: the thread that waits for a child, and reconcile_adopted   *)
(* for one that another coordinator started.                                 *)
Reap(v) ==
  /\ book.up /\ book.at[v].launch # 0
  /\ IF book.at[v].adopted THEN Free(v) ELSE process[v].launch # book.at[v].launch
  /\ book' = [book EXCEPT !.at[v] = Absent]
  /\ UNCHANGED <<process, calls, fence, journal, task, tries, used>>

(* While no switch is in progress any vault can be opened.                   *)
Open(v) ==
  /\ book.up /\ ~fence /\ task.at = "idle" /\ book.at[v].launch = 0
  /\ used.launches < MaxLaunches
  /\ used' = [used EXCEPT !.launches = @ + 1]
  /\ Spawned(v, used'.launches)
  /\ UNCHANGED <<calls, fence, journal, task, tries>>

-----------------------------------------------------------------------------
(* close_owner: whether the process with this launch still holds its vault.  *)
CloseOwner(v, launch) ==
  LET at == book.at[v]
  IN IF at.launch \notin {0, launch} THEN "changed"
     ELSE IF at.launch = launch /\ ~at.adopted THEN "present"
     ELSE IF Free(v) THEN "released"
     ELSE IF at.launch = 0 THEN "changed" ELSE "present"

SourceIs == CloseOwner("source", journal.source)
TargetIs == CloseOwner("target", journal.target)
Forgotten(v) == IF book.at[v].launch = Wanted(v) THEN [book EXCEPT !.at[v] = Absent] ELSE book

(* The thread: "first" is the attempt the user asked for, whose failure it    *)
(* undoes as far as it can; the later ones are the lifetime monitor's.        *)
ThreadAt(where) == book.up /\ task.at = where
Goto(where) == task' = [task EXCEPT !.at = where]
Settled == task' = NoTask /\ tries' = 0
Advance(phase) == journal' = [journal EXCEPT !.phase = phase]

(* A failed attempt is tried again however many failed.                      *)
CountedNever ==
  tries' = tries /\ task' = NoTask /\ UNCHANGED <<fence, journal>>

(* handoff_failed, abandon_handoff: after so many attempts the record is set  *)
(* aside, the fence goes, and the vault the user was heading for is opened.   *)
Counted ==
  IF tries + 1 < Retries
  THEN tries' = tries + 1 /\ task' = NoTask /\ UNCHANGED <<fence, journal>>
  ELSE /\ tries' = 0 /\ fence' = FALSE
       /\ task' = [NoTask EXCEPT !.at = "reopen",
                               !.vault = IF journal.phase = "closed" THEN "target" ELSE "source"]
       /\ Advance("dropped")

TaskFails ==
  IF ~task.first THEN Counted
  ELSE /\ IF journal.phase # "closed" /\ task.at \notin {"undo", "drop"}
          THEN Goto("undo") ELSE task' = NoTask
       /\ UNCHANGED <<fence, journal, tries>>

-----------------------------------------------------------------------------
(* handoff, up to the journal's first record.                                *)
BeginSwitch ==
  /\ ThreadAt("idle") /\ ~fence
  /\ LET at == book.at["source"] IN at.ready /\ process["source"].launch = at.launch
  /\ process["source"].state = "ready" /\ process["source"].close # "asked"
  /\ book.at["target"].launch = 0
  /\ used.launches < MaxLaunches
  /\ used' = [used EXCEPT !.launches = @ + 1]
  /\ journal' = [phase |-> "preparing", source |-> book.at["source"].launch,
                 target |-> used'.launches]
  /\ process' = [process EXCEPT !["source"].close = "no"]    \* a new request id
  /\ calls' = calls \ {journal'.source}
  /\ fence' = TRUE
  /\ task' = [at |-> "prepare", first |-> TRUE, vault |-> "source"]
  /\ UNCHANGED <<book, tries>>

(* prepare_handoff_target: the target's process, or a new one under a new id *)
(* that is in the journal before it starts.                                  *)
Prepare ==
  /\ ThreadAt("prepare")
  /\ LET at == book.at["target"].launch
     IN \/ /\ at = journal.target
           /\ Goto("await") /\ UNCHANGED <<process, book, fence, journal, tries, used>>
        \/ /\ at = 0 /\ Free("target") /\ used.launches < MaxLaunches
           /\ used' = [used EXCEPT !.launches = @ + 1]
           /\ journal' = [journal EXCEPT !.target = used'.launches]
           /\ Spawned("target", used'.launches)
           /\ Goto("await") /\ UNCHANGED <<fence, tries>>
        \/ /\ at # journal.target /\ (at # 0 \/ ~Free("target") \/ used.launches = MaxLaunches)
           /\ TaskFails /\ UNCHANGED <<process, book, used>>
  /\ UNCHANGED calls

(* wait_for_ready and the hidden window; then the source may be closed, or,  *)
(* once it is, the target is shown and the switch is complete.               *)
Await ==
  /\ ThreadAt("await")
  /\ book.at["target"].launch = journal.target /\ book.at["target"].ready
  /\ process["target"].launch = journal.target
  /\ IF journal.phase = "preparing"
     THEN Advance("closing") /\ Goto("close") /\ UNCHANGED <<fence, tries>>
     ELSE Advance("completed") /\ fence' = FALSE /\ Settled
  /\ UNCHANGED <<process, calls, book, used>>

SourceClosed ==
  /\ Advance("closed") /\ book' = Forgotten("source") /\ Goto("prepare")

(* close_for_quit for the source.                                            *)
CloseSource ==
  /\ ThreadAt("close")
  /\ \/ /\ SourceIs = "released" /\ SourceClosed
        /\ UNCHANGED <<calls, fence, tries>>
     \/ /\ SourceIs = "present" /\ book.at["source"].ready /\ journal.source \notin calls
        /\ process["source"].launch = journal.source /\ process["source"].close = "no"
        /\ calls' = calls \cup {journal.source}
        /\ UNCHANGED <<book, fence, journal, task, tries>>
  /\ UNCHANGED <<process, used>>

(* Only a request that has arrived can be cancelled.                         *)
UncalledKnown(p) == IF p.close = "asked" THEN [p EXCEPT !.close = "stopped"] ELSE p

(* cancel_close: refused by a process that has committed, and a tombstone    *)
(* for a request that never reached it.                                      *)
Uncalled(p) == [p EXCEPT !.close = "stopped"]
StopSource ==
  /\ SourceIs = "present" /\ book.at["source"].ready
  /\ process["source"].launch = journal.source /\ process["source"].state = "ready"
  /\ process' = [process EXCEPT !["source"] = Uncalled(@)]

(* After a failure of the first attempt (handoff's last part): the source is *)
(* kept if it can be told to stay, and the switch goes on if it is gone.     *)
Undo ==
  /\ ThreadAt("undo")
  /\ \/ /\ SourceIs = "released" /\ journal.phase = "closing" /\ SourceClosed
        /\ UNCHANGED process
     \/ /\ SourceIs = "released" /\ journal.phase = "preparing"
        /\ book' = Forgotten("source") /\ task' = [task EXCEPT !.at = "drop", !.vault = "reopen"]
        /\ UNCHANGED <<process, journal>>
     \/ StopSource /\ Goto("drop") /\ UNCHANGED <<book, journal>>
  /\ UNCHANGED <<calls, fence, tries, used>>

(* resume_handoff, from the lifetime monitor or after a restart.             *)
TakeUp ==
  /\ ThreadAt("idle") /\ fence
  /\ IF Active
     THEN /\ task' = [at |-> IF journal.phase = "closed" THEN "prepare" ELSE "resume",
                      first |-> FALSE, vault |-> "source"]
          /\ UNCHANGED <<fence, tries>>
     ELSE fence' = FALSE /\ Settled
  /\ UNCHANGED <<process, calls, book, journal, used>>

ResumeSwitch ==
  /\ ThreadAt("resume")
  /\ \/ /\ SourceIs = "released" /\ journal.phase = "closing" /\ SourceClosed
        /\ UNCHANGED process
     \/ /\ SourceIs = "released" /\ journal.phase = "preparing"
        /\ book' = Forgotten("source") /\ task' = [task EXCEPT !.at = "drop", !.vault = "reopen"]
        /\ UNCHANGED <<process, journal>>
     \/ SourceIs = "changed" /\ Goto("drop") /\ UNCHANGED <<process, book, journal>>
     \/ /\ StopSource
        /\ task' = [task EXCEPT !.at = "drop", !.vault = "reopen"] /\ UNCHANGED <<book, journal>>
  /\ UNCHANGED <<calls, fence, tries, used>>

(* abort_handoff: the prepared target closes first, and then the switch is   *)
(* over.                                                                     *)
DropTarget ==
  /\ ThreadAt("drop")
  /\ \/ /\ TargetIs # "present"
        /\ book' = IF TargetIs = "released" THEN Forgotten("target") ELSE book
        /\ Advance("cancelled") /\ fence' = FALSE
        /\ IF task.vault = "reopen"
           THEN task' = [NoTask EXCEPT !.at = "reopen"] /\ tries' = 0 ELSE Settled
        /\ UNCHANGED calls
     \/ /\ TargetIs = "present" /\ book.at["target"].ready /\ journal.target \notin calls
        /\ process["target"].launch = journal.target /\ process["target"].close = "no"
        /\ calls' = calls \cup {journal.target}
        /\ UNCHANGED <<book, fence, journal, task, tries>>
  /\ UNCHANGED <<process, used>>

(* open_and_wait for the vault that is left to show.                         *)
Reopen ==
  /\ ThreadAt("reopen")
  /\ task' = NoTask
  /\ IF book.at[task.vault].launch = 0 /\ used.launches < MaxLaunches
     THEN /\ used' = [used EXCEPT !.launches = @ + 1]
          /\ Spawned(task.vault, used'.launches)
     ELSE UNCHANGED <<process, book, used>>
  /\ UNCHANGED <<calls, fence, journal, tries>>

(* A wait that reached its deadline, a call without an answer, a process     *)
(* that is another one or answers that it cannot close.                      *)
GivesUp ==
  /\ book.up /\ task.at \in {"await", "close", "undo", "resume", "drop"}
  /\ TaskFails
  /\ UNCHANGED <<process, calls, book, used>>

Thread ==
  \/ Prepare \/ Await \/ CloseSource \/ Undo \/ TakeUp \/ ResumeSwitch \/ DropTarget \/ Reopen \/ GivesUp

-----------------------------------------------------------------------------
(* The coordinator crashes; the processes go on, and one of them starts it   *)
(* again.  recover_workers adopts who holds a lease, or keeps a mark for an  *)
(* owner it cannot identify, and an active journal puts the fence up.        *)
Crash ==
  /\ book.up /\ Fault
  /\ book' = [up |-> FALSE, at |-> [v \in Vault |-> Absent]]
  /\ fence' = FALSE /\ task' = NoTask /\ tries' = 0
  /\ UNCHANGED <<process, calls, journal>>

Adopted(v, told) ==
  IF Free(v) THEN Absent
  ELSE [launch |-> IF told THEN process[v].launch ELSE Unknown, adopted |-> TRUE,
        ready |-> told /\ process[v].state # "starting"]

Restart ==
  /\ ~book.up
  /\ \E hidden \in SUBSET Vault :
       /\ IF hidden = {} THEN UNCHANGED used ELSE Fault
       /\ book' = [up |-> TRUE, at |-> [v \in Vault |-> Adopted(v, v \notin hidden)]]
  /\ fence' = Active
  /\ UNCHANGED <<process, calls, journal, task, tries>>

HandoffNext ==
  \/ \E v \in Vault : Ready(v) \/ HearClose(v) \/ CommitClose(v) \/ CloseFails(v)
                      \/ Exit(v) \/ Dies(v) \/ Reap(v) \/ Open(v)
  \/ BeginSwitch \/ Thread \/ Crash \/ Restart

(* The thread gets on, every wait of it ends, and a coordinator that crashed *)
(* is started again.  Nothing is assumed of the vaults' processes.           *)
HandoffFairness == WF_handoffVars(Thread) /\ WF_handoffVars(Restart)

HandoffSpec == HandoffInit /\ [][HandoffNext]_handoffVars /\ HandoffFairness

-----------------------------------------------------------------------------
HandoffOK ==
  /\ \A v \in Vault : process[v].launch \in 0 .. used.launches
  /\ \A v \in Vault : book.at[v].launch \in {Unknown} \cup 0 .. used.launches
  /\ Active /\ book.up => fence
  /\ task.at # "idle" => fence \/ task.at = "reopen"

(* The switch as VaultSwitch describes it: its decision is the journal's     *)
(* phase, and the source is closing while it was asked and was not told to   *)
(* stop, or while a request may still reach it.                              *)
Intent ==
  CASE journal.phase \in {"preparing", "closing"} -> "switching"
    [] journal.phase \in {"closed", "completed"} -> "moved"
    [] journal.phase = "cancelled" -> "kept"
    [] OTHER -> journal.phase

Source ==
  LET p == process["source"]
  IN IF p.launch = 0 \/ p.launch # journal.source THEN "closed"
     ELSE IF p.close = "asked" \/ (p.close = "no" /\ p.launch \in calls) THEN "closing"
     ELSE "open"

Switch == INSTANCE VaultSwitch
            WITH intent <- Intent, source <- Source,
                 known <- book.at["source"].launch # Unknown

(* Whatever crashes, the switch is decided once: for the target only when    *)
(* the source's process has let go of its vault, for the source only when    *)
(* no request to close can still take it away (or it cannot be told from     *)
(* another process).  (vault_supervisor.rs:2869-3070, vault_handoff.rs:1.)   *)
ImplementsSwitch == Switch!Spec

(* A switch does not fence opens and Quit forever (abandon_handoff,          *)
(* vault_supervisor.rs:1897).                                                *)
FenceFalls == []<>(book.up /\ ~fence)
=============================================================================
