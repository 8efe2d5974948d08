---------------------------- MODULE VaultsProofs ----------------------------
(***************************************************************************)
(* What is proved of the app's coordinator: of the switch of a window from *)
(* one vault to another (VaultHandoff), of the openings of vaults and the  *)
(* end of the app (Openings), and of the close of a vault's process        *)
(* (VaultClose).  The three share nothing.                                 *)
(***************************************************************************)
EXTENDS VaultHandoff, Openings, VaultClose, Integers, SequenceTheorems, TLAPS
-----------------------------------------------------------------------------
(***************************************************************************)
(* That the coordinator's switch of a window is the switch that            *)
(* VaultSwitch describes, whatever crashes, for any number of processes,   *)
(* crashes and attempts.                                                   *)
(***************************************************************************)
Process == [launch : Nat, state : {"none", "starting", "ready", "exiting"},
            close : {"no", "asked", "stopped", "failed"}]
Entry == [launch : Nat \cup {Unknown}, adopted : BOOLEAN, ready : BOOLEAN]
Phases == {"none", "preparing", "closing", "closed", "completed", "cancelled", "dropped"}
Places == {"idle", "prepare", "await", "close", "undo", "resume", "drop", "reopen"}

Books == [up : BOOLEAN, at : [Vault -> Entry]]
Journals == [phase : Phases, source : Nat, target : Nat]
Tasks == [at : Places, first : BOOLEAN, vault : {"source", "target", "reopen"}]

HandoffTypeOK ==
  /\ process \in [Vault -> Process]
  /\ calls \subseteq Nat
  /\ book \in Books
  /\ fence \in BOOLEAN
  /\ journal \in Journals
  /\ task \in Tasks
  /\ task.at = "reopen" => task.vault \in Vault
  /\ tries \in Nat
  /\ used \in [launches : Nat, faults : Nat]

(* Launch ids are issued once, and the processes and the journal have those  *)
(* that were.                                                                *)
Issued ==
  /\ \A v \in Vault : process[v].launch <= used.launches
  /\ \A v \in Vault : process[v].launch = 0 => process[v].state = "none"
  /\ journal.source <= used.launches

(* The book knows who holds a lease, or that somebody does, and whom it does *)
(* not know it did not start.                                                *)
BookKnows ==
  book.up => \A v \in Vault : /\ ~Free(v) => book.at[v].launch \in {process[v].launch, Unknown}
                              /\ book.at[v].launch = Unknown => book.at[v].adopted

(* The process the switch began with is gone, or will not close any more on  *)
(* a request of it, or cannot be told from another one.                      *)
SourceSafe ==
  LET p == process["source"]
  IN \/ p.launch = 0 \/ p.launch # journal.source
     \/ p.close = "stopped" \/ book.at["source"].launch = Unknown

(* Where the thread is, the journal allows it to be.                         *)
ThreadFits ==
  /\ Active /\ book.up => fence
  /\ ~book.up => task.at = "idle"
  /\ task.at \in {"prepare", "await"} => journal.phase \in {"preparing", "closed"}
  /\ task.at = "close" => journal.phase = "closing"
  /\ task.at \in {"undo", "resume", "drop"} => journal.phase \in {"preparing", "closing"}
  /\ task.at = "drop" => SourceSafe

HandoffInv == HandoffTypeOK /\ Issued /\ BookKnows /\ ThreadFits

(* The steps of the specification, one by one.                               *)
LEMMA HandoffSteps ==
  ASSUME HandoffNext
  PROVE  \/ \E v \in Vault : Ready(v) \/ HearClose(v) \/ CommitClose(v) \/ CloseFails(v)
         \/ \E v \in Vault : Exit(v) \/ Dies(v) \/ Reap(v) \/ Open(v)
         \/ BeginSwitch \/ Prepare \/ Await \/ CloseSource \/ Undo \/ TakeUp \/ ResumeSwitch
         \/ DropTarget \/ Reopen \/ GivesUp \/ Crash \/ Restart
BY DEF HandoffNext, Thread

LEMMA HandoffStarts == HandoffInit => HandoffInv
<1> SUFFICES ASSUME HandoffInit
             PROVE  HandoffInv
  OBVIOUS
<1>1. process \in [Vault -> Process] /\ book \in Books
  BY DEF HandoffInit, Vault, Process, NoProcess, Books, Entry, Absent, Unknown
<1>2. HandoffTypeOK
  BY <1>1 DEF HandoffInit, HandoffTypeOK, Journals, NoRecord, Tasks, NoTask, Phases, Places
<1>3. Issued /\ BookKnows /\ ThreadFits
  BY DEF HandoffInit, Issued, BookKnows, ThreadFits, Active, Free, Vault, NoProcess, NoRecord, NoTask,
         Absent, Unknown
<1> QED
  BY <1>2, <1>3 DEF HandoffInv

-----------------------------------------------------------------------------
(* What the parts of the steps do.                                           *)
LEMMA SpawnIs ==
  ASSUME HandoffTypeOK, NEW v \in Vault, NEW launch \in Nat \ {0}, Spawned(v, launch)
  PROVE  /\ process' \in [Vault -> Process] /\ book' \in Books
         /\ book'.up = book.up /\ book'.at[v].launch = launch
         /\ \A u \in Vault \ {v} : process'[u] = process[u] /\ book'.at[u] = book.at[u]
         /\ IF Free(v) THEN process'[v].launch = launch /\ process'[v].state = "starting"
            ELSE process'[v] = process[v]
<1> DEFINE started == [launch |-> launch, state |-> "starting", close |-> "no"]
           entry == [launch |-> launch, adopted |-> FALSE, ready |-> FALSE]
<1> process \in [Vault -> Process] /\ book \in Books
  BY DEF HandoffTypeOK
<1>1. started \in Process /\ entry \in Entry
  BY DEF Process, Entry
<1>2. book' = [book EXCEPT !.at[v] = entry]
  BY DEF Spawned
<1>3. process' = IF Free(v) THEN [process EXCEPT ![v] = started] ELSE process
  BY DEF Spawned
<1>4. started.launch = launch /\ started.state = "starting" /\ entry.launch = launch
  OBVIOUS
<1> HIDE DEF started, entry
<1>5. book' \in Books /\ book'.up = book.up /\ book'.at[v] = entry
      /\ \A u \in Vault \ {v} : book'.at[u] = book.at[u]
  BY <1>1, <1>2 DEF Books
<1>6. process' \in [Vault -> Process] /\ \A u \in Vault \ {v} : process'[u] = process[u]
  BY <1>1, <1>3
<1>7. IF Free(v) THEN process'[v] = started ELSE process'[v] = process[v]
  BY <1>3
<1> QED
  BY <1>4, <1>5, <1>6, <1>7

LEMMA ForgottenIs ==
  ASSUME HandoffTypeOK, NEW v \in Vault
  PROVE  /\ Forgotten(v) \in Books /\ Forgotten(v).up = book.up
         /\ \A u \in Vault \ {v} : Forgotten(v).at[u] = book.at[u]
         /\ Forgotten(v).at[v].launch = IF book.at[v].launch = Wanted(v) THEN 0 ELSE book.at[v].launch
<1>1. Absent \in Entry /\ Absent.launch = 0
  BY DEF Absent, Entry
<1>2. book \in Books
  BY DEF HandoffTypeOK
<1> QED
  BY <1>1, <1>2 DEF Forgotten, Books

LEMMA AdvanceIs ==
  ASSUME HandoffTypeOK, NEW phase \in Phases, Advance(phase)
  PROVE  /\ journal' \in Journals /\ journal'.phase = phase
         /\ journal'.source = journal.source /\ journal'.target = journal.target
BY DEF HandoffTypeOK, Advance, Journals

LEMMA GotoIs ==
  ASSUME HandoffTypeOK, NEW where \in Places \ {"reopen"}, Goto(where)
  PROVE  task' \in Tasks /\ task'.at = where
BY DEF HandoffTypeOK, Goto, Tasks

LEMMA NoTaskIs ==
  /\ NoTask \in Tasks /\ NoTask.at = "idle"
  /\ \A v \in Vault : LET t == [NoTask EXCEPT !.at = "reopen", !.vault = v]
                      IN t \in Tasks /\ t.at = "reopen" /\ t.vault = v
  /\ LET t == [NoTask EXCEPT !.at = "reopen"]
     IN t \in Tasks /\ t.at = "reopen" /\ t.vault = "source"
BY DEF NoTask, Tasks, Places, Vault

LEMMA FailureIs ==
  ASSUME HandoffTypeOK, TaskFails
  PROVE  /\ tries' \in Nat /\ fence' \in BOOLEAN /\ journal' \in Journals /\ task' \in Tasks
         /\ task'.at = "reopen" => task'.vault \in Vault
         /\ journal'.source = journal.source
         /\ \/ /\ UNCHANGED <<fence, journal>>
               /\ task'.at = "idle" \/ (task'.at = "undo" /\ journal.phase # "closed")
            \/ task'.at = "reopen" /\ journal'.phase = "dropped"
<1> task \in Tasks /\ journal \in Journals /\ tries \in Nat /\ fence \in BOOLEAN
  BY DEF HandoffTypeOK
<1>1. CASE ~task.first /\ tries + 1 < Retries
  <2>1. UNCHANGED fence /\ UNCHANGED journal /\ task' = NoTask
    BY <1>1 DEF TaskFails, Counted
  <2>2. tries' = tries + 1
    BY <1>1 DEF TaskFails, Counted
  <2>3. tries' \in Nat
    BY <2>2
  <2> QED
    BY <2>1, <2>3, NoTaskIs
<1>2. CASE ~task.first /\ ~(tries + 1 < Retries)
  <2>1. Advance("dropped") /\ "dropped" \in Phases /\ tries' = 0
    BY <1>2 DEF TaskFails, Counted, Phases
  <2>0. fence' \in BOOLEAN
    BY <1>2 DEF TaskFails, Counted
  <2>2. \E v \in Vault : task' = [NoTask EXCEPT !.at = "reopen", !.vault = v]
    BY <1>2 DEF TaskFails, Counted, Vault
  <2>3. task' \in Tasks /\ task'.at = "reopen" /\ task'.vault \in Vault
    BY <2>2, NoTaskIs
  <2>4. journal' \in Journals /\ journal'.phase = "dropped" /\ journal'.source = journal.source
    BY <2>1, AdvanceIs
  <2> QED
    BY <2>0, <2>1, <2>3, <2>4
<1>3. CASE task.first
  <2>1. UNCHANGED <<fence, journal, tries>>
    BY <1>3 DEF TaskFails
  <2>2. CASE journal.phase # "closed" /\ task.at \notin {"undo", "drop"}
    <3>1. Goto("undo") /\ "undo" \in Places \ {"reopen"}
      BY <1>3, <2>2 DEF TaskFails, Places
    <3> QED
      BY <2>1, <2>2, <3>1, GotoIs
  <2>3. CASE ~(journal.phase # "closed" /\ task.at \notin {"undo", "drop"})
    BY <1>3, <2>1, <2>3, NoTaskIs DEF TaskFails
  <2> QED
    BY <2>2, <2>3
<1> QED
  BY <1>1, <1>2, <1>3

-----------------------------------------------------------------------------
LEMMA HandoffKeepsTypes ==
  ASSUME HandoffTypeOK, HandoffNext
  PROVE  HandoffTypeOK'
<1> /\ process \in [Vault -> Process] /\ calls \subseteq Nat /\ book \in Books /\ fence \in BOOLEAN
    /\ journal \in Journals /\ task \in Tasks /\ tries \in Nat
    /\ used \in [launches : Nat, faults : Nat]
    /\ task.at = "reopen" => task.vault \in Vault
  BY DEF HandoffTypeOK
<1>1. ASSUME NEW v \in Vault, Ready(v)
      PROVE  HandoffTypeOK'
  <2>1. process' \in [Vault -> Process]
    BY <1>1 DEF Ready, Process
  <2>2. [book EXCEPT !.at[v].ready = TRUE] \in Books
    BY ZenonT(60) DEF Books, Entry
  <2> QED
    BY <1>1, <2>1, <2>2 DEF Ready, HandoffTypeOK
<1>2. ASSUME NEW v \in Vault, HearClose(v)
      PROVE  HandoffTypeOK'
  <2>1. [process EXCEPT ![v].close = "asked"] \in [Vault -> Process]
    BY DEF Process
  <2> QED
    BY <1>2, <2>1 DEF HearClose, HandoffTypeOK
<1>3. ASSUME NEW v \in Vault, CommitClose(v) \/ CloseFails(v) \/ Exit(v)
      PROVE  HandoffTypeOK'
  <2>1. NoProcess \in Process
    BY DEF NoProcess, Process
  <2>2. process' \in [Vault -> Process]
    BY <1>3, <2>1 DEF CommitClose, CloseFails, Exit, Process
  <2> QED
    BY <1>3, <2>2 DEF CommitClose, CloseFails, Exit, HandoffTypeOK
<1>4. ASSUME NEW v \in Vault, Dies(v)
      PROVE  HandoffTypeOK'
  <2>1. NoProcess \in Process
    BY DEF NoProcess, Process
  <2>2. process' \in [Vault -> Process] /\ used' \in [launches : Nat, faults : Nat]
    BY <1>4, <2>1 DEF Dies, Fault
  <2> QED
    BY <1>4, <2>2 DEF Dies, HandoffTypeOK
<1>5. ASSUME NEW v \in Vault, Reap(v)
      PROVE  HandoffTypeOK'
  <2>1. Absent \in Entry
    BY DEF Absent, Entry
  <2>2. book' \in Books
    BY <1>5, <2>1 DEF Reap, Books
  <2> QED
    BY <1>5, <2>2 DEF Reap, HandoffTypeOK
<1>6. ASSUME NEW v \in Vault, Open(v)
      PROVE  HandoffTypeOK'
  <2>1. used' \in [launches : Nat, faults : Nat] /\ used'.launches \in Nat \ {0}
    BY <1>6 DEF Open
  <2>2. process' \in [Vault -> Process] /\ book' \in Books
    BY <1>6, <2>1, SpawnIs DEF Open
  <2> QED
    BY <1>6, <2>1, <2>2 DEF Open, HandoffTypeOK
<1>7. ASSUME BeginSwitch
      PROVE  HandoffTypeOK'
  <2>1. used' \in [launches : Nat, faults : Nat]
    BY <1>7 DEF BeginSwitch
  <2>2. book.at["source"].launch \in Nat
    <3>1. process["source"].launch \in Nat
      BY DEF Vault, Process
    <3> QED
      BY <1>7, <3>1 DEF BeginSwitch
  <2>3. journal' \in Journals
    BY <1>7, <2>1, <2>2 DEF BeginSwitch, Journals, Phases
  <2>4. process' \in [Vault -> Process]
    BY <1>7 DEF BeginSwitch, Process
  <2>5. task' \in Tasks /\ task'.at = "prepare"
    BY <1>7 DEF BeginSwitch, Tasks, Places
  <2> QED
    BY <1>7, <2>1, <2>3, <2>4, <2>5 DEF BeginSwitch, HandoffTypeOK
<1>8. ASSUME Prepare
      PROVE  HandoffTypeOK'
  <2>1. "await" \in Places \ {"reopen"} /\ "target" \in Vault
    BY DEF Places, Vault
  <2>2. CASE Goto("await") /\ UNCHANGED <<process, book, fence, journal, tries, used>>
    BY <1>8, <2>1, <2>2, GotoIs DEF Prepare, HandoffTypeOK
  <2>3. CASE /\ used' = [used EXCEPT !.launches = @ + 1]
             /\ journal' = [journal EXCEPT !.target = used'.launches]
             /\ Spawned("target", used'.launches)
             /\ Goto("await") /\ UNCHANGED <<fence, tries>>
    <3>1. used' \in [launches : Nat, faults : Nat] /\ used'.launches \in Nat \ {0}
      BY <2>3
    <3>2. process' \in [Vault -> Process] /\ book' \in Books
      BY <2>1, <2>3, <3>1, SpawnIs
    <3>3. journal' \in Journals
      BY <2>3, <3>1 DEF Journals
    <3>4. task' \in Tasks /\ task'.at = "await"
      BY <2>1, <2>3, GotoIs
    <3> QED
      BY <1>8, <2>3, <3>1, <3>2, <3>3, <3>4 DEF Prepare, HandoffTypeOK
  <2>4. CASE TaskFails /\ UNCHANGED <<process, book, used>>
    BY <1>8, <2>4, FailureIs DEF Prepare, HandoffTypeOK
  <2> QED
    BY <1>8, <2>2, <2>3, <2>4 DEF Prepare
<1>9. ASSUME Await
      PROVE  HandoffTypeOK'
  <2>1. {"closing", "completed"} \subseteq Phases /\ "close" \in Places \ {"reopen"}
    BY DEF Phases, Places
  <2>2. journal' \in Journals
    BY <1>9, <2>1, AdvanceIs DEF Await
  <2>3. task' \in Tasks /\ task'.at # "reopen"
    BY <1>9, <2>1, GotoIs, NoTaskIs DEF Await, Settled
  <2>4. fence' \in BOOLEAN
    BY <1>9 DEF Await
  <2>5. tries' \in Nat
    BY <1>9 DEF Await, Settled
  <2> QED
    BY <1>9, <2>2, <2>3, <2>4, <2>5 DEF Await, HandoffTypeOK
<1>10. ASSUME SourceClosed
       PROVE  journal' \in Journals /\ book' \in Books /\ task' \in Tasks /\ task'.at = "prepare"
  <2>1. "closed" \in Phases /\ "prepare" \in Places \ {"reopen"} /\ "source" \in Vault
    BY DEF Phases, Places, Vault
  <2> QED
    BY <1>10, <2>1, AdvanceIs, GotoIs, ForgottenIs DEF SourceClosed
<1>11. ASSUME CloseSource
       PROVE  HandoffTypeOK'
  <2>1. calls' \subseteq Nat
    BY <1>11 DEF CloseSource, Journals
  <2>2. journal' \in Journals /\ book' \in Books /\ task' \in Tasks
        /\ (task' = task \/ task'.at = "prepare")
    BY <1>10, <1>11 DEF CloseSource
  <2>3. UNCHANGED <<fence, tries, process, used>>
    BY <1>11 DEF CloseSource
  <2> QED
    BY <2>1, <2>2, <2>3 DEF HandoffTypeOK
<1>12. [process EXCEPT !["source"] = Uncalled(@)] \in [Vault -> Process]
  BY DEF Uncalled, Process, Vault
<1>13. [task EXCEPT !.at = "drop", !.vault = "reopen"] \in Tasks
       /\ [task EXCEPT !.at = "drop", !.vault = "reopen"].at = "drop"
  BY DEF Tasks, Places
<1>14. Forgotten("source") \in Books /\ "drop" \in Places \ {"reopen"}
  BY ForgottenIs DEF Vault, Places
<1>15. ASSUME Undo
       PROVE  HandoffTypeOK'
  <2>1. process' \in [Vault -> Process]
    BY <1>12, <1>15 DEF Undo, StopSource
  <2>2. journal' \in Journals /\ book' \in Books /\ task' \in Tasks /\ task'.at # "reopen"
    BY <1>10, <1>13, <1>14, <1>15, GotoIs DEF Undo
  <2> QED
    BY <1>15, <2>1, <2>2 DEF Undo, HandoffTypeOK
<1>16. ASSUME ResumeSwitch
       PROVE  HandoffTypeOK'
  <2>1. process' \in [Vault -> Process]
    BY <1>12, <1>16 DEF ResumeSwitch, StopSource
  <2>2. journal' \in Journals /\ book' \in Books /\ task' \in Tasks /\ task'.at # "reopen"
    BY <1>10, <1>13, <1>14, <1>16, GotoIs DEF ResumeSwitch
  <2> QED
    BY <1>16, <2>1, <2>2 DEF ResumeSwitch, HandoffTypeOK
<1>17. ASSUME TakeUp
       PROVE  HandoffTypeOK'
  <2>0. \A at \in {"prepare", "resume"} :
          LET t == [at |-> at, first |-> FALSE, vault |-> "source"]
          IN t \in Tasks /\ t.at = at
    BY DEF Tasks, Places
  <2>1. task' \in Tasks /\ task'.at # "reopen"
    BY <1>17, <2>0, NoTaskIs DEF TakeUp, Settled
  <2>2. fence' \in BOOLEAN
    BY <1>17 DEF TakeUp
  <2>3. tries' = tries \/ tries' = 0
    BY <1>17 DEF TakeUp, Settled
  <2> QED
    BY <1>17, <2>1, <2>2, <2>3 DEF TakeUp, HandoffTypeOK
<1>18. ASSUME DropTarget
       PROVE  HandoffTypeOK'
  <2>1. "cancelled" \in Phases /\ "target" \in Vault
    BY DEF Phases, Vault
  <2>2. journal' \in Journals /\ book' \in Books /\ calls' \subseteq Nat
    BY <1>18, <2>1, AdvanceIs, ForgottenIs DEF DropTarget, Journals
  <2>3. task' \in Tasks /\ (task'.at = "reopen" => task'.vault \in Vault)
    BY <1>18, NoTaskIs DEF DropTarget, Settled, Vault
  <2>4. tries' \in Nat /\ UNCHANGED <<process, used>>
    BY <1>18 DEF DropTarget, Settled
  <2>5. fence' \in BOOLEAN
    BY <1>18 DEF DropTarget
  <2> QED
    BY <2>2, <2>3, <2>4, <2>5 DEF HandoffTypeOK
<1>19. ASSUME Reopen
       PROVE  HandoffTypeOK'
  <2>1. task' \in Tasks /\ task'.at = "idle" /\ task.vault \in Vault
    BY <1>19, NoTaskIs DEF Reopen, ThreadAt
  <2>2. CASE UNCHANGED <<process, book, used>>
    BY <1>19, <2>1, <2>2 DEF Reopen, HandoffTypeOK
  <2>3. CASE used' = [used EXCEPT !.launches = @ + 1] /\ Spawned(task.vault, used'.launches)
    <3>1. used' \in [launches : Nat, faults : Nat] /\ used'.launches \in Nat \ {0}
      BY <2>3
    <3>2. process' \in [Vault -> Process] /\ book' \in Books
      BY <2>1, <2>3, <3>1, SpawnIs
    <3> QED
      BY <1>19, <2>1, <3>1, <3>2 DEF Reopen, HandoffTypeOK
  <2> QED
    BY <1>19, <2>2, <2>3 DEF Reopen
<1>20. ASSUME GivesUp
       PROVE  HandoffTypeOK'
  BY <1>20, FailureIs DEF GivesUp, HandoffTypeOK
<1>21. ASSUME Crash
       PROVE  HandoffTypeOK'
  <2>1. Absent \in Entry
    BY DEF Absent, Entry
  <2>2. book' \in Books
    BY <1>21, <2>1 DEF Crash, Books
  <2>3. used' \in [launches : Nat, faults : Nat]
    BY <1>21 DEF Crash, Fault
  <2> QED
    BY <1>21, <2>2, <2>3, NoTaskIs DEF Crash, HandoffTypeOK
<1>22. ASSUME Restart
       PROVE  HandoffTypeOK'
  <2>1. \A v \in Vault, told \in BOOLEAN : Adopted(v, told) \in Entry
    BY DEF Adopted, Absent, Entry, Process
  <2>2. PICK hidden \in SUBSET Vault :
          /\ IF hidden = {} THEN UNCHANGED used ELSE Fault
          /\ book' = [up |-> TRUE, at |-> [v \in Vault |-> Adopted(v, v \notin hidden)]]
    BY <1>22 DEF Restart
  <2>3. used' \in [launches : Nat, faults : Nat]
    BY <2>2 DEF Fault
  <2>5. \A v \in Vault : Adopted(v, v \notin hidden) \in Entry
    <3>1. \A v \in Vault : (v \notin hidden) \in BOOLEAN
      OBVIOUS
    <3> QED
      BY <2>1, <3>1
  <2>6. book' \in Books
    BY <2>2, <2>5 DEF Books
  <2>4. fence' \in BOOLEAN
    BY <1>22 DEF Restart, Active
  <2> QED
    BY <1>22, <2>3, <2>4, <2>6 DEF Restart, HandoffTypeOK
<1> QED
  BY <1>1, <1>2, <1>3, <1>4, <1>5, <1>6, <1>7, <1>8, <1>9, <1>11, <1>15, <1>16, <1>17, <1>18,
     <1>19, <1>20, <1>21, <1>22, HandoffSteps

-----------------------------------------------------------------------------
(* Launch ids stay those that were issued.                                   *)
LEMMA HandoffKeepsIssued ==
  ASSUME HandoffTypeOK, Issued, HandoffNext
  PROVE  Issued'
<1> /\ process \in [Vault -> Process] /\ book \in Books /\ journal \in Journals
    /\ used \in [launches : Nat, faults : Nat]
    /\ task.at = "reopen" => task.vault \in Vault
  BY DEF HandoffTypeOK
<1> NoProcess.launch = 0 /\ NoProcess.state = "none"
  BY DEF NoProcess
<1>1. ASSUME NEW v \in Vault, Ready(v) \/ HearClose(v) \/ CommitClose(v) \/ CloseFails(v)
      PROVE  Issued'
  <2>1. \A u \in Vault : process'[u].launch = process[u].launch
    BY <1>1 DEF Ready, HearClose, CommitClose, CloseFails, Process
  <2>2. \A u \in Vault : process'[u].state = process[u].state \/ process[u].state \in {"starting", "ready"}
    BY <1>1 DEF Ready, HearClose, CommitClose, CloseFails, Process
  <2>3. UNCHANGED <<journal, used>>
    BY <1>1 DEF Ready, HearClose, CommitClose, CloseFails
  <2> QED
    BY <2>1, <2>2, <2>3 DEF Issued
<1>2. ASSUME NEW v \in Vault, Exit(v) \/ Dies(v)
      PROVE  Issued'
  <2>1. \A u \in Vault : process'[u] = IF u = v THEN NoProcess ELSE process[u]
    BY <1>2 DEF Exit, Dies
  <2>2. UNCHANGED journal /\ used'.launches = used.launches
    BY <1>2 DEF Exit, Dies, Fault
  <2> QED
    BY <2>1, <2>2 DEF Issued
<1>3. ASSUME NEW v \in Vault, Reap(v)
      PROVE  Issued'
  BY <1>3 DEF Reap, Issued
<1>4. ASSUME NEW v \in Vault, used' = [used EXCEPT !.launches = @ + 1], Spawned(v, used'.launches),
             journal'.source = journal.source
      PROVE  Issued'
  <2>1. used'.launches = used.launches + 1 /\ used'.launches \in Nat \ {0}
    BY <1>4
  <2>2. \A u \in Vault : \/ process'[u] = process[u]
                         \/ process'[u].launch = used'.launches
    BY <1>4, <2>1, SpawnIs
  <2> QED
    BY <1>4, <2>1, <2>2 DEF Issued, Process, Journals
<1>5. ASSUME NEW v \in Vault, Open(v)
      PROVE  Issued'
  BY <1>4, <1>5 DEF Open
<1>6. ASSUME BeginSwitch
      PROVE  Issued'
  <2>1. \A u \in Vault : process'[u].launch = process[u].launch /\ process'[u].state = process[u].state
    BY <1>6 DEF BeginSwitch, Process, Vault
  <2>2. used'.launches = used.launches + 1
    BY <1>6 DEF BeginSwitch
  <2>3. journal'.source = process["source"].launch /\ "source" \in Vault
    BY <1>6 DEF BeginSwitch, Vault
  <2> QED
    BY <2>1, <2>2, <2>3 DEF Issued, Process
<1>7. ASSUME Prepare
      PROVE  Issued'
  <2>1. ASSUME journal' = [journal EXCEPT !.target = used'.launches]
        PROVE  journal'.source = journal.source
    BY <2>1 DEF Journals
  <2>2. "target" \in Vault
    BY DEF Vault
  <2> QED
    BY <1>4, <1>7, <2>1, <2>2, FailureIs DEF Prepare, Issued
<1>8. ASSUME SourceClosed
      PROVE  journal'.source = journal.source
  BY <1>8 DEF SourceClosed, Advance, Journals
<1>9. ASSUME Await \/ CloseSource \/ TakeUp \/ DropTarget
      PROVE  Issued'
  <2>1. UNCHANGED <<process, used>>
    BY <1>9 DEF Await, CloseSource, TakeUp, DropTarget
  <2>2. journal'.source = journal.source
    BY <1>8, <1>9 DEF Await, CloseSource, TakeUp, DropTarget, Advance, Journals
  <2> QED
    BY <2>1, <2>2 DEF Issued
<1>10. ASSUME Undo \/ ResumeSwitch
       PROVE  Issued'
  <2>1. \A u \in Vault : process'[u].launch = process[u].launch /\ process'[u].state = process[u].state
    BY <1>10 DEF Undo, ResumeSwitch, StopSource, Uncalled, Process, Vault
  <2>2. journal'.source = journal.source /\ UNCHANGED used
    BY <1>8, <1>10 DEF Undo, ResumeSwitch
  <2> QED
    BY <2>1, <2>2 DEF Issued
<1>11. ASSUME Reopen
       PROVE  Issued'
  <2>1. task.vault \in Vault
    BY <1>11 DEF Reopen, ThreadAt
  <2> QED
    BY <1>4, <1>11, <2>1 DEF Reopen, Issued
<1>12. ASSUME GivesUp
       PROVE  Issued'
  BY <1>12, FailureIs DEF GivesUp, Issued
<1>13. ASSUME Crash \/ Restart
       PROVE  Issued'
  BY <1>13 DEF Crash, Restart, Fault, Issued
<1> QED
  BY <1>1, <1>2, <1>3, <1>5, <1>6, <1>7, <1>9, <1>10, <1>11, <1>12, <1>13, HandoffSteps

(* The book keeps knowing.                                                   *)
LEMMA HandoffKeepsBook ==
  ASSUME HandoffTypeOK, BookKnows, HandoffNext
  PROVE  BookKnows'
<1> /\ process \in [Vault -> Process] /\ book \in Books /\ journal \in Journals
    /\ used \in [launches : Nat, faults : Nat]
    /\ task.at = "reopen" => task.vault \in Vault
  BY DEF HandoffTypeOK
<1> USE DEF Free
<1>1. ASSUME NEW v \in Vault, Ready(v) \/ HearClose(v) \/ CommitClose(v) \/ CloseFails(v)
      PROVE  BookKnows'
  <2>1. \A u \in Vault : process'[u].launch = process[u].launch
    BY <1>1 DEF Ready, HearClose, CommitClose, CloseFails, Process
  <2>2. book'.up = book.up /\ \A u \in Vault : /\ book'.at[u].launch = book.at[u].launch
                                               /\ book'.at[u].adopted = book.at[u].adopted
    BY <1>1 DEF Ready, HearClose, CommitClose, CloseFails, Books, Entry
  <2> QED
    BY <2>1, <2>2 DEF BookKnows
<1>2. ASSUME NEW v \in Vault, Exit(v) \/ Dies(v)
      PROVE  BookKnows'
  <2>1. \A u \in Vault : process'[u] = IF u = v THEN NoProcess ELSE process[u]
    BY <1>2 DEF Exit, Dies
  <2>2. UNCHANGED book
    BY <1>2 DEF Exit, Dies
  <2> QED
    BY <2>1, <2>2 DEF BookKnows, NoProcess
<1>3. ASSUME NEW v \in Vault, Reap(v)
      PROVE  BookKnows'
  <2>1. book'.up = book.up /\ \A u \in Vault \ {v} : book'.at[u] = book.at[u]
    BY <1>3 DEF Reap, Books
  <2>2. Free(v) /\ UNCHANGED process /\ book'.at[v].launch = 0
    BY <1>3 DEF Reap, BookKnows, Books, Absent
  <2> QED
    BY <2>1, <2>2 DEF BookKnows, Unknown
<1>4. ASSUME NEW v \in Vault, used' = [used EXCEPT !.launches = @ + 1], Spawned(v, used'.launches),
             book.at[v].launch = 0, book.up
      PROVE  BookKnows'
  <2>1. used'.launches \in Nat \ {0}
    BY <1>4
  <2>2. Free(v)
    BY <1>4 DEF BookKnows, Unknown
  <2> QED
    BY <1>4, <2>1, <2>2, SpawnIs DEF BookKnows, Unknown
<1>5. ASSUME NEW v \in Vault, Open(v)
      PROVE  BookKnows'
  BY <1>4, <1>5 DEF Open
<1>6. ASSUME BeginSwitch
      PROVE  BookKnows'
  <2>1. \A u \in Vault : process'[u].launch = process[u].launch
    BY <1>6 DEF BeginSwitch, Process, Vault
  <2> QED
    BY <1>6, <2>1 DEF BeginSwitch, BookKnows
<1>7. ASSUME Prepare
      PROVE  BookKnows'
  <2>1. "target" \in Vault
    BY DEF Vault
  <2> QED
    BY <1>4, <1>7, <2>1 DEF Prepare, ThreadAt, BookKnows
<1>8. ASSUME NEW v \in Vault, Free(v), book' = Forgotten(v), UNCHANGED process
      PROVE  BookKnows'
  <2>1. \A u \in Vault \ {v} : Forgotten(v).at[u] = book.at[u]
    BY ForgottenIs
  <2>2. Forgotten(v) = book \/ Forgotten(v).at[v].launch = 0
    BY DEF Forgotten, Books, Absent
  <2> QED
    BY <1>8, <2>1, <2>2, ForgottenIs DEF BookKnows, Unknown
<1>9. "source" \in Vault /\ "target" \in Vault
  BY DEF Vault
<1>10. (SourceIs = "released" => Free("source")) /\ (TargetIs = "released" => Free("target"))
  BY DEF SourceIs, TargetIs, CloseOwner
<1>11. ASSUME CloseSource
       PROVE  BookKnows'
  BY <1>8, <1>9, <1>10, <1>11 DEF CloseSource, SourceClosed, BookKnows
<1>12. ASSUME Undo \/ ResumeSwitch
       PROVE  BookKnows'
  <2>1. CASE SourceIs = "released" /\ book' = Forgotten("source") /\ UNCHANGED process
    BY <1>8, <1>9, <1>10, <2>1
  <2>2. CASE UNCHANGED book
    <3>1. \A u \in Vault : process'[u].launch = process[u].launch
      BY <1>12 DEF Undo, ResumeSwitch, StopSource, Uncalled, Process, Vault
    <3> QED
      BY <2>2, <3>1 DEF BookKnows
  <2> QED
    BY <1>12, <2>1, <2>2 DEF Undo, ResumeSwitch, SourceClosed
<1>13. ASSUME DropTarget
       PROVE  BookKnows'
  <2>1. CASE UNCHANGED book
    BY <1>13, <2>1 DEF DropTarget, BookKnows
  <2>2. CASE TargetIs = "released" /\ book' = Forgotten("target")
    BY <1>8, <1>9, <1>10, <1>13, <2>2 DEF DropTarget
  <2> QED
    BY <1>13, <2>1, <2>2 DEF DropTarget
<1>14. ASSUME Reopen
       PROVE  BookKnows'
  <2>1. task.vault \in Vault /\ book.up
    BY <1>14 DEF Reopen, ThreadAt
  <2> QED
    BY <1>4, <1>14, <2>1 DEF Reopen, BookKnows
<1>15. ASSUME Await \/ TakeUp \/ GivesUp
       PROVE  BookKnows'
  BY <1>15 DEF Await, TakeUp, GivesUp, BookKnows
<1>16. ASSUME Crash
       PROVE  BookKnows'
  BY <1>16 DEF Crash, BookKnows
<1>17. ASSUME Restart
       PROVE  BookKnows'
  <2>1. PICK hidden \in SUBSET Vault :
          book' = [up |-> TRUE, at |-> [v \in Vault |-> Adopted(v, v \notin hidden)]]
    BY <1>17 DEF Restart
  <2>2. \A v \in Vault, told \in BOOLEAN :
          /\ ~Free(v) => Adopted(v, told).launch \in {process[v].launch, Unknown}
          /\ Adopted(v, told).launch = Unknown => Adopted(v, told).adopted
    BY DEF Adopted, Absent, Unknown
  <2>3. \A v \in Vault : (v \notin hidden) \in BOOLEAN
    OBVIOUS
  <2>4. \A v \in Vault : /\ ~Free(v) => book'.at[v].launch \in {process[v].launch, Unknown}
                         /\ book'.at[v].launch = Unknown => book'.at[v].adopted
    BY <2>1, <2>2, <2>3
  <2> QED
    BY <1>17, <2>4 DEF Restart, BookKnows
<1> QED
  BY <1>1, <1>2, <1>3, <1>5, <1>6, <1>7, <1>11, <1>12, <1>13, <1>14, <1>15, <1>16, <1>17,
     HandoffSteps

-----------------------------------------------------------------------------
(* The thread and the journal keep together.                                 *)
LEMMA ChangedIsSafe ==
  ASSUME HandoffTypeOK, BookKnows, book.up, SourceIs \in {"changed", "released"}
  PROVE  SourceSafe
BY DEF HandoffTypeOK, Vault, Process, BookKnows, Free, SourceIs, CloseOwner, SourceSafe, Unknown, Journals

LEMMA StopIsSafe ==
  ASSUME HandoffTypeOK, StopSource
  PROVE  /\ process'["source"].launch = process["source"].launch
         /\ process'["source"].close = "stopped"
         /\ process["source"].launch = journal.source
         /\ process'["target"] = process["target"]
BY DEF HandoffTypeOK, Vault, Process, StopSource, Uncalled

LEMMA HandoffKeepsThread ==
  ASSUME HandoffInv, HandoffNext
  PROVE  ThreadFits'
<1> /\ process \in [Vault -> Process] /\ book \in Books /\ journal \in Journals /\ task \in Tasks
    /\ used \in [launches : Nat, faults : Nat] /\ fence \in BOOLEAN
    /\ task.at = "reopen" => task.vault \in Vault
    /\ HandoffTypeOK /\ Issued /\ BookKnows /\ ThreadFits
  BY DEF HandoffInv, HandoffTypeOK
<1> "source" \in Vault /\ "target" \in Vault
  BY DEF Vault
<1> USE DEF Active
<1>1. ASSUME NEW v \in Vault, Ready(v)
      PROVE  ThreadFits'
  <2>1. book'.up = book.up /\ book'.at["source"].launch = book.at["source"].launch
        /\ process'["source"].launch = process["source"].launch
        /\ process'["source"].close = process["source"].close
        /\ UNCHANGED <<fence, journal, task>>
    BY <1>1 DEF Ready, Books, Entry, Process
  <2> QED
    BY <2>1 DEF ThreadFits, SourceSafe
<1>2. ASSUME NEW v \in Vault, HearClose(v) \/ CommitClose(v) \/ CloseFails(v)
      PROVE  ThreadFits'
  <2>1. /\ UNCHANGED <<book, fence, journal, task>>
        /\ process'["source"].launch = process["source"].launch
        /\ process["source"].close = "stopped" => process'["source"].close = "stopped"
    BY <1>2 DEF HearClose, CommitClose, CloseFails, Process
  <2> QED
    BY <2>1 DEF ThreadFits, SourceSafe
<1>3. ASSUME NEW v \in Vault, Exit(v) \/ Dies(v)
      PROVE  ThreadFits'
  <2>1. UNCHANGED <<book, fence, journal, task>>
    BY <1>3 DEF Exit, Dies
  <2>2. process'["source"] = process["source"] \/ process'["source"].launch = 0
    BY <1>3 DEF Exit, Dies, NoProcess
  <2> QED
    BY <2>1, <2>2 DEF ThreadFits, SourceSafe
<1>4. ASSUME NEW v \in Vault, Reap(v)
      PROVE  ThreadFits'
  <2>1. book'.up = book.up /\ UNCHANGED <<process, fence, journal, task>>
    BY <1>4 DEF Reap, Books
  <2>2. book'.at["source"] = book.at["source"]
        \/ (book.at["source"].launch = Unknown => process["source"].launch = 0)
    BY <1>4 DEF Reap, Books, BookKnows, Free
  <2> QED
    BY <2>1, <2>2 DEF ThreadFits, SourceSafe
<1>5. ASSUME NEW v \in Vault, Open(v)
      PROVE  ThreadFits'
  <2>1. book'.up = book.up
    BY <1>5 DEF Open, Spawned, Books
  <2> QED
    BY <1>5, <2>1 DEF Open, ThreadFits
<1>6. ASSUME BeginSwitch
      PROVE  ThreadFits'
  BY <1>6 DEF BeginSwitch, ThreadFits, ThreadAt
<1>7. ASSUME TaskFails, ThreadAt("prepare") \/ task.at \in {"await", "close", "undo", "resume", "drop"},
             UNCHANGED book, book.up
      PROVE  ThreadFits'
  <2>1. \/ /\ UNCHANGED <<fence, journal>>
           /\ task'.at = "idle" \/ (task'.at = "undo" /\ journal.phase # "closed")
        \/ task'.at = "reopen" /\ journal'.phase = "dropped"
    BY <1>7, FailureIs
  <2> QED
    BY <1>7, <2>1 DEF ThreadFits, ThreadAt
<1>8. ASSUME Prepare
      PROVE  ThreadFits'
  <2>1. book.up /\ task.at = "prepare" /\ fence
    BY <1>8 DEF Prepare, ThreadAt, ThreadFits
  <2>2. CASE TaskFails /\ UNCHANGED <<process, book, used>>
    BY <1>7, <2>1, <2>2 DEF ThreadAt
  <2>3. CASE /\ UNCHANGED fence
             /\ UNCHANGED journal \/ journal' = [journal EXCEPT !.target = used'.launches]
             /\ UNCHANGED book \/ Spawned("target", used'.launches)
             /\ Goto("await")
    <3>1. task'.at = "await"
      BY <2>3 DEF Goto, Tasks
    <3>2. journal'.phase = journal.phase
      BY <2>3 DEF Journals
    <3>3. book'.up = book.up
      BY <2>3 DEF Spawned, Books
    <3> QED
      BY <2>1, <2>3, <3>1, <3>2, <3>3 DEF ThreadFits
  <2> QED
    BY <1>8, <2>2, <2>3 DEF Prepare
<1>9. ASSUME Await
      PROVE  ThreadFits'
  <2>1. book.up /\ task.at = "await" /\ UNCHANGED book /\ fence
    BY <1>9 DEF Await, ThreadAt, ThreadFits
  <2>2. CASE journal.phase = "preparing"
    <3>1. journal'.phase = "closing" /\ task'.at = "close" /\ UNCHANGED fence
      BY <1>9, <2>2 DEF Await, Advance, Goto, Journals, Tasks
    <3> QED
      BY <2>1, <3>1 DEF ThreadFits
  <2>3. CASE journal.phase # "preparing"
    <3>1. journal'.phase = "completed" /\ task'.at = "idle"
      BY <1>9, <2>3, NoTaskIs DEF Await, Advance, Settled, Journals
    <3> QED
      BY <2>1, <3>1 DEF ThreadFits
  <2> QED
    BY <2>2, <2>3
<1>10. ASSUME SourceClosed, book.up, UNCHANGED fence, fence
       PROVE  ThreadFits'
  <2>1. journal'.phase = "closed" /\ task'.at = "prepare" /\ book'.up
    BY <1>10, ForgottenIs DEF SourceClosed, Advance, Goto, Journals, Tasks
  <2> QED
    BY <1>10, <2>1 DEF ThreadFits
<1>11. ASSUME CloseSource
       PROVE  ThreadFits'
  <2>1. book.up /\ UNCHANGED fence /\ fence
    BY <1>11 DEF CloseSource, ThreadAt, ThreadFits
  <2>2. CASE SourceClosed
    BY <1>10, <2>1, <2>2
  <2>3. CASE UNCHANGED <<book, journal, task>>
    BY <1>11, <2>1, <2>3 DEF ThreadFits, CloseSource, ThreadAt
  <2> QED
    BY <1>11, <2>2, <2>3 DEF CloseSource
<1>12. [task EXCEPT !.at = "drop", !.vault = "reopen"].at = "drop"
       /\ (Goto("drop") => task'.at = "drop")
  BY DEF Tasks, Goto
<1>13. ASSUME book.up, SourceIs = "released", book' = Forgotten("source"), UNCHANGED <<process, journal>>
       PROVE  SourceSafe' /\ book'.up
  <2>1. Free("source")
    BY <1>13 DEF SourceIs, CloseOwner
  <2>2. process'["source"].launch = 0
    BY <1>13, <2>1 DEF Free
  <2> QED
    BY <1>13, <2>2, ForgottenIs DEF SourceSafe
<1>14. ASSUME book.up, SourceIs = "changed", UNCHANGED <<process, book, journal>>
       PROVE  SourceSafe'
  <2>1. SourceSafe
    BY <1>14, ChangedIsSafe
  <2> QED
    BY <1>14, <2>1 DEF SourceSafe
<1>15. ASSUME StopSource, UNCHANGED <<book, journal>>
       PROVE  SourceSafe'
  BY <1>15, StopIsSafe DEF SourceSafe
<1>16. ASSUME task'.at = "drop", SourceSafe', book'.up, book.up, UNCHANGED <<fence, journal>>,
              journal.phase \in {"preparing", "closing"}
       PROVE  ThreadFits'
  BY <1>16 DEF ThreadFits
<1>17. ASSUME Undo
       PROVE  ThreadFits'
  <2>1. book.up /\ task.at = "undo" /\ UNCHANGED fence /\ fence /\ journal.phase \in {"preparing", "closing"}
    BY <1>17 DEF Undo, ThreadAt, ThreadFits
  <2> QED
    BY <1>10, <1>12, <1>13, <1>15, <1>16, <1>17, <2>1 DEF Undo
<1>18. ASSUME ResumeSwitch
       PROVE  ThreadFits'
  <2>1. book.up /\ task.at = "resume" /\ UNCHANGED fence /\ fence /\ journal.phase \in {"preparing", "closing"}
    BY <1>18 DEF ResumeSwitch, ThreadAt, ThreadFits
  <2> QED
    BY <1>10, <1>12, <1>13, <1>14, <1>15, <1>16, <1>18, <2>1 DEF ResumeSwitch
<1>19. ASSUME TakeUp
       PROVE  ThreadFits'
  <2>1. book.up /\ UNCHANGED <<process, book, journal>> /\ fence
    BY <1>19 DEF TakeUp, ThreadAt
  <2>2. CASE Active
    <3>1. UNCHANGED fence
      BY <1>19, <2>2 DEF TakeUp
    <3>2. task'.at = IF journal.phase = "closed" THEN "prepare" ELSE "resume"
      BY <1>19, <2>2 DEF TakeUp
    <3> QED
      BY <2>1, <2>2, <3>1, <3>2 DEF ThreadFits
  <2>3. CASE ~Active
    <3>1. task'.at = "idle"
      BY <1>19, <2>3, NoTaskIs DEF TakeUp, Settled
    <3> QED
      BY <2>1, <2>3, <3>1 DEF ThreadFits
  <2> QED
    BY <2>2, <2>3
<1>20. ASSUME DropTarget
       PROVE  ThreadFits'
  <2>1. book.up
    BY <1>20 DEF DropTarget, ThreadAt
  <2>2. CASE Advance("cancelled")
    <3>1. journal'.phase = "cancelled"
      BY <2>2 DEF Advance, Journals
    <3>2. CASE task'.at \in {"idle", "reopen"}
      <4>1. book'.up
        BY <1>20, <2>1, ForgottenIs DEF DropTarget
      <4> QED
        BY <3>1, <3>2, <4>1 DEF ThreadFits
    <3>3. CASE UNCHANGED <<book, fence, journal, task>>
      BY <1>20, <3>3 DEF DropTarget, ThreadFits, SourceSafe
    <3> QED
      BY <1>20, <3>2, <3>3, NoTaskIs DEF DropTarget, Settled
  <2>3. CASE UNCHANGED <<book, fence, journal, task>>
    BY <1>20, <2>3 DEF DropTarget, ThreadFits, SourceSafe
  <2> QED
    BY <1>20, <2>2, <2>3 DEF DropTarget
<1>21. ASSUME Reopen
       PROVE  ThreadFits'
  <2>1. book'.up = book.up /\ task'.at = "idle" /\ UNCHANGED <<fence, journal>>
    BY <1>21, NoTaskIs DEF Reopen, Spawned, Books
  <2> QED
    BY <2>1 DEF ThreadFits
<1>22. ASSUME GivesUp
       PROVE  ThreadFits'
  BY <1>7, <1>22 DEF GivesUp
<1>23. ASSUME Crash
       PROVE  ThreadFits'
  BY <1>23, NoTaskIs DEF Crash, ThreadFits
<1>24. ASSUME Restart
       PROVE  ThreadFits'
  <2>1. task.at = "idle" /\ UNCHANGED <<task, journal>>
    BY <1>24 DEF Restart, ThreadFits
  <2>2. fence' = Active
    BY <1>24 DEF Restart
  <2>3. CASE Active
    BY <2>1, <2>2, <2>3 DEF ThreadFits
  <2>4. CASE ~Active
    BY <2>1, <2>4, <1>24 DEF ThreadFits, Restart
  <2> QED
    BY <2>3, <2>4
<1> QED
  BY <1>1, <1>2, <1>3, <1>4, <1>5, <1>6, <1>8, <1>9, <1>11, <1>17, <1>18, <1>19, <1>20, <1>21,
     <1>22, <1>23, <1>24, HandoffSteps

(* The invariant the refinement needs.                                       *)
LEMMA HandoffInvariant == HandoffInv /\ [HandoffNext]_handoffVars => HandoffInv'
<1> SUFFICES ASSUME HandoffInv, [HandoffNext]_handoffVars
             PROVE  HandoffInv'
  OBVIOUS
<1>1. CASE HandoffNext
  BY <1>1, HandoffKeepsTypes, HandoffKeepsIssued, HandoffKeepsBook, HandoffKeepsThread DEF HandoffInv
<1>2. CASE UNCHANGED handoffVars
  BY <1>2 DEF handoffVars, HandoffInv, HandoffTypeOK, Issued, BookKnows, ThreadFits, SourceSafe, Active, Free
<1> QED
  BY <1>1, <1>2

-----------------------------------------------------------------------------
(* What the abstract switch sees of a step.                                  *)
KnownLaunch == book.at["source"].launch

LEMMA SeesNothing ==
  ASSUME Intent' = Intent, Source' = Source
  PROVE  Switch!Next
BY DEF Switch!Next, Switch!Identify

LEMMA SeesSource ==
  ASSUME Intent' = Intent, KnownLaunch' = KnownLaunch,
         \/ Source' = Source \/ Source' = "closed"
         \/ Source = "closing" /\ Source' = "open"
         \/ Source = "open" /\ Source' = "closing" /\ Intent = "switching"
  PROVE  Switch!Next
<1> UNCHANGED (book.at["source"].launch # Unknown)
  BY DEF KnownLaunch
<1> QED
  BY SeesNothing DEF Switch!Next, Switch!Close, Switch!Stop, Switch!Ask

LEMMA SeesDecision ==
  ASSUME Source' = Source, KnownLaunch' = KnownLaunch,
         \/ Intent = "switching" /\ Source = "closed" /\ Intent' = "moved"
         \/ /\ Intent = "switching" /\ Intent' = "kept"
            /\ Source # "closing" \/ KnownLaunch = Unknown
         \/ Intent \in {"switching", "moved"} /\ Intent' = "dropped"
  PROVE  Switch!Next
<1> UNCHANGED (book.at["source"].launch # Unknown)
  BY DEF KnownLaunch
<1> QED
  BY DEF Switch!Next, Switch!Move, Switch!Keep, Switch!Drop, KnownLaunch

(* The decision is a matter of the journal's phase alone, and the source is  *)
(* where it was when its process, the calls and the journal's source are.    *)
LEMMA IntentIs ==
  ASSUME journal'.phase = journal.phase
  PROVE  Intent' = Intent
BY DEF Intent

LEMMA SourceStays ==
  ASSUME process'["source"].launch = process["source"].launch,
         process'["source"].close = process["source"].close,
         calls' = calls, journal'.source = journal.source
  PROVE  Source' = Source
BY DEF Source

(* A vault that is opened starts under a launch the switch did not begin     *)
(* with.                                                                     *)
LEMMA OpeningSeesNothing ==
  ASSUME HandoffInv, NEW v \in Vault, used.launches \in Nat, used'.launches = used.launches + 1,
         Spawned(v, used'.launches), UNCHANGED calls,
         journal'.source = journal.source, journal'.phase = journal.phase
  PROVE  Switch!Next
<1> HandoffTypeOK /\ journal.source \in Nat /\ journal.source <= used.launches
  BY DEF HandoffInv, HandoffTypeOK, Issued, Journals
<1> "source" \in Vault
  BY DEF Vault
<1>1. used'.launches \in Nat \ {0} /\ used'.launches # journal.source
  OBVIOUS
<1>2. \/ process'["source"] = process["source"]
      \/ process["source"].launch = 0 /\ process'["source"].launch = used'.launches
  BY <1>1, SpawnIs DEF Free
<1>3. Source' = Source
  <2>1. CASE process'["source"] = process["source"]
    BY <2>1, SourceStays
  <2>2. CASE process["source"].launch = 0 /\ process'["source"].launch = used'.launches
    BY <1>1, <2>2 DEF Source
  <2> QED
    BY <1>2, <2>1, <2>2
<1> QED
  BY <1>3, IntentIs, SeesNothing

LEMMA FailureSees ==
  ASSUME HandoffInv, TaskFails, UNCHANGED <<process, calls, book>>,
         task.at \in {"prepare", "await", "close", "undo", "resume", "drop"}
  PROVE  Switch!Next
<1> HandoffTypeOK
  BY DEF HandoffInv
<1>1. journal.phase \in {"preparing", "closing", "closed"}
  BY DEF HandoffInv, ThreadFits
<1>2. journal'.source = journal.source /\ (journal' = journal \/ journal'.phase = "dropped")
  BY FailureIs
<1>3. Source' = Source
  BY <1>2, SourceStays
<1>4. KnownLaunch' = KnownLaunch
  BY DEF KnownLaunch
<1>5. Intent' = Intent \/ (Intent \in {"switching", "moved"} /\ Intent' = "dropped")
  BY <1>1, <1>2 DEF Intent
<1> QED
  BY <1>3, <1>4, <1>5, SeesNothing, SeesDecision

-----------------------------------------------------------------------------
LEMMA HandoffStepSwitches ==
  ASSUME HandoffInv, HandoffNext
  PROVE  Switch!Next
<1> /\ process \in [Vault -> Process] /\ book \in Books /\ journal \in Journals /\ task \in Tasks
    /\ used \in [launches : Nat, faults : Nat] /\ calls \subseteq Nat
    /\ task.at = "reopen" => task.vault \in Vault
    /\ HandoffTypeOK /\ Issued /\ BookKnows /\ ThreadFits
  BY DEF HandoffInv, HandoffTypeOK
<1> "source" \in Vault /\ "target" \in Vault
  BY DEF Vault
<1>1. ASSUME NEW v \in Vault, Ready(v)
      PROVE  Switch!Next
  <2>1. process'["source"].launch = process["source"].launch
        /\ process'["source"].close = process["source"].close
    BY <1>1 DEF Ready, Process
  <2>2. UNCHANGED <<calls, journal>>
    BY <1>1 DEF Ready
  <2> QED
    BY <2>1, <2>2, IntentIs, SourceStays, SeesNothing
<1>2. ASSUME NEW v \in Vault, HearClose(v)
      PROVE  Switch!Next
  <2>1. UNCHANGED <<book, journal>> /\ calls' \subseteq calls
        /\ \A launch \in calls : launch \in calls' \/ launch = process[v].launch
    BY <1>2 DEF HearClose
  <2>2. process'["source"].launch = process["source"].launch
        /\ \/ process'["source"].close = process["source"].close
           \/ /\ process["source"].close = "no" /\ process'["source"].close = "asked"
              /\ process["source"].launch \in calls
    BY <1>2 DEF HearClose, Process
  <2>3. Source' = Source \/ (Source = "closing" /\ Source' = "open")
    BY <2>1, <2>2 DEF Source
  <2>4. Intent' = Intent /\ KnownLaunch' = KnownLaunch
    BY <2>1, IntentIs DEF KnownLaunch
  <2> QED
    BY <2>3, <2>4, SeesSource
<1>3. ASSUME NEW v \in Vault, CommitClose(v) \/ CloseFails(v)
      PROVE  Switch!Next
  <2>1. UNCHANGED <<book, journal, calls>>
    BY <1>3 DEF CommitClose, CloseFails
  <2>2. process'["source"].launch = process["source"].launch
        /\ \/ process'["source"].close = process["source"].close
           \/ process["source"].close = "asked" /\ process'["source"].close = "failed"
    BY <1>3 DEF CommitClose, CloseFails, Process
  <2>3. Source' = Source \/ (Source = "closing" /\ Source' = "open")
    BY <2>1, <2>2 DEF Source
  <2>4. Intent' = Intent /\ KnownLaunch' = KnownLaunch
    BY <2>1, IntentIs DEF KnownLaunch
  <2> QED
    BY <2>3, <2>4, SeesSource
<1>4. ASSUME NEW v \in Vault, Exit(v) \/ Dies(v)
      PROVE  Switch!Next
  <2>1. UNCHANGED <<book, journal, calls>>
    BY <1>4 DEF Exit, Dies
  <2>2. process'["source"] = process["source"] \/ process'["source"].launch = 0
    BY <1>4 DEF Exit, Dies, NoProcess
  <2>3. Source' = Source \/ Source' = "closed"
    BY <2>1, <2>2 DEF Source
  <2>4. Intent' = Intent /\ KnownLaunch' = KnownLaunch
    BY <2>1, IntentIs DEF KnownLaunch
  <2> QED
    BY <2>3, <2>4, SeesSource
<1>5. ASSUME UNCHANGED <<process, calls, journal>>
      PROVE  Switch!Next
  BY <1>5, IntentIs, SourceStays, SeesNothing
<1>6. ASSUME NEW v \in Vault, Reap(v)
      PROVE  Switch!Next
  BY <1>5, <1>6 DEF Reap
<1>7. ASSUME NEW v \in Vault, used' = [used EXCEPT !.launches = @ + 1], Spawned(v, used'.launches),
             UNCHANGED calls,
             UNCHANGED journal \/ journal' = [journal EXCEPT !.target = used'.launches]
      PROVE  Switch!Next
  <2>1. used.launches \in Nat /\ used'.launches = used.launches + 1
    BY <1>7
  <2>2. journal'.source = journal.source /\ journal'.phase = journal.phase
    BY <1>7 DEF Journals
  <2> QED
    BY <1>7, <2>1, <2>2, OpeningSeesNothing
<1>8. ASSUME NEW v \in Vault, Open(v)
      PROVE  Switch!Next
  BY <1>7, <1>8 DEF Open
<1>9. ASSUME BeginSwitch
      PROVE  Switch!Next
  <2>1. Intent # "switching"
    <3>1. journal.phase \in Phases \ {"preparing", "closing", "closed"}
      BY <1>9 DEF BeginSwitch, ThreadAt, ThreadFits, Active, Journals
    <3> QED
      BY <3>1 DEF Intent, Phases
  <2>2. journal'.phase = "preparing" /\ journal'.source = process["source"].launch
    BY <1>9 DEF BeginSwitch
  <2>3. process["source"].launch \in Nat \ {0}
    BY <1>9 DEF BeginSwitch, Issued, Process
  <2>4. process'["source"].launch = process["source"].launch /\ process'["source"].close = "no"
    BY <1>9 DEF BeginSwitch, Process
  <2>5. journal'.source \notin calls'
    BY <1>9 DEF BeginSwitch
  <2>6. Intent' = "switching" /\ Source' = "open"
    BY <2>2, <2>3, <2>4, <2>5 DEF Intent, Source
  <2>7. book'.at["source"].launch # Unknown
    BY <1>9, <2>3 DEF BeginSwitch, Unknown
  <2> QED
    BY <2>1, <2>6, <2>7 DEF Switch!Next, Switch!Begin
<1>10. ASSUME Prepare
       PROVE  Switch!Next
  <2>1. task.at = "prepare" /\ UNCHANGED calls
    BY <1>10 DEF Prepare, ThreadAt
  <2>2. CASE UNCHANGED <<process, journal>>
    BY <1>5, <2>1, <2>2
  <2>3. CASE /\ used' = [used EXCEPT !.launches = @ + 1]
             /\ journal' = [journal EXCEPT !.target = used'.launches]
             /\ Spawned("target", used'.launches)
    BY <1>7, <2>1, <2>3
  <2>4. CASE TaskFails /\ UNCHANGED <<process, book, used>>
    BY <2>1, <2>4, FailureSees
  <2> QED
    BY <1>10, <2>2, <2>3, <2>4 DEF Prepare
<1>11. ASSUME Await
       PROVE  Switch!Next
  <2>1. UNCHANGED <<process, calls, book>> /\ journal'.source = journal.source
    BY <1>11 DEF Await, Advance, Journals
  <2>2. \/ journal.phase = "preparing" /\ journal'.phase = "closing"
        \/ journal.phase = "closed" /\ journal'.phase = "completed"
    BY <1>11 DEF Await, Advance, Journals, ThreadAt, ThreadFits
  <2>3. Intent' = Intent
    BY <2>2 DEF Intent
  <2> QED
    BY <2>1, <2>3, SourceStays, SeesNothing
<1>12. ASSUME SourceIs = "released", SourceClosed, journal.phase = "closing", UNCHANGED <<process, calls>>
       PROVE  Switch!Next
  <2>1. process["source"].launch = 0
    BY <1>12 DEF SourceIs, CloseOwner, Free
  <2>2. journal'.source = journal.source /\ journal'.phase = "closed"
    BY <1>12 DEF SourceClosed, Advance, Journals
  <2>3. Source = "closed" /\ Source' = Source
    BY <1>12, <2>1 DEF Source
  <2>4. Intent = "switching" /\ Intent' = "moved"
    BY <1>12, <2>2 DEF Intent
  <2>5. CASE book' = book
    BY <2>3, <2>4, <2>5, SeesDecision DEF KnownLaunch
  <2>6. CASE book.at["source"].launch = journal.source /\ book'.at["source"].launch = 0
    <3>1. (book'.at["source"].launch # Unknown) = (book.at["source"].launch # Unknown)
      BY <2>6 DEF Unknown, Journals
    <3> QED
      BY <2>3, <2>4, <3>1 DEF Switch!Next, Switch!Move
  <2>7. book' = book \/ (book.at["source"].launch = journal.source /\ book'.at["source"].launch = 0)
    BY <1>12 DEF SourceClosed, Forgotten, Wanted, Absent, Books
  <2> QED
    BY <2>5, <2>6, <2>7
<1>13. ASSUME CloseSource
       PROVE  Switch!Next
  <2>1. journal.phase = "closing" /\ UNCHANGED process
    BY <1>13 DEF CloseSource, ThreadAt, ThreadFits
  <2>2. CASE SourceIs = "released" /\ SourceClosed /\ UNCHANGED calls
    BY <1>12, <2>1, <2>2
  <2>3. CASE /\ process["source"].launch = journal.source /\ process["source"].close = "no"
             /\ calls' = calls \cup {journal.source} /\ UNCHANGED <<book, journal>>
    <3>1. Source' = Source \/ (Source = "open" /\ Source' = "closing")
      BY <2>1, <2>3 DEF Source
    <3>2. Intent' = Intent /\ Intent = "switching"
      BY <2>1, <2>3 DEF Intent
    <3>3. KnownLaunch' = KnownLaunch
      BY <2>3 DEF KnownLaunch
    <3> QED
      BY <3>1, <3>2, <3>3, SeesSource
  <2> QED
    BY <1>13, <2>2, <2>3 DEF CloseSource
<1>14. ASSUME StopSource, UNCHANGED <<calls, book, journal>>
       PROVE  Switch!Next
  <2>1. Source' = Source \/ (Source = "closing" /\ Source' = "open")
    BY <1>14, StopIsSafe DEF Source
  <2>2. Intent' = Intent /\ KnownLaunch' = KnownLaunch
    BY <1>14, IntentIs DEF KnownLaunch
  <2> QED
    BY <2>1, <2>2, SeesSource
<1>15. ASSUME Undo \/ ResumeSwitch
       PROVE  Switch!Next
  <2>1. UNCHANGED calls
    BY <1>15 DEF Undo, ResumeSwitch
  <2>2. CASE UNCHANGED <<process, journal>>
    BY <1>5, <2>1, <2>2
  <2>3. CASE SourceIs = "released" /\ journal.phase = "closing" /\ SourceClosed /\ UNCHANGED process
    BY <1>12, <2>1, <2>3
  <2>4. CASE StopSource /\ UNCHANGED <<book, journal>>
    BY <1>14, <2>1, <2>4
  <2> QED
    BY <1>15, <2>2, <2>3, <2>4 DEF Undo, ResumeSwitch
<1>16. ASSUME TakeUp
       PROVE  Switch!Next
  BY <1>5, <1>16 DEF TakeUp
<1>17. ASSUME DropTarget
       PROVE  Switch!Next
  <2>1. journal.phase \in {"preparing", "closing"} /\ SourceSafe /\ UNCHANGED process
    BY <1>17 DEF DropTarget, ThreadAt, ThreadFits
  <2>2. CASE /\ book' = IF TargetIs = "released" THEN Forgotten("target") ELSE book
             /\ Advance("cancelled") /\ UNCHANGED calls
    <3>1. journal'.phase = "cancelled" /\ journal'.source = journal.source
      BY <2>2 DEF Advance, Journals
    <3>2. KnownLaunch' = KnownLaunch
      BY <2>2, ForgottenIs DEF KnownLaunch
    <3>3. Source # "closing" \/ KnownLaunch = Unknown
      BY <2>1 DEF SourceSafe, Source, KnownLaunch
    <3>4. Intent = "switching" /\ Intent' = "kept"
      BY <2>1, <3>1 DEF Intent
    <3>5. Source' = Source
      BY <2>1, <2>2, <3>1, SourceStays
    <3> QED
      BY <3>2, <3>3, <3>4, <3>5, SeesDecision
  <2>3. CASE calls' = calls \cup {journal.target} /\ UNCHANGED <<book, journal>>
    <3>1. Source' = Source \/ (Source = "open" /\ Source' = "closing")
      BY <2>1, <2>3 DEF Source
    <3>2. Intent' = Intent /\ Intent = "switching"
      BY <2>1, <2>3 DEF Intent
    <3>3. KnownLaunch' = KnownLaunch
      BY <2>3 DEF KnownLaunch
    <3> QED
      BY <3>1, <3>2, <3>3, SeesSource
  <2> QED
    BY <1>17, <2>2, <2>3 DEF DropTarget
<1>18. ASSUME Reopen
       PROVE  Switch!Next
  <2>1. task.vault \in Vault /\ UNCHANGED <<calls, journal>>
    BY <1>18 DEF Reopen, ThreadAt
  <2>2. CASE UNCHANGED process
    BY <1>5, <2>1, <2>2
  <2>3. CASE used' = [used EXCEPT !.launches = @ + 1] /\ Spawned(task.vault, used'.launches)
    BY <1>7, <2>1, <2>3
  <2> QED
    BY <1>18, <2>2, <2>3 DEF Reopen
<1>19. ASSUME GivesUp
       PROVE  Switch!Next
  BY <1>19, FailureSees DEF GivesUp
<1>20. ASSUME Crash \/ Restart
       PROVE  Switch!Next
  BY <1>5, <1>20 DEF Crash, Restart
<1> QED
  BY <1>1, <1>2, <1>3, <1>4, <1>6, <1>8, <1>9, <1>10, <1>11, <1>13, <1>15, <1>16, <1>17, <1>18,
     <1>19, <1>20, HandoffSteps

(* Whatever crashes, the switch is decided once: for the target only when    *)
(* the source's process has let go of its vault, for the source only when no *)
(* request to close can still take it away (or it cannot be told from        *)
(* another process): the coordinator's hand-off implements VaultSwitch       *)
(* (vault_supervisor.rs:2869-3070, vault_handoff.rs:1).                      *)
THEOREM HandoffImplementsSwitch == HandoffSpec => ImplementsSwitch
<1>1. HandoffInit => Switch!Init
  BY DEF HandoffInit, Switch!Init, Intent, Source, NoRecord, Vault, Unknown
<1>2. HandoffInv /\ [HandoffNext]_handoffVars => [Switch!Next]_(Switch!vars)
  <2>1. ASSUME UNCHANGED handoffVars
        PROVE  UNCHANGED Switch!vars
    BY <2>1 DEF handoffVars, Switch!vars, Intent, Source
  <2> QED
    BY <2>1, HandoffStepSwitches
<1> QED
  BY <1>1, <1>2, HandoffStarts, HandoffInvariant, PTL DEF HandoffSpec, ImplementsSwitch, Switch!Spec
-----------------------------------------------------------------------------
(***************************************************************************)
(* That nobody who opens a vault, quits the app or follows a link is left  *)
(* waiting for a process that nobody watches, for any number of profiles,  *)
(* processes and questions.                                                *)
(***************************************************************************)
LaunchIds == Start \cup {0, Nil}
Launched == [id : LaunchIds, ready : BOOLEAN, wanted : BOOLEAN, error : BOOLEAN, adopted : BOOLEAN]
Runner == [of : Profile \cup {0},
            at : {"none", "spawning", "over", "reaped"} \cup Alive]
Question == [at : {"none", "done"} \cup Busy, of : Profile \cup {0}, tracked : BOOLEAN,
             launch : LaunchIds]
Aims == [id : LaunchIds, at : {"none", "waits", "sent", "closed", "failed"}]

OpeningsTypeOK ==
  /\ known \in [Profile -> Launched]
  /\ runner \in [Start -> Runner]
  /\ ask \in [Asking -> Question]
  /\ entered \subseteq Asking
  /\ seen \subseteq Profile \X LaunchIds
  /\ quit \in [at : {"no", "asked", "closing", "draining", "gone"}, idle : {"no", "seen", "quits"},
               hadReady : BOOLEAN, aim : [Profile -> Aims]]

Starting == {"spawning", "started", "allowed"}
Live(i) == runner[i].at \in Alive \cup {"spawning"}

(* The process of launch id is past its start, or was found running.         *)
PastStart(id) == id \in Start => runner[id].at \notin Starting \cup {"none"}

(* No process of p that lives is the one launch id stands for.               *)
IsOver(p, id) ==
  \A i \in Start : Live(i) /\ runner[i].of = p => i # id /\ (id = Nil => i \notin Profile)

(* Whoever lives is in the book.                                             *)
LiveAreKnown ==
  \A i \in Start : Live(i) =>
    /\ runner[i].of \in Profile
    /\ known[runner[i].of].id = i \/ (i \in Profile /\ known[i].id = Nil)

FoundAreFound ==
  /\ \A i \in Profile : runner[i].of = i /\ runner[i].at \notin Starting
  /\ \A i \in Child : runner[i].of = 0 => runner[i].at = "none"

BookIsSound ==
  \A p \in Profile :
    /\ known[p].id = 0 => known[p] = NoLaunch
    /\ known[p].id = Nil => known[p].error
    /\ known[p].adopted => known[p].id \in {p, Nil}
    /\ known[p].ready \/ known[p].error \/ known[p].adopted => PastStart(known[p].id)

(* What a thread that is about to forget a launch rests on.                  *)
AsksAreSound ==
  \A a \in Asking :
    /\ ask[a].at \in Busy => a \in entered /\ ask[a].of \in Profile
    /\ ask[a].at \in {"retry", "probe", "forget", "call"} => PastStart(ask[a].launch)
    /\ ask[a].at = "forget" => IsOver(ask[a].of, ask[a].launch)

SeenAreOver == \A s \in seen : PastStart(s[2]) /\ IsOver(s[1], s[2])

QuitIsSound ==
  /\ \A p \in Profile : quit.aim[p].at \in {"waits", "sent"} => quit.aim[p].id # 0
  /\ quit.at = "gone" => entered = {}
  /\ quit.idle = "quits" => quit.at # "no" /\ Opens /\ entered = {}

OpeningsInv ==
  OpeningsTypeOK /\ LiveAreKnown /\ FoundAreFound /\ BookIsSound /\ AsksAreSound /\ SeenAreOver
  /\ QuitIsSound

-----------------------------------------------------------------------------
(* What a step may do to the processes: start one, for a vault that now has  *)
(* it in the book, or let one go on; none comes back to its start or to life.*)
RunnerStep ==
  \A i \in Start :
    \/ runner'[i] = runner[i]
    \/ /\ runner[i].at = "none" /\ i \in Child /\ runner'[i].at = "spawning"
       /\ runner'[i].of \in Profile /\ known'[runner'[i].of].id = i
    \/ /\ runner[i].at # "none" /\ runner'[i].at # "none" /\ runner'[i].of = runner[i].of
       /\ Live(i)' => Live(i)
       /\ runner'[i].at \in Starting => runner[i].at \in Starting

(* What a step may do to the launch of a vault: forget it when its process   *)
(* is over, note what it heard of it, or reserve a new one.                  *)
ForgottenFor(p) == known'[p] = NoLaunch /\ \A i \in Start : Live(i)' => runner'[i].of # p
Noted(p) ==
  /\ known'[p].id = known[p].id /\ known[p].id # 0 /\ known'[p].adopted = known[p].adopted
  /\ known[p].error => known'[p].error
  /\ known'[p].ready \/ known'[p].error => PastStart(known[p].id)'
ReservedFor(p) ==
  /\ known[p] = NoLaunch
  /\ known'[p].id \in Child /\ ~known'[p].ready /\ ~known'[p].error /\ ~known'[p].adopted
BookStep == \A p \in Profile : known'[p] = known[p] \/ ForgottenFor(p) \/ Noted(p) \/ ReservedFor(p)

LEMMA IdsApart ==
  /\ Profile \subseteq Start /\ Child \subseteq Start /\ Child \cap Profile = {}
  /\ 0 \notin Start /\ Nil \notin Start /\ Nil # 0 /\ 0 \notin Profile
  /\ \A i \in Start : i \in Profile \/ i \in Child
BY OpeningsAssumption DEF Start, Child, Nil

LEMMA NoLaunchFields ==
  /\ NoLaunch \in Launched /\ NoLaunch.id = 0 /\ ~NoLaunch.ready /\ ~NoLaunch.error
  /\ ~NoLaunch.adopted /\ ~NoLaunch.wanted
BY DEF NoLaunch, Launched, LaunchIds

LEMMA WhatIsOverStaysOver ==
  ASSUME OpeningsInv, RunnerStep
  PROVE  \A id \in LaunchIds : PastStart(id) =>
           /\ PastStart(id)'
           /\ \A p \in Profile : IsOver(p, id) => IsOver(p, id)'
<1> SUFFICES ASSUME NEW id \in LaunchIds, PastStart(id)
             PROVE  PastStart(id)' /\ \A p \in Profile : IsOver(p, id) => IsOver(p, id)'
  OBVIOUS
<1>1. PastStart(id)'
  BY DEF PastStart, RunnerStep
<1>2. ASSUME NEW p \in Profile, IsOver(p, id) PROVE IsOver(p, id)'
  <2> SUFFICES ASSUME NEW i \in Start, Live(i)', runner'[i].of = p
               PROVE  i # id /\ (id = Nil => i \notin Profile)
    BY DEF IsOver
  <2>1. CASE runner[i].at = "none" /\ i \in Child /\ runner'[i].at = "spawning"
    BY <2>1, IdsApart DEF PastStart
  <2>2. CASE ~(runner[i].at = "none" /\ i \in Child /\ runner'[i].at = "spawning")
    BY <1>2, <2>2 DEF RunnerStep, IsOver, Live
  <2> QED BY <2>1, <2>2
<1> QED BY <1>1, <1>2

LEMMA BookStaysSound ==
  ASSUME OpeningsInv, OpeningsTypeOK', RunnerStep, BookStep
  PROVE  LiveAreKnown' /\ FoundAreFound' /\ BookIsSound'
<1>1. LiveAreKnown'
  <2> SUFFICES ASSUME NEW i \in Start, Live(i)'
               PROVE  /\ runner'[i].of \in Profile
                      /\ known'[runner'[i].of].id = i \/ (i \in Profile /\ known'[i].id = Nil)
    BY DEF LiveAreKnown
  <2>1. CASE runner[i].at = "none" /\ i \in Child /\ runner'[i].at = "spawning"
    BY <2>1, IdsApart DEF RunnerStep, Live, Alive, Holding
  <2>2. CASE ~(runner[i].at = "none" /\ i \in Child /\ runner'[i].at = "spawning")
    <3>1. Live(i) /\ runner'[i].of = runner[i].of
      BY <2>2 DEF RunnerStep, Live
    <3> DEFINE p == runner[i].of
    <3>2. p \in Profile /\ (known[p].id = i \/ (i \in Profile /\ known[i].id = Nil))
      BY <3>1 DEF OpeningsInv, LiveAreKnown
    <3>3. i \in Profile => p = i
      BY DEF OpeningsInv, FoundAreFound
    <3>4. known[p].id = i \/ (i \in Profile /\ p = i /\ known[p].id = Nil)
      BY <3>2, <3>3
    <3>5. known[p] # NoLaunch
      BY <3>4, NoLaunchFields, IdsApart
    <3>6. known'[p].id = known[p].id
      BY <3>1, <3>2, <3>5 DEF BookStep, ForgottenFor, Noted, ReservedFor
    <3> QED BY <3>1, <3>2, <3>4, <3>6
  <2> QED BY <2>1, <2>2
<1>2. FoundAreFound'
  BY IdsApart DEF OpeningsInv, FoundAreFound, RunnerStep, Starting
<1>3. BookIsSound'
  <2> SUFFICES ASSUME NEW p \in Profile
               PROVE  /\ known'[p].id = 0 => known'[p] = NoLaunch
                      /\ known'[p].id = Nil => known'[p].error
                      /\ known'[p].adopted => known'[p].id \in {p, Nil}
                      /\ known'[p].ready \/ known'[p].error \/ known'[p].adopted => PastStart(known[p].id)'
    BY DEF BookIsSound
  <2> PICK id \in LaunchIds : id = known[p].id
    BY DEF OpeningsInv, OpeningsTypeOK, Launched
  <2>1. /\ id = 0 => known[p] = NoLaunch
        /\ id = Nil => known[p].error
        /\ known[p].adopted => id \in {p, Nil}
        /\ known[p].ready \/ known[p].error \/ known[p].adopted => PastStart(id)
    BY DEF OpeningsInv, BookIsSound
  <2>2. PastStart(id) => PastStart(id)'
    BY WhatIsOverStaysOver
  <2>3. CASE known'[p] = known[p]
    BY <2>1, <2>2, <2>3 DEF PastStart
  <2>4. CASE ForgottenFor(p)
    BY <2>4, NoLaunchFields, IdsApart DEF ForgottenFor
  <2>5. CASE Noted(p)
    <3>1. known'[p].id = id /\ id # 0 /\ (known'[p].adopted <=> known[p].adopted)
      BY <2>5 DEF Noted
    <3>2. PastStart(id)' => PastStart(known[p].id)'
      BY <3>1 DEF PastStart
    <3> QED BY <2>1, <2>2, <2>5, <3>1, <3>2 DEF Noted
  <2>6. CASE ReservedFor(p)
    BY <2>6, IdsApart DEF ReservedFor
  <2> QED BY <2>3, <2>4, <2>5, <2>6 DEF BookStep
<1> QED BY <1>1, <1>2, <1>3

LEMMA SeenStaysSound ==
  ASSUME OpeningsInv, RunnerStep, seen' \subseteq seen
  PROVE  SeenAreOver'
<1> SUFFICES ASSUME NEW s \in seen' PROVE PastStart(s[2])' /\ IsOver(s[1], s[2])'
  BY DEF SeenAreOver
<1>1. s[1] \in Profile /\ s[2] \in LaunchIds /\ PastStart(s[2]) /\ IsOver(s[1], s[2])
  BY DEF OpeningsInv, OpeningsTypeOK, SeenAreOver
<1>2. PastStart(s[2])' /\ IsOver(s[1], s[2])'
  BY <1>1, WhatIsOverStaysOver DEF PastStart, IsOver
<1> QED BY <1>2

(* One thread goes on, or none does.                                         *)
AskIsSound(a) ==
  /\ ask[a].at \in Busy => a \in entered /\ ask[a].of \in Profile
  /\ ask[a].at \in {"retry", "probe", "forget", "call"} => PastStart(ask[a].launch)
  /\ ask[a].at = "forget" => IsOver(ask[a].of, ask[a].launch)

LEMMA AsksStaySound ==
  ASSUME OpeningsInv, RunnerStep,
         \A b \in Asking : \/ ask'[b] = ask[b] /\ (b \in entered => b \in entered')
                           \/ AskIsSound(b)'
  PROVE  AsksAreSound'
<1> SUFFICES ASSUME NEW b \in Asking PROVE AskIsSound(b)'
  BY DEF AsksAreSound, AskIsSound
<1>1. CASE ask'[b] = ask[b] /\ (b \in entered => b \in entered')
  <2> PICK id \in LaunchIds, p \in Profile \cup {0} : id = ask[b].launch /\ p = ask[b].of
    BY DEF OpeningsInv, OpeningsTypeOK, Question
  <2>1. /\ ask[b].at \in Busy => b \in entered /\ p \in Profile
        /\ ask[b].at \in {"retry", "probe", "forget", "call"} => PastStart(id)
        /\ ask[b].at = "forget" => IsOver(p, id)
    BY DEF OpeningsInv, AsksAreSound
  <2>2. ask[b].at \in {"retry", "probe", "forget", "call"} => PastStart(id)'
    BY <2>1, WhatIsOverStaysOver
  <2>3. ask[b].at = "forget" => IsOver(p, id)'
    BY <2>1, WhatIsOverStaysOver DEF Busy
  <2> QED BY <1>1, <2>1, <2>2, <2>3 DEF AskIsSound, PastStart, IsOver, Live
<1> QED BY <1>1

LEMMA ForgetsWhatIsOver ==
  ASSUME OpeningsTypeOK, LiveAreKnown, FoundAreFound, NEW p \in Profile, NEW id \in LaunchIds, id # 0,
         IsOver(p, id), known[p].id = id
  PROVE  \A i \in Start : Live(i) => runner[i].of # p
BY DEF LiveAreKnown, FoundAreFound, IsOver

(* The end of the argument of each step.                                     *)
LEMMA StepIsSound ==
  ASSUME OpeningsInv, OpeningsTypeOK', RunnerStep, BookStep, AsksAreSound', SeenAreOver', QuitIsSound'
  PROVE  OpeningsInv'
BY BookStaysSound DEF OpeningsInv

-----------------------------------------------------------------------------
(* The parts that steps are made of.                                         *)
LEMMA Still ==
  ASSUME OpeningsInv
  PROVE  /\ UNCHANGED runner => RunnerStep
         /\ UNCHANGED known => BookStep
BY DEF RunnerStep, BookStep

LEMMA SetIsARunnerStep ==
  ASSUME OpeningsInv, NEW i \in Start, NEW place \in {"over", "reaped"} \cup Alive, Set(i, place),
         runner[i].at # "none",
         place \in Alive \cup {"spawning"} => Live(i),
         place \in Starting => runner[i].at \in Starting
  PROVE  /\ RunnerStep /\ runner' \in [Start -> Runner]
         /\ runner'[i].at = place /\ runner'[i].of = runner[i].of
         /\ \A j \in Start : j # i => runner'[j] = runner[j]
         /\ \A j \in Start : Live(j)' => Live(j) /\ runner'[j].of = runner[j].of
<1>1. runner \in [Start -> Runner]
  BY DEF OpeningsInv, OpeningsTypeOK
<1>2. /\ runner'[i].at = place /\ runner'[i].of = runner[i].of
      /\ \A j \in Start : j # i => runner'[j] = runner[j]
  BY <1>1 DEF Set, Runner
<1>3. runner' \in [Start -> Runner]
  BY <1>1 DEF Set, Runner
<1>4. RunnerStep
  BY <1>2 DEF RunnerStep, Live, Alive, Holding
<1>5. \A j \in Start : Live(j)' => Live(j) /\ runner'[j].of = runner[j].of
  BY <1>2 DEF Live
<1> QED BY <1>2, <1>3, <1>4, <1>5

LEMMA ForgetIsABookStep ==
  ASSUME OpeningsInv, NEW p \in Profile, NEW id \in LaunchIds, known' = Forget(p, id), IsOver(p, id)',
         \A j \in Start : Live(j)' => Live(j) /\ runner'[j].of = runner[j].of
  PROVE  /\ known' \in [Profile -> Launched] /\ BookStep
         /\ \A q \in Profile : known[q] = NoLaunch => known'[q] = NoLaunch
<1>1. known \in [Profile -> Launched]
  BY DEF OpeningsInv, OpeningsTypeOK
<1>2. known' \in [Profile -> Launched] /\ \A q \in Profile : known[q] = NoLaunch => known'[q] = NoLaunch
  BY <1>1, NoLaunchFields DEF Forget
<1>3. \A q \in Profile : q # p => known'[q] = known[q]
  BY <1>1 DEF Forget
<1>4. known'[p] = known[p] \/ ForgottenFor(p)
  <2>1. CASE known[p].id # id
    BY <1>1, <2>1 DEF Forget
  <2>2. CASE known[p].id = id /\ id = 0
    BY <1>1, <2>2 DEF Forget, OpeningsInv, BookIsSound
  <2>3. CASE known[p].id = id /\ id # 0
    <3>1. known'[p] = NoLaunch
      BY <1>1, <2>3 DEF Forget
    <3>2. ASSUME NEW j \in Start, Live(j)', runner'[j].of = p PROVE FALSE
      <4>1. Live(j) /\ runner[j].of = p /\ j # id /\ (id = Nil => j \notin Profile)
        BY <3>2 DEF IsOver
      <4>2. known[p].id = j \/ (j \in Profile /\ known[j].id = Nil)
        BY <4>1 DEF OpeningsInv, LiveAreKnown
      <4>3. j \in Profile => p = j
        BY <4>1 DEF OpeningsInv, FoundAreFound
      <4> QED BY <2>3, <4>1, <4>2, <4>3
    <3> QED BY <3>1, <3>2 DEF ForgottenFor
  <2> QED BY <2>1, <2>2, <2>3
<1> QED BY <1>2, <1>3, <1>4 DEF BookStep

(* A thread goes on with question q, or none does.                           *)
LEMMA AskIsAnswered ==
  ASSUME OpeningsInv, RunnerStep, NEW a \in Asking, NEW q \in Question,
         ask' = [ask EXCEPT ![a] = q],
         entered' \subseteq Asking, \A b \in entered : b = a \/ b \in entered',
         q.at \in Busy => a \in entered' /\ q.of \in Profile,
         q.at \in {"retry", "probe", "forget", "call"} => PastStart(q.launch)',
         q.at = "forget" => IsOver(q.of, q.launch)'
  PROVE  AsksAreSound' /\ ask' \in [Asking -> Question]
<1>1. ask \in [Asking -> Question]
  BY DEF OpeningsInv, OpeningsTypeOK
<1>2. ask' \in [Asking -> Question] /\ ask'[a] = q /\ \A b \in Asking : b # a => ask'[b] = ask[b]
  BY <1>1
<1>3. AskIsSound(a)'
  BY <1>2 DEF AskIsSound, PastStart, IsOver, Live
<1>4. \A b \in Asking : \/ ask'[b] = ask[b] /\ (b \in entered => b \in entered')
                        \/ AskIsSound(b)'
  BY <1>2, <1>3 DEF AskIsSound, PastStart, IsOver, Live
<1> QED BY <1>2, <1>4, AsksStaySound

LEMMA AsksStayStill ==
  ASSUME OpeningsInv, RunnerStep, UNCHANGED <<ask, entered>>
  PROVE  AsksAreSound' /\ ask' \in [Asking -> Question] /\ entered' \subseteq Asking
<1>1. \A b \in Asking : \/ ask'[b] = ask[b] /\ (b \in entered => b \in entered')
                        \/ AskIsSound(b)'
  OBVIOUS
<1> QED BY <1>1, AsksStaySound DEF OpeningsInv, OpeningsTypeOK

(* Whatever happens, no launch is reserved and no job accepted once a quit   *)
(* began.                                                                    *)
LEMMA QuitStaysSound ==
  ASSUME OpeningsInv, OpeningsTypeOK', UNCHANGED <<quit.at, quit.idle, quit.aim>>,
         quit.at = "no" \/
           (entered' \subseteq entered /\ \A p \in Profile : known[p] = NoLaunch => known'[p] = NoLaunch)
  PROVE  QuitIsSound'
BY DEF OpeningsInv, QuitIsSound, Opens

(* A step that leaves what quits alone.                                      *)
LEMMA StepEnds ==
  ASSUME OpeningsInv, RunnerStep, BookStep,
         known' \in [Profile -> Launched], runner' \in [Start -> Runner],
         ask' \in [Asking -> Question], AsksAreSound', entered' \subseteq Asking, seen' \subseteq seen,
         UNCHANGED quit,
         quit.at = "no" \/
           (entered' \subseteq entered /\ \A p \in Profile : known[p] = NoLaunch => known'[p] = NoLaunch)
  PROVE  OpeningsInv'
<1>1. OpeningsTypeOK'
  BY DEF OpeningsInv, OpeningsTypeOK
<1>2. QuitIsSound'
  BY <1>1, QuitStaysSound
<1> QED BY <1>1, <1>2, SeenStaysSound, StepIsSound

LEMMA EndsIsSound ==
  ASSUME OpeningsInv, RunnerStep, NEW a \in Asking, Ends(a)
  PROVE  /\ AsksAreSound' /\ ask' \in [Asking -> Question]
         /\ entered' \subseteq Asking /\ entered' \subseteq entered
<1>1. Replied \in Question /\ Replied.at = "done"
  BY DEF Replied, NoQuestion, Question, LaunchIds
<1>2. ask' = [ask EXCEPT ![a] = Replied] /\ entered' = entered \ {a} /\ entered \subseteq Asking
  BY DEF Ends, OpeningsInv, OpeningsTypeOK
<1>3. AsksAreSound' /\ ask' \in [Asking -> Question]
  <2> PICK q \in Question : q = Replied
    BY <1>1
  <2>1. q.at = "done" /\ ask' = [ask EXCEPT ![a] = q] /\ entered' \subseteq Asking
        /\ \A b \in entered : b = a \/ b \in entered'
    BY <1>1, <1>2
  <2> QED BY <2>1, AskIsAnswered DEF Busy
<1> QED BY <1>2, <1>3

(* The thread of a goes on to another place, and knows the launch id.        *)
LEMMA GoesOnIsSound ==
  ASSUME OpeningsInv, RunnerStep, NEW a \in Asking, ask[a].at \in Busy,
         NEW place \in Busy, NEW id \in LaunchIds,
         ask' = [ask EXCEPT ![a] = [@ EXCEPT !.at = place, !.launch = id]], UNCHANGED entered,
         place \in {"retry", "probe", "forget", "call"} => PastStart(id),
         place = "forget" => PastStart(id) /\ IsOver(ask[a].of, id)
  PROVE  /\ AsksAreSound' /\ ask' \in [Asking -> Question]
         /\ entered' \subseteq Asking /\ entered' \subseteq entered
<1>1. ask \in [Asking -> Question] /\ entered \subseteq Asking
  BY DEF OpeningsInv, OpeningsTypeOK
<1>2. a \in entered /\ ask[a].of \in Profile
  BY DEF OpeningsInv, AsksAreSound
<1> PICK p \in Profile : p = ask[a].of
  BY <1>2
<1> PICK q \in Question : q = [ask[a] EXCEPT !.at = place, !.launch = id]
  BY <1>1 DEF Question
<1>3. q.at = place /\ q.launch = id /\ q.of = p
  BY <1>1 DEF Question
<1>4. PastStart(id) => PastStart(id)' /\ (IsOver(p, id) => IsOver(p, id)')
  BY WhatIsOverStaysOver
<1>5. ask' = [ask EXCEPT ![a] = q]
  OBVIOUS
<1>6. /\ q.at \in {"retry", "probe", "forget", "call"} => PastStart(q.launch)'
      /\ q.at = "forget" => IsOver(q.of, q.launch)'
  BY <1>3, <1>4
<1> QED BY <1>1, <1>2, <1>3, <1>5, <1>6, AskIsAnswered

LEMMA GoesIsSound ==
  ASSUME OpeningsInv, RunnerStep, NEW a \in Asking, ask[a].at \in Busy, NEW place \in Busy, Goes(a, place),
         place \in {"retry", "probe", "forget", "call"} => PastStart(ask[a].launch),
         place = "forget" => IsOver(ask[a].of, ask[a].launch)
  PROVE  /\ AsksAreSound' /\ ask' \in [Asking -> Question]
         /\ entered' \subseteq Asking /\ entered' \subseteq entered
<1>1. ask \in [Asking -> Question]
  BY DEF OpeningsInv, OpeningsTypeOK
<1> PICK id \in LaunchIds : id = ask[a].launch
  BY <1>1 DEF Question
<1>2. [ask[a] EXCEPT !.at = place, !.launch = id] = [ask[a] EXCEPT !.at = place]
  BY <1>1 DEF Question
<1>3. ask' = [ask EXCEPT ![a] = [@ EXCEPT !.at = place, !.launch = id]] /\ UNCHANGED entered
  BY <1>1, <1>2 DEF Goes
<1>4. /\ place \in {"retry", "probe", "forget", "call"} => PastStart(id)
      /\ place = "forget" => PastStart(id) /\ IsOver(ask[a].of, id)
  BY DEF PastStart, IsOver
<1> QED BY <1>3, <1>4, GoesOnIsSound

LEMMA ReturnsIsSound ==
  ASSUME OpeningsInv, RunnerStep, NEW a \in Asking, ask[a].at \in Busy, NEW id \in LaunchIds, Returns(a, id)
  PROVE  /\ AsksAreSound' /\ ask' \in [Asking -> Question]
         /\ entered' \subseteq Asking /\ entered' \subseteq entered
<1>1. CASE Ends(a)
  BY <1>1, EndsIsSound
<1>2. CASE ask' = [ask EXCEPT ![a] = [@ EXCEPT !.at = "wait", !.launch = id]] /\ UNCHANGED entered
  BY <1>2, GoesOnIsSound DEF Busy
<1> QED BY <1>1, <1>2 DEF Returns

-----------------------------------------------------------------------------
(* The requests.                                                             *)
LEMMA AskOpenIsSound ==
  ASSUME OpeningsInv, NEW a \in Asking, AskOpen(a)
  PROVE  OpeningsInv'
<1>1. UNCHANGED <<known, runner, seen, quit>> /\ RunnerStep /\ BookStep
  BY Still DEF AskOpen
<1>2. known' \in [Profile -> Launched] /\ runner' \in [Start -> Runner] /\ entered \subseteq Asking
      /\ ask \in [Asking -> Question]
  BY <1>1 DEF OpeningsInv, OpeningsTypeOK
<1>3. CASE Ends(a)
  BY <1>1, <1>2, <1>3, EndsIsSound, StepEnds
<1>4. ASSUME NEW p \in Profile, NEW tracked \in BOOLEAN, quit.at = "no",
             ask' = [ask EXCEPT ![a] = [@ EXCEPT !.at = "open", !.of = p, !.tracked = tracked]],
             entered' = entered \cup {a}
      PROVE  OpeningsInv'
  <2> PICK q \in Question : q = [ask[a] EXCEPT !.at = "open", !.of = p, !.tracked = tracked]
    BY <1>2 DEF Question, Busy
  <2>1. q.at = "open" /\ q.of = p /\ ask' = [ask EXCEPT ![a] = q]
    BY <1>2, <1>4 DEF Question
  <2>2. AsksAreSound' /\ ask' \in [Asking -> Question]
    BY <1>1, <1>2, <1>4, <2>1, AskIsAnswered, ZenonT(60)
  <2> QED BY <1>1, <1>2, <1>4, <2>2, StepEnds
<1> QED BY <1>3, <1>4 DEF AskOpen, Accepts, Registered

LEMMA OpenFailsIsSound ==
  ASSUME OpeningsInv, NEW a \in Asking, OpenFails(a)
  PROVE  OpeningsInv'
<1>1. UNCHANGED <<known, runner, seen, quit>> /\ RunnerStep /\ BookStep /\ Ends(a)
  BY Still DEF OpenFails
<1>2. known' \in [Profile -> Launched] /\ runner' \in [Start -> Runner]
  BY <1>1 DEF OpeningsInv, OpeningsTypeOK
<1> QED BY <1>1, <1>2, EndsIsSound, StepEnds

LEMMA ReservedIsSound ==
  ASSUME OpeningsInv, NEW a \in Asking, Reserved(a)
  PROVE  OpeningsInv'
<1>1. /\ known \in [Profile -> Launched] /\ runner \in [Start -> Runner] /\ ask \in [Asking -> Question]
      /\ ask[a].at \in Busy /\ ask[a].of \in Profile
  BY DEF Reserved, OpeningsInv, OpeningsTypeOK, AsksAreSound, Busy
<1> PICK p \in Profile : p = ask[a].of
  BY <1>1
<1> PICK i \in Child :
      /\ runner[i].at = "none"
      /\ known' = [known EXCEPT ![p] = [NoLaunch EXCEPT !.id = i, !.wanted = ~ask[a].tracked]]
      /\ runner' = [runner EXCEPT ![i] = [of |-> p, at |-> "spawning"]]
      /\ Returns(a, i)
  <2> PICK i \in Child :
      /\ \A j \in Child : runner[j].at = "none" <=> j >= i
      /\ known' = [known EXCEPT ![p] = [NoLaunch EXCEPT !.id = i, !.wanted = ~ask[a].tracked]]
      /\ runner' = [runner EXCEPT ![i] = [of |-> p, at |-> "spawning"]]
      /\ Returns(a, i)
    BY DEF Reserved
  <2> i >= i
    BY OpeningsAssumption DEF Child, Start
  <2> QED OBVIOUS
<1>2. /\ quit.at = "no" /\ known[p] = NoLaunch /\ UNCHANGED <<seen, quit>>
  BY DEF Reserved
<1>3. i \in Start /\ i \in LaunchIds /\ ask[a].tracked \in BOOLEAN
  BY <1>1, IdsApart DEF LaunchIds, Question
<1>4. /\ known' \in [Profile -> Launched] /\ \A r \in Profile : r # p => known'[r] = known[r]
      /\ known'[p].id = i /\ ~known'[p].ready /\ ~known'[p].error /\ ~known'[p].adopted
  <2> PICK l \in Launched : l = [NoLaunch EXCEPT !.id = i, !.wanted = ~ask[a].tracked]
    BY <1>3, NoLaunchFields DEF NoLaunch, Launched
  <2>1. l.id = i /\ ~l.ready /\ ~l.error /\ ~l.adopted
    BY DEF NoLaunch
  <2> QED BY <1>1, <2>1
<1>5. /\ runner' \in [Start -> Runner] /\ runner'[i].at = "spawning" /\ runner'[i].of = p
      /\ \A j \in Start : j # i => runner'[j] = runner[j]
  BY <1>1, <1>3 DEF Runner
<1>6. RunnerStep
  BY <1>3, <1>4, <1>5 DEF RunnerStep
<1>7. BookStep
  BY <1>2, <1>4 DEF BookStep, ReservedFor
<1>8. AsksAreSound' /\ ask' \in [Asking -> Question] /\ entered' \subseteq Asking
  BY <1>1, <1>3, <1>6, ReturnsIsSound
<1> QED BY <1>2, <1>4, <1>5, <1>6, <1>7, <1>8, StepEnds

LEMMA FindsLaunchIsSound ==
  ASSUME OpeningsInv, NEW a \in Asking, FindsLaunch(a)
  PROVE  OpeningsInv'
<1>1. /\ known \in [Profile -> Launched] /\ runner \in [Start -> Runner] /\ ask \in [Asking -> Question]
      /\ ask[a].at \in Busy /\ ask[a].of \in Profile
  BY DEF FindsLaunch, OpeningsInv, OpeningsTypeOK, AsksAreSound, Busy
<1> PICK p \in Profile : p = ask[a].of
  BY <1>1
<1> PICK id \in LaunchIds : id = known[p].id
  BY <1>1 DEF Launched
<1>2. /\ quit.at = "no" /\ known[p] # NoLaunch /\ UNCHANGED <<runner, seen, quit>>
      /\ known' = [known EXCEPT ![p].wanted = @ \/ (~ask[a].tracked /\ ~known[p].ready)]
  BY DEF FindsLaunch
<1>3. RunnerStep /\ runner' \in [Start -> Runner]
  BY <1>1, <1>2, Still
<1>4. /\ known' \in [Profile -> Launched] /\ \A r \in Profile : r # p => known'[r] = known[r]
      /\ known'[p].id = id /\ known'[p].ready = known[p].ready /\ known'[p].error = known[p].error
      /\ known'[p].adopted = known[p].adopted
  <2>1. known[p] \in Launched
    BY <1>1
  <2>2. PICK wanted : wanted = (known[p].wanted \/ (~ask[a].tracked /\ ~known[p].ready))
    OBVIOUS
  <2>3. wanted \in BOOLEAN
    BY <2>2
  <2>4. PICK entry : entry = [known[p] EXCEPT !.wanted = wanted]
    OBVIOUS
  <2>5. /\ entry \in Launched /\ entry.id = known[p].id /\ entry.ready = known[p].ready
        /\ entry.error = known[p].error /\ entry.adopted = known[p].adopted
    BY <2>1, <2>3, <2>4 DEF Launched
  <2>6. known' = [known EXCEPT ![p] = entry]
    BY <1>1, <1>2, <2>2, <2>4
  <2>7. known' \in [Profile -> Launched] /\ known'[p] = entry /\ \A r \in Profile : r # p => known'[r] = known[r]
    BY <1>1, <2>5, <2>6
  <2> QED BY <2>5, <2>7
<1>5. /\ id # 0
      /\ known[p].ready \/ known[p].error \/ known[p].adopted => PastStart(id)
  BY <1>2 DEF OpeningsInv, BookIsSound
<1>6. BookStep
  <2>1. PastStart(id) => PastStart(known[p].id)'
    BY <1>2, <1>4 DEF PastStart
  <2>2. Noted(p)
    BY <1>1, <1>4, <1>5, <2>1 DEF Noted
  <2> QED BY <1>4, <2>2 DEF BookStep
<1>7. \/ Returns(a, id)
      \/ \E place \in {"retry", "probe", "call"} :
           /\ ask' = [ask EXCEPT ![a] = [@ EXCEPT !.at = place, !.launch = id]] /\ UNCHANGED entered
           /\ known[p].ready \/ known[p].error \/ known[p].adopted
  BY DEF FindsLaunch
<1>8. AsksAreSound' /\ ask' \in [Asking -> Question] /\ entered' \subseteq Asking
  <2>1. CASE Returns(a, id)
    BY <1>1, <1>3, <2>1, ReturnsIsSound
  <2>2. ASSUME NEW place \in {"retry", "probe", "call"}, UNCHANGED entered,
               ask' = [ask EXCEPT ![a] = [@ EXCEPT !.at = place, !.launch = id]],
               known[p].ready \/ known[p].error \/ known[p].adopted
        PROVE  AsksAreSound' /\ ask' \in [Asking -> Question] /\ entered' \subseteq Asking
    BY <1>1, <1>3, <1>5, <2>2, GoesOnIsSound DEF Busy
  <2> QED BY <1>7, <2>1, <2>2
<1> QED BY <1>2, <1>3, <1>4, <1>6, <1>8, StepEnds

(* A lease that is free shows that what stood past its start is over.        *)
LEMMA FreeMeansOver ==
  ASSUME OpeningsInv, NEW p \in Profile, NEW id \in LaunchIds, PastStart(id), LeaseFree(p)
  PROVE  IsOver(p, id)
<1> SUFFICES ASSUME NEW i \in Start, Live(i), runner[i].of = p
             PROVE  i # id /\ (id = Nil => i \notin Profile)
  BY DEF IsOver
<1>1. runner[i].at \notin Holding
  BY DEF LeaseFree
<1>2. runner[i].at \in Starting
  BY <1>1 DEF Live, Alive, Starting
<1> QED BY <1>2 DEF PastStart, OpeningsInv, FoundAreFound

LEMMA ReconcilesIsSound ==
  ASSUME OpeningsInv, NEW a \in Asking, Reconciles(a)
  PROVE  OpeningsInv'
<1>1. UNCHANGED <<known, runner, seen, quit>> /\ RunnerStep /\ BookStep
  BY Still DEF Reconciles
<1>2. known' \in [Profile -> Launched] /\ runner' \in [Start -> Runner] /\ ask \in [Asking -> Question]
  BY <1>1 DEF OpeningsInv, OpeningsTypeOK
<1>3. /\ ask[a].at \in {"retry", "probe"} /\ ask[a].at \in Busy /\ ask[a].of \in Profile
      /\ PastStart(ask[a].launch)
  BY DEF Reconciles, OpeningsInv, AsksAreSound, Busy
<1> PICK p \in Profile, id \in LaunchIds : p = ask[a].of /\ id = ask[a].launch
  BY <1>2, <1>3 DEF Question
<1>4. CASE LeaseFree(p) /\ Goes(a, "forget")
  <2>1. PastStart(id)
    BY <1>3
  <2>2. IsOver(p, id)
    BY <1>4, <2>1, FreeMeansOver
  <2>3. AsksAreSound' /\ ask' \in [Asking -> Question] /\ entered' \subseteq Asking /\ entered' \subseteq entered
    BY <1>1, <1>3, <1>4, <2>2, GoesIsSound DEF Busy
  <2> QED BY <1>1, <1>2, <2>3, StepEnds
<1>5. CASE Ends(a)
  BY <1>1, <1>2, <1>5, EndsIsSound, StepEnds
<1>6. CASE Returns(a, id)
  <2>1. AsksAreSound' /\ ask' \in [Asking -> Question] /\ entered' \subseteq Asking /\ entered' \subseteq entered
    BY <1>1, <1>3, <1>6, ReturnsIsSound
  <2> QED BY <1>1, <1>2, <2>1, StepEnds
<1> QED BY <1>4, <1>5, <1>6 DEF Reconciles

LEMMA OpensAgainIsSound ==
  ASSUME OpeningsInv, NEW a \in Asking, OpensAgain(a)
  PROVE  OpeningsInv'
<1>1. UNCHANGED <<runner, seen, quit, entered>> /\ RunnerStep
  BY Still DEF OpensAgain
<1>2. runner' \in [Start -> Runner] /\ ask \in [Asking -> Question] /\ entered \subseteq Asking
  BY <1>1 DEF OpeningsInv, OpeningsTypeOK
<1>3. ask[a].at = "forget" /\ ask[a].of \in Profile /\ IsOver(ask[a].of, ask[a].launch)
  BY DEF OpensAgain, OpeningsInv, AsksAreSound, Busy
<1> PICK p \in Profile, id \in LaunchIds : p = ask[a].of /\ id = ask[a].launch
  BY <1>2, <1>3 DEF Question
<1>4. known' = Forget(p, id)
  BY DEF OpensAgain
<1>5. IsOver(p, id)'
  BY <1>1, <1>3 DEF IsOver, Live
<1>6. /\ known' \in [Profile -> Launched] /\ BookStep
      /\ \A q \in Profile : known[q] = NoLaunch => known'[q] = NoLaunch
  BY <1>1, <1>4, <1>5, ForgetIsABookStep DEF Live
<1>7. ask' = [ask EXCEPT ![a] = [@ EXCEPT !.at = "open", !.launch = 0]]
  BY DEF OpensAgain
<1>8. AsksAreSound' /\ ask' \in [Asking -> Question] /\ entered' \subseteq Asking
  BY <1>1, <1>3, <1>7, GoesOnIsSound DEF Busy, LaunchIds
<1> QED BY <1>1, <1>2, <1>6, <1>8, StepEnds

LEMMA WaitsReadyIsSound ==
  ASSUME OpeningsInv, NEW a \in Asking, WaitsReady(a)
  PROVE  OpeningsInv'
<1>1. UNCHANGED <<known, runner, seen, quit>> /\ RunnerStep /\ BookStep
  BY Still DEF WaitsReady
<1>2. known' \in [Profile -> Launched] /\ runner' \in [Start -> Runner]
  BY <1>1 DEF OpeningsInv, OpeningsTypeOK
<1>3. ask[a].at \in Busy /\ ask[a].of \in Profile
  BY DEF WaitsReady, OpeningsInv, AsksAreSound, Busy
<1>4. CASE Ends(a)
  BY <1>1, <1>2, <1>4, EndsIsSound, StepEnds
<1>5. CASE known[ask[a].of].id = ask[a].launch /\ known[ask[a].of].ready /\ Goes(a, "call")
  <2>1. PastStart(ask[a].launch)
    BY <1>3, <1>5 DEF OpeningsInv, BookIsSound, PastStart
  <2>2. AsksAreSound' /\ ask' \in [Asking -> Question] /\ entered' \subseteq Asking /\ entered' \subseteq entered
    BY <1>1, <1>3, <1>5, <2>1, GoesIsSound DEF Busy
  <2> QED BY <1>1, <1>2, <2>2, StepEnds
<1> QED BY <1>4, <1>5 DEF WaitsReady

LEMMA ActivatesIsSound ==
  ASSUME OpeningsInv, NEW a \in Asking, Activates(a)
  PROVE  OpeningsInv'
<1>1. UNCHANGED <<known, runner, seen, quit>> /\ RunnerStep /\ BookStep
  BY Still DEF Activates
<1>2. known' \in [Profile -> Launched] /\ runner' \in [Start -> Runner]
  BY <1>1 DEF OpeningsInv, OpeningsTypeOK
<1>3. ask[a].at \in Busy /\ PastStart(ask[a].launch)
  BY DEF Activates, OpeningsInv, AsksAreSound, Busy
<1>4. CASE Ends(a)
  BY <1>1, <1>2, <1>4, EndsIsSound, StepEnds
<1>5. CASE Goes(a, "retry")
  <2>1. AsksAreSound' /\ ask' \in [Asking -> Question] /\ entered' \subseteq Asking /\ entered' \subseteq entered
    BY <1>1, <1>3, <1>5, GoesIsSound DEF Busy
  <2> QED BY <1>1, <1>2, <2>1, StepEnds
<1> QED BY <1>4, <1>5 DEF Activates

-----------------------------------------------------------------------------
(* The processes.                                                            *)

(* A process goes on, and no thread does.                                    *)
LEMMA ProcessStepEnds ==
  ASSUME OpeningsInv, RunnerStep, BookStep, UNCHANGED <<ask, entered, seen, quit>>,
         known' \in [Profile -> Launched], runner' \in [Start -> Runner],
         \A p \in Profile : known[p] = NoLaunch => known'[p] = NoLaunch
  PROVE  OpeningsInv'
BY AsksStayStill, StepEnds

LEMMA ProcessGoesOn ==
  ASSUME OpeningsInv, NEW i \in Start, NEW place \in {"over", "reaped"} \cup Alive, Set(i, place),
         runner[i].at # "none",
         place \in Alive => Live(i), place \in Starting => runner[i].at \in Starting,
         UNCHANGED <<known, ask, entered, seen, quit>>
  PROVE  OpeningsInv'
<1>1. place # "spawning"
  BY DEF Alive, Holding
<1>2. RunnerStep /\ runner' \in [Start -> Runner]
  BY <1>1, SetIsARunnerStep
<1>3. BookStep /\ known' \in [Profile -> Launched]
  BY Still DEF OpeningsInv, OpeningsTypeOK
<1> QED BY <1>2, <1>3, ProcessStepEnds

(* A process that is reaped is forgotten, if the book still knows it.        *)
LEMMA ReapedIsSound ==
  ASSUME OpeningsInv, NEW i \in Start, Set(i, "reaped"), runner[i].at # "none", runner[i].of \in Profile,
         i \in Child,
         known' = Forget(runner[i].of, i) \/ UNCHANGED known,
         UNCHANGED <<ask, entered, seen, quit>>
  PROVE  OpeningsInv'
<1> "reaped" \notin Alive \cup {"spawning"} /\ "reaped" \notin Starting
  BY DEF Alive, Holding, Starting
<1>1. /\ RunnerStep /\ runner' \in [Start -> Runner] /\ runner'[i].at = "reaped"
      /\ \A j \in Start : Live(j)' => Live(j) /\ runner'[j].of = runner[j].of
  BY SetIsARunnerStep
<1>2. CASE known' = Forget(runner[i].of, i)
  <2> PICK p \in Profile : p = runner[i].of
    OBVIOUS
  <2>1. IsOver(p, i)'
    BY <1>1, IdsApart DEF IsOver, Live
  <2>2. /\ known' \in [Profile -> Launched] /\ BookStep
        /\ \A q \in Profile : known[q] = NoLaunch => known'[q] = NoLaunch
    BY <1>1, <1>2, <2>1, ForgetIsABookStep DEF LaunchIds
  <2> QED BY <1>1, <2>2, ProcessStepEnds
<1>3. CASE UNCHANGED known
  BY <1>1, <1>3, Still, ProcessStepEnds DEF OpeningsInv, OpeningsTypeOK
<1> QED BY <1>2, <1>3

LEMMA SpawnsIsSound ==
  ASSUME OpeningsInv, NEW i \in Start, Spawns(i)
  PROVE  OpeningsInv'
<1>1. runner[i].at = "spawning" /\ Live(i) /\ runner[i].of \in Profile /\ i \in Child
  BY IdsApart DEF Spawns, Live, OpeningsInv, LiveAreKnown, FoundAreFound, Starting
<1>2. UNCHANGED <<ask, entered, seen, quit>>
  BY DEF Spawns
<1>3. CASE Set(i, "started") /\ UNCHANGED known
  BY <1>1, <1>2, <1>3, ProcessGoesOn DEF Alive, Starting
<1>4. CASE Set(i, "reaped") /\ known' = Forget(runner[i].of, i)
  BY <1>1, <1>2, <1>4, ReapedIsSound
<1> QED BY <1>3, <1>4 DEF Spawns

LEMMA ComesUpIsSound ==
  ASSUME OpeningsInv, NEW i \in Start, ComesUp(i)
  PROVE  OpeningsInv'
<1>1. UNCHANGED <<known, ask, entered, seen, quit>> /\ runner[i].at \in Alive /\ runner[i].at # "none" /\ Live(i)
  BY DEF ComesUp, Alive, Live, Holding
<1>2. PICK place \in {"over", "allowed", "leased", "listening"} :
        Set(i, place) /\ (place = "allowed" => runner[i].at = "started")
  BY DEF ComesUp
<1>3. /\ place \in {"over", "reaped"} \cup Alive
      /\ place \in Starting => runner[i].at \in Starting
  BY <1>2 DEF Alive, Holding, Starting
<1> QED BY <1>1, <1>2, <1>3, ProcessGoesOn

LEMMA RefusesCloseIsSound ==
  ASSUME OpeningsInv, NEW i \in Start, RefusesClose(i)
  PROVE  OpeningsInv'
BY ProcessGoesOn DEF RefusesClose, Alive, Holding, Live, Starting

LEMMA ProcessEndsIsSound ==
  ASSUME OpeningsInv, NEW i \in Start, ProcessEnds(i)
  PROVE  OpeningsInv'
BY ProcessGoesOn DEF ProcessEnds, Alive, Holding, Starting

LEMMA ChildReapedIsSound ==
  ASSUME OpeningsInv, NEW i \in Start, ChildReaped(i)
  PROVE  OpeningsInv'
<1>1. runner \in [Start -> Runner]
  BY DEF OpeningsInv, OpeningsTypeOK
<1>2. i \in Child /\ runner[i].at = "over" /\ runner[i].of \in Profile
  BY <1>1 DEF ChildReaped, OpeningsInv, FoundAreFound, Runner
<1> QED BY <1>2, ReapedIsSound DEF ChildReaped

(* What a process that listens says of itself is noted of its launch.        *)
LEMMA HeardIsNoted ==
  ASSUME OpeningsInv, RunnerStep, NEW i \in Start, NEW p \in Profile, known[p].id = i,
         NEW l \in Launched, known' = [known EXCEPT ![p] = l],
         l.id = i, l.adopted = known[p].adopted, known[p].error => l.error,
         runner'[i].at \in {"up", "failing"}
  PROVE  /\ BookStep /\ known' \in [Profile -> Launched]
         /\ \A q \in Profile : known[q] = NoLaunch => known'[q] = NoLaunch
<1>1. known \in [Profile -> Launched]
  BY DEF OpeningsInv, OpeningsTypeOK
<1>2. known' \in [Profile -> Launched] /\ known'[p] = l /\ \A q \in Profile : q # p => known'[q] = known[q]
  BY <1>1
<1>3. i # 0 /\ known[p] # NoLaunch
  BY IdsApart, NoLaunchFields
<1>4. PastStart(known[p].id)'
  BY <1>2 DEF PastStart, Starting
<1>5. Noted(p)
  BY <1>1, <1>2, <1>3, <1>4 DEF Noted
<1> QED BY <1>2, <1>3, <1>5 DEF BookStep

LEMMA IsReadyIsSound ==
  ASSUME OpeningsInv, NEW i \in Start, IsReady(i)
  PROVE  OpeningsInv'
<1>1. /\ known \in [Profile -> Launched] /\ ask \in [Asking -> Question] /\ entered \subseteq Asking
      /\ i \in Asking
  BY DEF OpeningsInv, OpeningsTypeOK, Asking
<1>2. Live(i) /\ runner[i].at = "listening" /\ runner[i].of \in Profile
  BY DEF IsReady, Live, Alive, Holding, OpeningsInv, LiveAreKnown
<1> PICK p \in Profile : p = runner[i].of
  BY <1>2
<1>3. RunnerStep /\ runner' \in [Start -> Runner] /\ runner'[i].at = "up"
  <2>1. Set(i, "up") /\ "up" \in Alive /\ "up" \notin Starting
    BY DEF IsReady, Alive, Holding, Starting
  <2> QED BY <1>2, <2>1, SetIsARunnerStep
<1>4. /\ BookStep /\ known' \in [Profile -> Launched]
      /\ \A q \in Profile : known[q] = NoLaunch => known'[q] = NoLaunch
  <2>1. CASE UNCHANGED known
    BY <1>1, <2>1, Still
  <2>2. CASE known' = [known EXCEPT ![p].ready = TRUE] /\ IsKnown(i)
    <3> PICK l \in Launched : l = [known[p] EXCEPT !.ready = TRUE]
      BY <1>1 DEF Launched
    <3>1. l.id = i /\ l.adopted = known[p].adopted /\ l.error = known[p].error /\ known[p].id = i
      BY <1>1, <2>2 DEF Launched, IsKnown
    <3>2. known' = [known EXCEPT ![p] = l]
      BY <1>1, <2>2
    <3> QED BY <1>3, <3>1, <3>2, HeardIsNoted
  <2> QED BY <2>1, <2>2 DEF IsReady
<1>5. \/ UNCHANGED <<ask, entered>>
      \/ /\ quit.at = "no" /\ entered' = entered \cup {i}
         /\ ask' = [ask EXCEPT ![i] = [@ EXCEPT !.at = "open", !.of = p]]
  BY DEF IsReady, Registered
<1>6. /\ AsksAreSound' /\ ask' \in [Asking -> Question] /\ entered' \subseteq Asking
      /\ quit.at = "no" \/ entered' \subseteq entered
  <2>1. CASE UNCHANGED <<ask, entered>>
    BY <1>3, <2>1, AsksStayStill
  <2>2. CASE /\ quit.at = "no" /\ entered' = entered \cup {i}
             /\ ask' = [ask EXCEPT ![i] = [@ EXCEPT !.at = "open", !.of = p]]
    <3> PICK q \in Question : q = [ask[i] EXCEPT !.at = "open", !.of = p]
      BY <1>1 DEF Question, Busy
    <3>1. q.at = "open" /\ q.of = p /\ ask' = [ask EXCEPT ![i] = q]
      BY <1>1, <2>2 DEF Question
    <3>2. entered' \subseteq Asking /\ i \in entered' /\ \A b \in entered : b = i \/ b \in entered'
      BY <1>1, <2>2
    <3>3. AsksAreSound' /\ ask' \in [Asking -> Question]
      BY <1>1, <1>3, <3>1, <3>2, AskIsAnswered
    <3> QED BY <2>2, <3>2, <3>3
  <2> QED BY <1>5, <2>1, <2>2
<1>7. /\ UNCHANGED <<quit.at, quit.idle, quit.aim, seen>>
      /\ quit' \in [at : {"no", "asked", "closing", "draining", "gone"}, idle : {"no", "seen", "quits"},
                    hadReady : BOOLEAN, aim : [Profile -> Aims]]
  <2> DEFINE heard == Running /\ IsKnown(i) /\ ~known[p].error
  <2> DEFINE had == quit.hadReady \/ (heard /\ ~known[p].ready)
  <2>1. had \in BOOLEAN
    OBVIOUS
  <2>2. UNCHANGED seen /\ quit' = [quit EXCEPT !.hadReady = had]
    BY DEF IsReady
  <2> HIDE DEF had
  <2> QED BY <2>1, <2>2 DEF OpeningsInv, OpeningsTypeOK
<1>8. OpeningsTypeOK'
  BY <1>3, <1>4, <1>6, <1>7 DEF OpeningsInv, OpeningsTypeOK
<1>9. QuitIsSound'
  BY <1>4, <1>6, <1>7, <1>8, QuitStaysSound
<1>10. SeenAreOver'
  BY <1>3, <1>7, SeenStaysSound
<1> QED BY <1>3, <1>4, <1>6, <1>8, <1>9, <1>10, StepIsSound

LEMMA FailsStartupIsSound ==
  ASSUME OpeningsInv, NEW i \in Start, FailsStartup(i)
  PROVE  OpeningsInv'
<1>1. known \in [Profile -> Launched]
  BY DEF OpeningsInv, OpeningsTypeOK
<1>2. Live(i) /\ runner[i].at = "listening" /\ runner[i].of \in Profile
  BY DEF FailsStartup, Live, Alive, Holding, OpeningsInv, LiveAreKnown
<1> PICK p \in Profile : p = runner[i].of
  BY <1>2
<1>3. RunnerStep /\ runner' \in [Start -> Runner] /\ runner'[i].at = "failing"
  <2>1. Set(i, "failing") /\ "failing" \in Alive /\ "failing" \notin Starting
    BY DEF FailsStartup, Alive, Holding, Starting
  <2> QED BY <1>2, <2>1, SetIsARunnerStep
<1>4. /\ BookStep /\ known' \in [Profile -> Launched]
      /\ \A q \in Profile : known[q] = NoLaunch => known'[q] = NoLaunch
  <2>1. CASE UNCHANGED known
    BY <1>1, <2>1, Still
  <2>2. CASE known' = [known EXCEPT ![p].error = TRUE] /\ IsKnown(i)
    <3> PICK l \in Launched : l = [known[p] EXCEPT !.error = TRUE]
      BY <1>1 DEF Launched
    <3>1. l.id = i /\ l.adopted = known[p].adopted /\ l.error /\ known[p].id = i
      BY <1>1, <2>2 DEF Launched, IsKnown
    <3>2. known' = [known EXCEPT ![p] = l]
      BY <1>1, <2>2
    <3> QED BY <1>3, <3>1, <3>2, HeardIsNoted
  <2> QED BY <2>1, <2>2 DEF FailsStartup
<1> QED BY <1>3, <1>4, ProcessStepEnds DEF FailsStartup

-----------------------------------------------------------------------------
(* The monitor, and Quit.                                                    *)
LEMMA FindsFreeIsSound ==
  ASSUME OpeningsInv, NEW p \in Profile, FindsFree(p)
  PROVE  OpeningsInv'
<1>1. UNCHANGED <<known, runner, ask, entered, quit>> /\ RunnerStep /\ BookStep
  BY Still DEF FindsFree
<1>2. known \in [Profile -> Launched]
  BY DEF OpeningsInv, OpeningsTypeOK
<1> PICK id \in LaunchIds : id = known[p].id
  BY <1>2 DEF Launched
<1>3. seen' = seen \cup {<<p, id>>} /\ known[p].adopted /\ LeaseFree(p)
  BY DEF FindsFree, MayPrune
<1>4. PastStart(id)
  BY <1>3 DEF OpeningsInv, BookIsSound
<1>5. IsOver(p, id)
  BY <1>3, <1>4, FreeMeansOver
<1>6. OpeningsTypeOK'
  BY <1>1, <1>3 DEF OpeningsInv, OpeningsTypeOK
<1>7. SeenAreOver'
  <2> SUFFICES ASSUME NEW s \in seen' PROVE PastStart(s[2])' /\ IsOver(s[1], s[2])'
    BY DEF SeenAreOver
  <2>1. PastStart(s[2]) /\ IsOver(s[1], s[2])
    BY <1>3, <1>4, <1>5 DEF OpeningsInv, SeenAreOver
  <2> QED BY <1>1, <2>1 DEF PastStart, IsOver, Live
<1>8. AsksAreSound'
  BY <1>1, AsksStayStill
<1>9. QuitIsSound'
  BY <1>1, <1>6, QuitStaysSound
<1> QED BY <1>1, <1>6, <1>7, <1>8, <1>9, StepIsSound

LEMMA PrunesIsSound ==
  ASSUME OpeningsInv, NEW p \in Profile, NEW id \in Start \cup {Nil}, Prunes(p, id)
  PROVE  OpeningsInv'
<1>1. UNCHANGED <<runner, ask, entered, quit>> /\ RunnerStep /\ seen' \subseteq seen
  BY Still DEF Prunes
<1>2. runner' \in [Start -> Runner]
  BY <1>1 DEF OpeningsInv, OpeningsTypeOK
<1>3. id \in LaunchIds /\ <<p, id>> \in seen /\ known' = Forget(p, id)
  BY DEF Prunes, LaunchIds
<1>4. IsOver(p, id)
  BY <1>3 DEF OpeningsInv, SeenAreOver
<1>5. IsOver(p, id)'
  BY <1>1, <1>4 DEF IsOver, Live
<1>6. /\ known' \in [Profile -> Launched] /\ BookStep
      /\ \A q \in Profile : known[q] = NoLaunch => known'[q] = NoLaunch
  BY <1>1, <1>3, <1>5, ForgetIsABookStep DEF Live
<1> QED BY <1>1, <1>2, <1>6, AsksStayStill, StepEnds

QuitType ==
  [at : {"no", "asked", "closing", "draining", "gone"}, idle : {"no", "seen", "quits"},
   hadReady : BOOLEAN, aim : [Profile -> Aims]]

(* Only the thread that quits, or the monitor, goes on.                      *)
LEMMA QuitStepEnds ==
  ASSUME OpeningsInv, UNCHANGED <<known, runner, ask, entered, seen>>, quit' \in QuitType, QuitIsSound'
  PROVE  OpeningsInv'
<1>1. RunnerStep /\ BookStep
  BY Still
<1>2. OpeningsTypeOK'
  BY DEF OpeningsInv, OpeningsTypeOK, QuitType
<1> QED BY <1>1, <1>2, AsksStayStill, SeenStaysSound, StepIsSound

LEMMA ClosesIsSound ==
  ASSUME OpeningsInv, NEW p \in Profile, Closes(p)
  PROVE  OpeningsInv'
<1>1. /\ known \in [Profile -> Launched] /\ runner \in [Start -> Runner] /\ quit \in QuitType
      /\ UNCHANGED <<ask, entered, seen>>
  BY DEF OpeningsInv, OpeningsTypeOK, QuitType, Closes
<1> PICK id \in LaunchIds : id = quit.aim[p].id
  BY <1>1 DEF QuitType, Aims
<1>2. id # 0 /\ quit.at = "closing"
  BY DEF Closes, OpeningsInv, QuitIsSound
<1>3. PICK place \in {"closed", "failed", "sent"} : Aim(p, place)
  BY DEF Closes
<1>4. /\ quit' \in QuitType /\ quit'.at = quit.at /\ quit'.idle = quit.idle
      /\ \A q \in Profile : quit'.aim[q].id = quit.aim[q].id /\ (q # p => quit'.aim[q] = quit.aim[q])
  <2> DEFINE aim == [quit.aim EXCEPT ![p] = [quit.aim[p] EXCEPT !.at = place]]
  <2>1. quit.aim \in [Profile -> Aims]
    BY <1>1 DEF QuitType
  <2>2. [quit.aim[p] EXCEPT !.at = place] \in Aims /\ [quit.aim[p] EXCEPT !.at = place].id = id
    BY <2>1 DEF Aims
  <2>3. aim \in [Profile -> Aims] /\ \A q \in Profile : aim[q].id = quit.aim[q].id /\ (q # p => aim[q] = quit.aim[q])
    BY <2>1, <2>2
  <2>4. quit' = [quit EXCEPT !.aim = aim]
    BY <1>1, <1>3 DEF Aim, QuitType
  <2> HIDE DEF aim
  <2> QED BY <1>1, <2>3, <2>4 DEF QuitType
<1>5. /\ RunnerStep /\ BookStep /\ known' \in [Profile -> Launched] /\ runner' \in [Start -> Runner]
      /\ \A q \in Profile : known[q] = NoLaunch => known'[q] = NoLaunch
  <2>1. CASE OwnerOf(p, id) = "released" /\ known' = Forget(p, id) /\ UNCHANGED runner
    <3>1. CASE known[p].id = id
      <4>1. known[p].adopted /\ LeaseFree(p)
        <5> SUFFICES ASSUME ~(known[p].adopted /\ LeaseFree(p)) PROVE OwnerOf(p, id) = "present"
          BY <2>1
        <5>1. ~((known[p].id = 0 \/ (known[p].id = id /\ known[p].adopted)) /\ LeaseFree(p))
          BY <1>2, <3>1
        <5> QED BY <3>1, <5>1 DEF OwnerOf
      <4>2. PastStart(id)
        BY <3>1, <4>1 DEF OpeningsInv, BookIsSound
      <4>3. IsOver(p, id)
        BY <4>1, <4>2, FreeMeansOver
      <4>4. IsOver(p, id)'
        BY <2>1, <4>3 DEF IsOver, Live
      <4> QED BY <1>1, <2>1, <4>4, ForgetIsABookStep, Still DEF Live
    <3>2. CASE known[p].id # id
      BY <1>1, <2>1, <3>2, Still DEF Forget
    <3> QED BY <3>1, <3>2
  <2>2. CASE /\ OwnerOf(p, id) = "present" /\ known[p].ready /\ ~known[p].error
             /\ runner[id].at = "up" /\ Set(id, "closing") /\ UNCHANGED known
    <3>1. known[p].id = id
      BY <2>2 DEF OwnerOf
    <3>2. id # Nil
      BY <2>2, <3>1 DEF OpeningsInv, BookIsSound
    <3>3. id \in Start /\ Live(id) /\ "closing" \in Alive /\ "closing" \notin Starting
      BY <1>2, <2>2, <3>2 DEF LaunchIds, Live, Alive, Holding, Starting
    <3> QED BY <1>1, <2>2, <3>3, SetIsARunnerStep, Still
  <2>3. CASE UNCHANGED <<known, runner>>
    BY <1>1, <2>3, Still
  <2> QED BY <2>1, <2>2, <2>3 DEF Closes
<1>6. OpeningsTypeOK'
  BY <1>1, <1>4, <1>5 DEF OpeningsInv, OpeningsTypeOK, QuitType
<1>7. QuitIsSound'
  <2>1. \A q \in Profile : quit'.aim[q].at \in {"waits", "sent"} => quit'.aim[q].id # 0
    BY <1>2, <1>4 DEF OpeningsInv, QuitIsSound
  <2> QED BY <1>1, <1>2, <1>4, <1>5, <2>1 DEF OpeningsInv, QuitIsSound, Opens
<1> QED BY <1>1, <1>5, <1>6, <1>7, AsksStayStill, SeenStaysSound, StepIsSound

LEMMA QuitStepsAreSound ==
  ASSUME OpeningsInv,
         SeesIdle \/ IdleExit \/ AskQuit \/ QuitBegins \/ StopsJobs \/ ExitsApp \/ QuitFails
  PROVE  OpeningsInv'
<1>1. /\ UNCHANGED <<known, runner, ask, entered, seen>> /\ quit \in QuitType /\ QuitIsSound
      /\ known \in [Profile -> Launched] /\ BookIsSound
  BY DEF SeesIdle, IdleExit, AskQuit, QuitBegins, StopsJobs, ExitsApp, QuitFails,
         OpeningsInv, OpeningsTypeOK, QuitType
<1>2. ASSUME SeesIdle PROVE quit' \in QuitType /\ QuitIsSound'
  BY <1>1, <1>2 DEF SeesIdle, QuitType, QuitIsSound, Opens
<1>3. ASSUME IdleExit PROVE quit' \in QuitType /\ QuitIsSound'
  BY <1>1, <1>3 DEF IdleExit, QuitType, QuitIsSound, Opens, StillNothingOpen, NothingOpen
<1>4. ASSUME AskQuit PROVE quit' \in QuitType /\ QuitIsSound'
  BY <1>1, <1>4 DEF AskQuit, QuitType, QuitIsSound, Opens
<1>5. ASSUME QuitBegins PROVE quit' \in QuitType /\ QuitIsSound'
  <2>1. /\ Aimed \in [Profile -> Aims]
        /\ \A p \in Profile : Aimed[p].at \in {"waits", "sent"} => Aimed[p].id # 0
    BY <1>1 DEF Aimed, Aims, NoAim, BookIsSound, Launched, LaunchIds
  <2> QED BY <1>1, <1>5, <2>1 DEF QuitBegins, QuitType, QuitIsSound, Opens
<1>6. ASSUME StopsJobs PROVE quit' \in QuitType /\ QuitIsSound'
  BY <1>1, <1>6 DEF StopsJobs, QuitType, QuitIsSound, Opens
<1>7. ASSUME ExitsApp PROVE quit' \in QuitType /\ QuitIsSound'
  BY <1>1, <1>7 DEF ExitsApp, Drained, QuitType, QuitIsSound, Opens
<1>8. ASSUME QuitFails PROVE quit' \in QuitType /\ QuitIsSound'
  <2>1. NoAim \in Aims /\ NoAim.at = "none"
    BY DEF NoAim, Aims, LaunchIds
  <2>2. [p \in Profile |-> NoAim] \in [Profile -> Aims]
    BY <2>1
  <2> QED BY <1>1, <1>8, <2>1, <2>2 DEF QuitFails, QuitOver, QuitType, QuitIsSound, Opens
<1> QED BY <1>1, <1>2, <1>3, <1>4, <1>5, <1>6, <1>7, <1>8, QuitStepEnds

-----------------------------------------------------------------------------
LEMMA FoundAsIsALaunch ==
  ASSUME NEW p \in Profile, NEW state \in {"vacant", "unknown", "listening", "up"}
  PROVE  /\ FoundAs(p, state) \in Launched
         /\ FoundAs(p, state).id = IF state = "vacant" THEN 0 ELSE IF state = "unknown" THEN Nil ELSE p
         /\ state = "vacant" => FoundAs(p, state) = NoLaunch
         /\ state = "unknown" => FoundAs(p, state).error
         /\ FoundAs(p, state).ready \/ FoundAs(p, state).error \/ FoundAs(p, state).adopted => state # "vacant"
BY IdsApart DEF FoundAs, NoLaunch, Launched, LaunchIds

LEMMA OpeningsStart == OpeningsInit => OpeningsInv
<1> SUFFICES ASSUME OpeningsInit PROVE OpeningsInv
  OBVIOUS
<1> PICK state \in [Profile -> {"vacant", "unknown", "listening", "up"}] :
      /\ known = [p \in Profile |-> FoundAs(p, state[p])]
      /\ runner = [i \in Start |->
           IF i \notin Profile THEN [of |-> 0, at |-> "none"]
           ELSE [of |-> i, at |-> CASE state[i] = "vacant" -> "none"
                                    [] state[i] = "unknown" -> "up"
                                    [] OTHER -> state[i]]]
  BY DEF OpeningsInit
<1>1. \A p \in Profile :
        /\ known[p] \in Launched
        /\ known[p].id = IF state[p] = "vacant" THEN 0 ELSE IF state[p] = "unknown" THEN Nil ELSE p
        /\ state[p] = "vacant" => known[p] = NoLaunch
        /\ state[p] = "unknown" => known[p].error
        /\ known[p].ready \/ known[p].error \/ known[p].adopted => state[p] # "vacant"
  <2> SUFFICES ASSUME NEW p \in Profile
               PROVE  /\ known[p] \in Launched
                      /\ known[p].id = IF state[p] = "vacant" THEN 0 ELSE IF state[p] = "unknown" THEN Nil ELSE p
                      /\ state[p] = "vacant" => known[p] = NoLaunch
                      /\ state[p] = "unknown" => known[p].error
                      /\ known[p].ready \/ known[p].error \/ known[p].adopted => state[p] # "vacant"
    OBVIOUS
  <2> PICK found \in {"vacant", "unknown", "listening", "up"} : found = state[p]
    OBVIOUS
  <2>1. known[p] = FoundAs(p, found)
    OBVIOUS
  <2> QED BY <2>1, FoundAsIsALaunch
<1>2. \A i \in Start :
        /\ runner[i] \in Runner
        /\ i \in Child => runner[i].of = 0 /\ runner[i].at = "none"
        /\ i \in Profile => /\ runner[i].of = i /\ runner[i].at \in {"none", "up", "listening"}
                            /\ runner[i].at = "none" <=> state[i] = "vacant"
  BY DEF Runner, Alive, Holding, Child
<1>3. OpeningsTypeOK
  <2>1. known \in [Profile -> Launched]
    BY <1>1
  <2>2. runner \in [Start -> Runner]
    BY <1>2
  <2>3. ask \in [Asking -> Question] /\ entered \subseteq Asking /\ seen \subseteq Profile \X LaunchIds
    BY DEF OpeningsInit, NoQuestion, Question, LaunchIds
  <2>4. NoAim \in Aims
    BY DEF NoAim, Aims, LaunchIds
  <2>5. quit \in QuitType
    BY <2>4 DEF OpeningsInit, QuitType
  <2> QED BY <2>1, <2>2, <2>3, <2>5 DEF OpeningsTypeOK, QuitType
<1>4. LiveAreKnown
  BY <1>1, <1>2, IdsApart DEF LiveAreKnown, Live, Alive, Holding
<1>5. FoundAreFound
  BY <1>2, IdsApart DEF FoundAreFound, Starting
<1>6. BookIsSound
  <2> SUFFICES ASSUME NEW p \in Profile
               PROVE  /\ known[p].id = 0 => known[p] = NoLaunch
                      /\ known[p].id = Nil => known[p].error
                      /\ known[p].adopted => known[p].id \in {p, Nil}
                      /\ known[p].ready \/ known[p].error \/ known[p].adopted => PastStart(known[p].id)
    BY DEF BookIsSound
  <2>1. p \in Start /\ p # 0 /\ p # Nil /\ Nil # 0 /\ Nil \notin Start /\ 0 \notin Start
    BY IdsApart
  <2>2. CASE state[p] = "vacant"
    BY <1>1, <2>1, <2>2
  <2>3. CASE state[p] = "unknown"
    BY <1>1, <2>1, <2>3 DEF PastStart
  <2>4. CASE state[p] \notin {"vacant", "unknown"}
    <3>1. known[p].id = p
      BY <1>1, <2>4
    <3>2. runner[p].at \in {"up", "listening"}
      BY <1>2, <2>1, <2>4
    <3> QED BY <2>1, <3>1, <3>2 DEF PastStart, Starting
  <2> QED BY <2>2, <2>3, <2>4
<1>7. AsksAreSound /\ SeenAreOver
  BY DEF OpeningsInit, AsksAreSound, SeenAreOver, NoQuestion, Busy
<1>8. QuitIsSound
  BY DEF OpeningsInit, QuitIsSound, NoAim
<1> QED BY <1>3, <1>4, <1>5, <1>6, <1>7, <1>8 DEF OpeningsInv

LEMMA OpeningsKeep == OpeningsInv /\ [OpeningsNext]_openingVars => OpeningsInv'
<1> SUFFICES ASSUME OpeningsInv, [OpeningsNext]_openingVars PROVE OpeningsInv'
  OBVIOUS
<1>1. CASE UNCHANGED openingVars
  <2>1. UNCHANGED <<known, runner, ask, entered, seen, quit>>
    BY <1>1 DEF openingVars
  <2>2. quit' \in QuitType /\ QuitIsSound'
    BY <2>1 DEF OpeningsInv, OpeningsTypeOK, QuitType, QuitIsSound, Opens
  <2> QED BY <2>1, <2>2, QuitStepEnds
<1>2. ASSUME NEW a \in Asking,
             \/ AskOpen(a) \/ OpenFails(a) \/ Reserved(a) \/ FindsLaunch(a) \/ Reconciles(a)
             \/ OpensAgain(a) \/ WaitsReady(a) \/ Activates(a)
      PROVE  OpeningsInv'
  BY <1>2, AskOpenIsSound, OpenFailsIsSound, ReservedIsSound, FindsLaunchIsSound, ReconcilesIsSound,
     OpensAgainIsSound, WaitsReadyIsSound, ActivatesIsSound
<1>3. ASSUME NEW i \in Start,
             \/ Spawns(i) \/ ComesUp(i) \/ IsReady(i) \/ FailsStartup(i) \/ RefusesClose(i)
             \/ ProcessEnds(i) \/ ChildReaped(i)
      PROVE  OpeningsInv'
  BY <1>3, SpawnsIsSound, ComesUpIsSound, IsReadyIsSound, FailsStartupIsSound, RefusesCloseIsSound,
     ProcessEndsIsSound, ChildReapedIsSound
<1>4. ASSUME NEW p \in Profile, FindsFree(p) \/ Closes(p) \/ \E id \in Start \cup {Nil} : Prunes(p, id)
      PROVE  OpeningsInv'
  BY <1>4, FindsFreeIsSound, ClosesIsSound, PrunesIsSound
<1>5. CASE SeesIdle \/ IdleExit \/ AskQuit \/ QuitBegins \/ StopsJobs \/ ExitsApp \/ QuitFails
  BY <1>5, QuitStepsAreSound
<1> QED BY <1>1, <1>2, <1>3, <1>4, <1>5 DEF OpeningsNext

(* A process that holds a vault is in the coordinator's book under its own   *)
(* launch id, or its vault is one whose owner could not be identified; an    *)
(* app that is gone or ends itself has left no request it accepted: for any  *)
(* vaults, requests and number of launches (remove_launch, handle_host,      *)
(* reconcile_adopted, idle_exit_candidate, finish_quit).                     *)
THEOREM OpeningsAbandonNobody == OpeningsSpec => []NobodyIsAbandoned
<1>1. OpeningsInv => NobodyIsAbandoned
  <2> SUFFICES ASSUME OpeningsInv PROVE NobodyIsAbandoned
    OBVIOUS
  <2>1. ASSUME NEW i \in Start, runner[i].at \in Holding PROVE known[runner[i].of].id \in {i, Nil}
    BY <2>1 DEF OpeningsInv, LiveAreKnown, FoundAreFound, Live, Alive
  <2>2. entered = {} => \A a \in Asking : ask[a].at \notin Busy
    BY DEF OpeningsInv, AsksAreSound
  <2> QED BY <2>1, <2>2 DEF NobodyIsAbandoned, OpeningsInv, QuitIsSound
<1> QED BY <1>1, OpeningsStart, OpeningsKeep, PTL DEF OpeningsSpec
-----------------------------------------------------------------------------
(***************************************************************************)
(* NothingUnsavedCloses and CancelledHolds, for any number of windows,     *)
(* requests and closes.                                                    *)
(*                                                                         *)
(* What a window saved stays saved because the window stays frozen, and it *)
(* stays frozen although notices of other closes are on their way to it:   *)
(* none of them can thaw it (Harmless).  It is not behind either, because  *)
(* it was told to save after the services had stopped, and they are let in *)
(* again only when the close is over.                                      *)
(***************************************************************************)
Ids == 1 .. MaxCloses
Notice == [id : Ids, phase : {"waiting", "prepare", "cancel"}]
Page == [on : CloseId, step : {"idle", "flush", "done"}, over : SUBSET CloseId,
         dirty : BOOLEAN, behind : BOOLEAN, since : CloseId]
Ask == [batch : CloseId, cancelled : BOOLEAN,
        progress : {"none", "queued", "pending", "committing", "failed"}]
Batch == [id : CloseId, windows : SUBSET Window, waiting : SUBSET Window, failed : BOOLEAN]
Book == [ready : SUBSET Window, pending : Batch, committed : BOOLEAN,
         notes : [Popout -> [id : CloseId, saved : {"unknown", "yes", "no"}]],
         asks : [Asker -> Ask], callbacks : SUBSET Asker]
Steps == {"none", "start", "drain", "saving", "flushing", "decide", "gone"}

CloseTypeOK ==
  /\ shown \subseteq Window
  /\ closes \in Book
  /\ pages \in [Window -> Page]
  /\ notices \in [Window -> Seq(Notice)]
  /\ gates \in [{"jobs", "saves"} -> [busy : BOOLEAN, by : CloseId]]
  /\ closers \in [Ids -> [step : Steps, windows : SUBSET Window]]
  /\ leavers \subseteq [window : Popout, id : Ids]
  /\ main \in {"free"} \cup Asker
  /\ counts \in [ids : CloseId, moves : Nat]

IsVault(i) == i \in Ids /\ closers[i].step # "none"

(* An id is issued once, to a close of the vault or of a note window, and    *)
(* the two do not run at the same time.                                      *)
IdsAreIssued ==
  /\ \A i \in Ids : IsVault(i) => i <= counts.ids
  /\ \A l \in leavers : l.id <= counts.ids /\ ~IsVault(l.id)
  /\ \A w \in Popout : closes.notes[w].id # 0 =>
       closes.notes[w].id <= counts.ids /\ ~IsVault(closes.notes[w].id) /\ w \in shown
  /\ closes.pending.id # 0 =>
       /\ IsVault(closes.pending.id)
       /\ ~closes.committed => closers[closes.pending.id].step # "gone"
       /\ \A w \in Popout : closes.notes[w].id = 0
       /\ ~closes.pending.failed => closes.pending.windows \subseteq shown
  /\ \A w \in Window :
       /\ pages[w].on <= counts.ids
       /\ \A n \in DOMAIN notices[w] : notices[w][n].id <= counts.ids

(* A request that was given a close is that of the close that runs, or is    *)
(* cancelled.                                                                *)
AsksAreKept ==
  \A r \in Asker :
    /\ closes.asks[r].cancelled => closes.asks[r].progress \notin {"none", "queued"}
    /\ closes.asks[r].batch <= counts.ids
    /\ closes.asks[r].batch \notin {0, closes.pending.id} => closes.asks[r].cancelled

(* Window w takes part in close j, or said that it saved for it.             *)
TakesPart(w, j) ==
  \/ w \in Popout /\ closes.notes[w].id = j
  \/ closes.pending.id = j /\ ~closes.pending.failed /\ w \in closes.pending.windows
SaidYes(w, j) ==
  \/ w \in Popout /\ closes.notes[w].id = j /\ closes.notes[w].saved = "yes"
  \/ /\ closes.pending.id = j /\ ~closes.pending.failed
     /\ w \in closes.pending.windows \ closes.pending.waiting

(* A notice that leaves a window frozen that is frozen for close j.          *)
Harmless(j, n) ==
  /\ n.phase = "cancel" => n.id # j /\ ~IsVault(n.id)
  /\ n.phase # "cancel" => n.id = j \/ IsVault(n.id)

(* What heard of its close stays frozen, and what saved stays saved.         *)
FrozenStay ==
  \A w \in Window, j \in Ids : TakesPart(w, j) =>
    /\ \A m, n \in DOMAIN notices[w] : m < n /\ notices[w][m].id = j => Harmless(j, notices[w][n])
    /\ pages[w].on = j \/ SaidYes(w, j) =>
         /\ pages[w].on = j \/ IsVault(pages[w].on)
         /\ \A n \in DOMAIN notices[w] : Harmless(j, notices[w][n])
    /\ SaidYes(w, j) => ~pages[w].dirty

(* The windows save after the services were stopped, and none runs again     *)
(* before the close is over.                                                 *)
StoppedHere == {"saving", "flushing", "decide"}
SavedIsNotBehind ==
  /\ \A i \in Ids : closers[i].step \in StoppedHere => gates["jobs"].by = i /\ ~gates["jobs"].busy
  /\ \A i \in Ids : closers[i].step = "drain" => gates["jobs"].by = i
  /\ \A w \in Window :
       /\ \A n \in DOMAIN notices[w] :
            notices[w][n].phase = "prepare" /\ IsVault(notices[w][n].id)
              => closers[notices[w][n].id].step \in StoppedHere \cup {"gone"}
       /\ pages[w].step # "idle" /\ IsVault(pages[w].on) => closers[pages[w].on].step \in StoppedHere \cup {"gone"}
       /\ closes.pending.id # 0 /\ SaidYes(w, closes.pending.id) =>
            closers[closes.pending.id].step \in StoppedHere \cup {"gone"} /\ ~pages[w].behind

CloseInv ==
  CloseTypeOK /\ IdsAreIssued /\ AsksAreKept /\ FrozenStay /\ SavedIsNotBehind
-----------------------------------------------------------------------------
(* What the operations on the book leave of it.                              *)
LEMMA EmptyBatch ==
  /\ NoBatch \in Batch /\ NoBatch.id = 0 /\ NoBatch.windows = {} /\ NoBatch.waiting = {} /\ ~NoBatch.failed
  /\ 0 \in CloseId /\ \A i \in Ids : i \in CloseId /\ i # 0 /\ i \in Nat
  /\ \A i \in CloseId : i \in Nat /\ (i # 0 => i \in Ids)
BY VaultCloseAssumption DEF NoBatch, Batch, CloseId, Ids

LEMMA CancelledBook ==
  ASSUME NEW b \in Book, NEW id \in CloseId
  PROVE  /\ Cancelled(b, id) \in Book
         /\ Cancelled(b, id).ready = b.ready /\ Cancelled(b, id).committed = b.committed
         /\ Cancelled(b, id).notes = b.notes /\ Cancelled(b, id).callbacks = b.callbacks
         /\ \/ Cancelled(b, id) = b /\ (b.committed \/ id = 0 \/ b.pending.id # id)
            \/ /\ ~b.committed /\ b.pending.id = id /\ id # 0 /\ Cancelled(b, id).pending = NoBatch
               /\ \A r \in Asker :
                    \/ b.asks[r].batch = id /\ Cancelled(b, id).asks[r].batch = id
                       /\ Cancelled(b, id).asks[r].cancelled /\ Cancelled(b, id).asks[r].progress = "failed"
                    \/ b.asks[r].batch # id /\ Cancelled(b, id).asks[r] = b.asks[r]
<1>1. CASE b.committed \/ b.pending.id # id \/ id = 0
  BY <1>1 DEF Cancelled
<1>2. CASE ~(b.committed \/ b.pending.id # id \/ id = 0)
  <2> DEFINE asks == [r \in Asker |-> IF b.asks[r].batch = id
                                      THEN [batch |-> id, progress |-> "failed", cancelled |-> TRUE]
                                      ELSE b.asks[r]]
  <2>1. Cancelled(b, id) = [b EXCEPT !.pending = NoBatch, !.asks = asks]
    BY <1>2 DEF Cancelled
  <2>2. asks \in [Asker -> Ask]
    BY DEF Ask, Book
  <2>3. \A r \in Asker :
          \/ b.asks[r].batch = id /\ asks[r].batch = id /\ asks[r].cancelled /\ asks[r].progress = "failed"
          \/ b.asks[r].batch # id /\ asks[r] = b.asks[r]
    OBVIOUS
  <2> HIDE DEF asks
  <2> QED BY <1>2, <2>1, <2>2, <2>3, EmptyBatch DEF Book
<1> QED BY <1>1, <1>2

LEMMA AttachedBook ==
  ASSUME NEW b \in Book, NEW r \in Asker
  PROVE  /\ Attached(b, r) \in Book
         /\ Attached(b, r).ready = b.ready /\ Attached(b, r).committed = b.committed
         /\ Attached(b, r).notes = b.notes /\ Attached(b, r).callbacks = b.callbacks
         /\ Attached(b, r).pending = b.pending
         /\ Attached(b, r).asks[r].batch = b.pending.id
         /\ Attached(b, r).asks[r].cancelled = b.asks[r].cancelled
         /\ Attached(b, r).asks[r].progress \in {"committing", "pending"}
         /\ \A s \in Asker : s # r => Attached(b, r).asks[s] = b.asks[s]
<1> DEFINE progress == IF b.committed THEN "committing" ELSE "pending"
           wish == [b.asks[r] EXCEPT !.batch = b.pending.id, !.progress = progress]
           asks == [b.asks EXCEPT ![r] = wish]
<1>1. progress \in {"committing", "pending"} /\ b.asks \in [Asker -> Ask] /\ b.pending.id \in CloseId
  BY DEF Book, Batch
<1> HIDE DEF progress
<1>2. wish \in Ask /\ wish.batch = b.pending.id /\ wish.progress = progress /\ wish.cancelled = b.asks[r].cancelled
  BY <1>1 DEF Ask
<1>3. Attached(b, r) = [b EXCEPT !.asks = asks]
  BY <1>1 DEF Attached, progress, Book, Ask
<1> HIDE DEF wish
<1>4. asks \in [Asker -> Ask] /\ asks[r] = wish /\ \A s \in Asker : s # r => asks[s] = b.asks[s]
  BY <1>1, <1>2
<1> HIDE DEF asks
<1> QED BY <1>1, <1>2, <1>3, <1>4 DEF Book
LEMMA EnqueuedBook ==
  ASSUME NEW b \in Book, NEW r \in Asker
  PROVE  /\ Enqueued(b, r) \in Book
         /\ Enqueued(b, r).ready = b.ready /\ Enqueued(b, r).committed = b.committed
         /\ Enqueued(b, r).notes = b.notes /\ Enqueued(b, r).pending = b.pending
         /\ \A s \in Asker : s # r => Enqueued(b, r).asks[s] = b.asks[s]
         /\ \/ Enqueued(b, r).asks[r] = b.asks[r]
            \/ /\ b.asks[r].progress = "none" /\ ~Enqueued(b, r).asks[r].cancelled
               /\ Enqueued(b, r).asks[r].batch \in {0, b.pending.id}
<1> DEFINE queued == [b EXCEPT !.asks[r] = [batch |-> 0, progress |-> "queued", cancelled |-> FALSE]]
<1>1. /\ queued \in Book /\ queued.ready = b.ready /\ queued.committed = b.committed
      /\ queued.notes = b.notes /\ queued.pending = b.pending /\ queued.callbacks = b.callbacks
      /\ \A s \in Asker : s # r => queued.asks[s] = b.asks[s]
      /\ ~queued.asks[r].cancelled /\ queued.asks[r].batch = 0
  <2> DEFINE asks == [b.asks EXCEPT ![r] = [batch |-> 0, progress |-> "queued", cancelled |-> FALSE]]
  <2>1. asks \in [Asker -> Ask] /\ asks[r] = [batch |-> 0, progress |-> "queued", cancelled |-> FALSE]
        /\ \A s \in Asker : s # r => asks[s] = b.asks[s]
    BY EmptyBatch DEF Book, Ask
  <2>2. queued = [b EXCEPT !.asks = asks]
    BY DEF Book
  <2> HIDE DEF asks, queued
  <2> QED BY <2>1, <2>2 DEF Book
<1>2. CASE b.asks[r].progress # "none"
  BY <1>2 DEF Enqueued
<1>3. CASE b.asks[r].progress = "none" /\ b.pending.id # 0
  <2>1. Enqueued(b, r) = Attached(queued, r)
    BY <1>3 DEF Enqueued
  <2> HIDE DEF queued
  <2> QED BY <1>1, <1>3, <2>1, AttachedBook
<1>4. CASE b.asks[r].progress = "none" /\ b.pending.id = 0
  <2>1. Enqueued(b, r) = [queued EXCEPT !.callbacks = @ \cup {r}]
    BY <1>4 DEF Enqueued
  <2> HIDE DEF queued
  <2> QED BY <1>1, <1>4, <2>1 DEF Book
<1> QED BY <1>2, <1>3, <1>4

LEMMA BegunBook ==
  ASSUME NEW b \in Book, NEW id \in Ids, shown \subseteq Window
  PROVE  /\ BatchBegun(b, id) \in Book
         /\ BatchBegun(b, id).ready = b.ready /\ BatchBegun(b, id).committed = b.committed
         /\ BatchBegun(b, id).notes = b.notes /\ BatchBegun(b, id).callbacks = b.callbacks
         /\ BatchBegun(b, id).pending.id = id /\ ~BatchBegun(b, id).pending.failed
         /\ BatchBegun(b, id).pending.windows = shown /\ BatchBegun(b, id).pending.waiting = shown
         /\ \A r \in Asker :
              /\ BatchBegun(b, id).asks[r].cancelled = b.asks[r].cancelled
              /\ \/ BatchBegun(b, id).asks[r] = b.asks[r]
                 \/ /\ b.asks[r].progress = "queued" /\ BatchBegun(b, id).asks[r].batch = id
                    /\ BatchBegun(b, id).asks[r].progress = "pending"
<1> DEFINE asks == [r \in Asker |-> IF b.asks[r].progress = "queued"
                                    THEN [b.asks[r] EXCEPT !.batch = id, !.progress = "pending"]
                                    ELSE b.asks[r]]
           batch == [id |-> id, windows |-> shown, waiting |-> shown, failed |-> FALSE]
<1>1. BatchBegun(b, id) = [b EXCEPT !.pending = batch, !.asks = asks]
  BY DEF BatchBegun
<1>2. \A r \in Asker :
        LET wish == [b.asks[r] EXCEPT !.batch = id, !.progress = "pending"]
        IN  wish \in Ask /\ wish.batch = id /\ wish.progress = "pending" /\ wish.cancelled = b.asks[r].cancelled
  BY EmptyBatch, ZenonT(60) DEF Book, Ask
<1>3. /\ asks \in [Asker -> Ask]
      /\ \A r \in Asker : asks[r].cancelled = b.asks[r].cancelled
                          /\ \/ asks[r] = b.asks[r]
                             \/ b.asks[r].progress = "queued" /\ asks[r].batch = id /\ asks[r].progress = "pending"
  BY <1>2 DEF Book
<1>4. batch \in Batch /\ batch.id = id /\ ~batch.failed /\ batch.windows = shown /\ batch.waiting = shown
  BY EmptyBatch DEF Batch
<1> HIDE DEF asks, batch
<1>5. /\ BatchBegun(b, id) \in Book
      /\ BatchBegun(b, id).ready = b.ready /\ BatchBegun(b, id).committed = b.committed
      /\ BatchBegun(b, id).notes = b.notes /\ BatchBegun(b, id).callbacks = b.callbacks
      /\ BatchBegun(b, id).pending = batch /\ BatchBegun(b, id).asks = asks
  <2>1. batch \in Batch /\ asks \in [Asker -> Ask]
    BY <1>3, <1>4
  <2> QED BY <1>1, <2>1 DEF Book
<1> QED BY <1>3, <1>4, <1>5

LEMMA EndedBook ==
  ASSUME NEW b \in Book
  PROVE  /\ Ended(b) \in Book /\ Ended(b).ready = b.ready /\ Ended(b).committed
         /\ Ended(b).notes = b.notes /\ Ended(b).pending = b.pending
         /\ \A r \in Asker :
              /\ Ended(b).asks[r].cancelled = b.asks[r].cancelled /\ Ended(b).asks[r].batch = b.asks[r].batch
              /\ Ended(b).asks[r].progress \in {b.asks[r].progress, "committing"}
<1> DEFINE asks == [r \in Asker |-> IF b.asks[r].batch = b.pending.id
                                    THEN [b.asks[r] EXCEPT !.progress = "committing"]
                                    ELSE b.asks[r]]
<1>1. Ended(b) = [b EXCEPT !.committed = TRUE, !.asks = asks]
  BY DEF Ended
<1>2. \A r \in Asker :
        LET wish == [b.asks[r] EXCEPT !.progress = "committing"]
        IN  /\ wish \in Ask /\ wish.progress = "committing"
            /\ wish.cancelled = b.asks[r].cancelled /\ wish.batch = b.asks[r].batch
  BY DEF Book, Ask
<1>3. /\ asks \in [Asker -> Ask]
      /\ \A r \in Asker : /\ asks[r].cancelled = b.asks[r].cancelled /\ asks[r].batch = b.asks[r].batch
                          /\ asks[r].progress \in {b.asks[r].progress, "committing"}
  BY <1>2 DEF Book
<1> HIDE DEF asks
<1> QED BY <1>1, <1>3 DEF Book

(* A note window's entry changes, and nothing else.                          *)
Entered(b, w, entry) == [b EXCEPT !.notes[w] = entry]
LEMMA NotesBook ==
  ASSUME NEW b \in Book, NEW w \in Popout, NEW entry \in [id : CloseId, saved : {"unknown", "yes", "no"}]
  PROVE  /\ Entered(b, w, entry) \in Book /\ Entered(b, w, entry).ready = b.ready
         /\ Entered(b, w, entry).committed = b.committed /\ Entered(b, w, entry).pending = b.pending
         /\ Entered(b, w, entry).asks = b.asks /\ Entered(b, w, entry).callbacks = b.callbacks
         /\ Entered(b, w, entry).notes[w] = entry
         /\ \A v \in Popout : v # w => Entered(b, w, entry).notes[v] = b.notes[v]
<1> DEFINE notes == [b.notes EXCEPT ![w] = entry]
<1>1. notes \in [Popout -> [id : CloseId, saved : {"unknown", "yes", "no"}]]
      /\ notes[w] = entry /\ \A v \in Popout : v # w => notes[v] = b.notes[v]
  BY DEF Book
<1>2. Entered(b, w, entry) = [b EXCEPT !.notes = notes]
  BY DEF Book, Entered
<1> HIDE DEF notes
<1> QED BY <1>1, <1>2 DEF Book

LEMMA DestroyedBook ==
  ASSUME NEW b \in Book, NEW w \in Popout
  PROVE  /\ Destroyed(b, w) \in Book /\ Destroyed(b, w).committed = b.committed
         /\ Destroyed(b, w).asks = b.asks /\ Destroyed(b, w).notes[w].id = 0
         /\ \A v \in Popout : v # w => Destroyed(b, w).notes[v] = b.notes[v]
         /\ Destroyed(b, w).pending.id = b.pending.id
         /\ Destroyed(b, w).pending.windows = b.pending.windows
         /\ Destroyed(b, w).pending.waiting = b.pending.waiting
         /\ Destroyed(b, w).pending.failed <=> (b.pending.failed \/ w \in b.pending.windows)
<1> DEFINE entry == [id |-> 0, saved |-> "unknown"]
           notes == [b.notes EXCEPT ![w] = entry]
           failed == b.pending.failed \/ w \in b.pending.windows
           batch == [b.pending EXCEPT !.failed = failed]
<1>1. notes \in [Popout -> [id : CloseId, saved : {"unknown", "yes", "no"}]]
      /\ notes[w].id = 0 /\ \A v \in Popout : v # w => notes[v] = b.notes[v]
  BY EmptyBatch DEF Book
<1>2. failed \in BOOLEAN
  BY DEF Book, Batch
<1>3. Destroyed(b, w) = [b EXCEPT !.ready = @ \ {w}, !.notes = notes, !.pending = batch]
  BY DEF Destroyed, Book, Batch
<1>4. b.pending \in Batch
  BY DEF Book
<1> HIDE DEF failed, notes
<1>5. batch \in Batch /\ batch.id = b.pending.id /\ batch.windows = b.pending.windows
      /\ batch.waiting = b.pending.waiting /\ batch.failed = failed
  BY <1>2, <1>4 DEF Batch
<1> HIDE DEF batch
<1>6. /\ Destroyed(b, w) \in Book /\ Destroyed(b, w).committed = b.committed
      /\ Destroyed(b, w).asks = b.asks /\ Destroyed(b, w).notes = notes /\ Destroyed(b, w).pending = batch
  <2>1. PICK c : c = [b EXCEPT !.ready = @ \ {w}, !.notes = notes, !.pending = batch]
    OBVIOUS
  <2>2. c.committed = b.committed /\ c.asks = b.asks /\ c.notes = notes /\ c.pending = batch
    BY <2>1 DEF Book
  <2>3. c \in Book
    BY <1>1, <1>5, <2>1 DEF Book
  <2>4. Destroyed(b, w) = c
    BY <1>3, <2>1
  <2> QED BY <2>2, <2>3, <2>4
<1> QED BY <1>1, <1>5, <1>6 DEF failed

LEMMA AcknowledgedBook ==
  ASSUME NEW b \in Book, NEW w \in Window, NEW id \in CloseId, NEW saved \in BOOLEAN
  PROVE  /\ Acknowledged(b, w, id, saved) \in Book
         /\ Acknowledged(b, w, id, saved).ready = b.ready
         /\ Acknowledged(b, w, id, saved).committed = b.committed
         /\ Acknowledged(b, w, id, saved).asks = b.asks
         /\ Acknowledged(b, w, id, saved).pending.id = b.pending.id
         /\ Acknowledged(b, w, id, saved).pending.windows = b.pending.windows
         /\ \A v \in Popout : /\ Acknowledged(b, w, id, saved).notes[v].id = b.notes[v].id
                              /\ v # w => Acknowledged(b, w, id, saved).notes[v] = b.notes[v]
         /\ \/ /\ Acknowledged(b, w, id, saved).pending = b.pending
            \/ /\ id # 0 /\ b.pending.id = id
               /\ Acknowledged(b, w, id, saved).pending.failed <=> (b.pending.failed \/ ~saved)
               /\ Acknowledged(b, w, id, saved).pending.waiting = b.pending.waiting \ {w}
         /\ w \in Popout =>
              \/ Acknowledged(b, w, id, saved).notes[w] = b.notes[w]
              \/ b.notes[w].id = id /\ (Acknowledged(b, w, id, saved).notes[w].saved = "yes" => saved)
<1>1. CASE w \in Popout /\ b.notes[w].id # 0 /\ b.notes[w].id = id
  <2> DEFINE said == IF b.notes[w].saved # "no" /\ saved THEN "yes" ELSE "no"
             entry == [b.notes[w] EXCEPT !.saved = said]
  <2>1. said \in {"yes", "no"} /\ (said = "yes" => saved)
    OBVIOUS
  <2>2. Acknowledged(b, w, id, saved) = Entered(b, w, entry)
    BY <1>1 DEF Acknowledged, Book, Entered
  <2> HIDE DEF said
  <2>3. entry \in [id : CloseId, saved : {"unknown", "yes", "no"}] /\ entry.id = b.notes[w].id /\ entry.saved = said
    BY <1>1, <2>1 DEF Book
  <2> HIDE DEF entry
  <2> QED BY <1>1, <2>1, <2>2, <2>3, NotesBook
<1>2. CASE /\ ~(w \in Popout /\ b.notes[w].id # 0)
           /\ b.pending.id = id /\ id # 0 /\ w \in b.pending.windows /\ ~b.committed
  <2> DEFINE failed == b.pending.failed \/ ~saved
             batch == [b.pending EXCEPT !.waiting = @ \ {w}, !.failed = failed]
  <2>1. failed \in BOOLEAN /\ b.pending \in Batch
    BY DEF Book, Batch
  <2>2. Acknowledged(b, w, id, saved) = [b EXCEPT !.pending = batch]
    BY <1>2 DEF Acknowledged, Book, Batch
  <2> HIDE DEF failed
  <2>3. batch \in Batch /\ batch.id = b.pending.id /\ batch.windows = b.pending.windows
        /\ batch.waiting = b.pending.waiting \ {w} /\ batch.failed = failed
    BY <2>1 DEF Batch
  <2> HIDE DEF batch
  <2>4. /\ Acknowledged(b, w, id, saved) \in Book /\ Acknowledged(b, w, id, saved).pending = batch
        /\ Acknowledged(b, w, id, saved).ready = b.ready /\ Acknowledged(b, w, id, saved).committed = b.committed
        /\ Acknowledged(b, w, id, saved).asks = b.asks /\ Acknowledged(b, w, id, saved).notes = b.notes
    BY <2>2, <2>3 DEF Book
  <2> QED BY <1>2, <2>3, <2>4 DEF failed
<1>3. CASE Acknowledged(b, w, id, saved) = b
  BY <1>3
<1> QED BY <1>1, <1>2, <1>3 DEF Acknowledged
-----------------------------------------------------------------------------
(* What a step may do to a window, its notices and its part in a close.      *)
NoCloseReturns ==
  /\ \A i \in Ids : (IsVault(i) => IsVault(i)') /\ (IsVault(i)' => IsVault(i) \/ i > counts.ids)
  /\ \A w \in Window, j \in Ids : TakesPart(w, j)' => TakesPart(w, j) \/ j > counts.ids

Stays(w) ==
  /\ pages'[w].on = pages[w].on
  /\ pages'[w].dirty => pages[w].dirty \/ pages[w].on = 0
  /\ \/ notices'[w] = notices[w]
     \/ \E n \in Notice : /\ notices'[w] = Append(notices[w], n)
                          /\ \A j \in Ids : TakesPart(w, j)' => Harmless(j, n)'
  /\ \A j \in Ids : SaidYes(w, j)' => SaidYes(w, j) \/ (pages[w].on = j /\ ~pages'[w].dirty)

Hears(w) ==
  /\ notices[w] # <<>> /\ notices'[w] = Tail(notices[w])
  /\ pages'[w] = Heard(pages[w], Head(notices[w]))
  /\ \A j \in Ids : SaidYes(w, j)' => SaidYes(w, j)

StaysOut(w) == \A j \in Ids : ~TakesPart(w, j)'

LEMMA IssuedAreOld ==
  ASSUME CloseInv
  PROVE  /\ counts.ids \in Nat
         /\ \A w \in Window : pages[w].on <= counts.ids /\ pages[w].on \in CloseId
         /\ \A w \in Window : \A n \in DOMAIN notices[w] :
              notices[w][n] \in Notice /\ notices[w][n].id <= counts.ids /\ notices[w][n].id \in Ids
         /\ \A w \in Window : notices[w] \in Seq(Notice)
         /\ \A w \in Window, j \in Ids : SaidYes(w, j) => TakesPart(w, j)
         /\ \A w \in Window, j \in Ids : TakesPart(w, j) => j <= counts.ids
<1>1. counts.ids \in Nat
  BY EmptyBatch DEF CloseInv, CloseTypeOK
<1>2. \A w \in Window : pages[w].on <= counts.ids /\ pages[w].on \in CloseId
  BY DEF CloseInv, CloseTypeOK, IdsAreIssued, Page
<1>3. \A w \in Window : notices[w] \in Seq(Notice)
  BY DEF CloseInv, CloseTypeOK
<1>4. \A w \in Window : \A n \in DOMAIN notices[w] : notices[w][n] \in Notice /\ notices[w][n].id <= counts.ids
  BY <1>3, ElementOfSeq DEF CloseInv, IdsAreIssued
<1>5. \A w \in Window : \A n \in DOMAIN notices[w] : notices[w][n].id \in Ids
  BY <1>4 DEF Notice
<1>6. \A w \in Window, j \in Ids : SaidYes(w, j) => TakesPart(w, j)
  BY DEF SaidYes, TakesPart
<1>7. \A w \in Window, j \in Ids : TakesPart(w, j) => j <= counts.ids
  BY EmptyBatch DEF TakesPart, CloseInv, IdsAreIssued
<1> QED BY <1>1, <1>2, <1>3, <1>4, <1>5, <1>6, <1>7

LEMMA HarmlessStays ==
  ASSUME CloseInv, NoCloseReturns, NEW j \in Ids, NEW n \in Notice, n.id <= counts.ids, Harmless(j, n)
  PROVE  Harmless(j, n)'
<1> n.id \in Ids /\ ~(n.id > counts.ids)
  BY EmptyBatch, IssuedAreOld DEF Notice
<1> QED BY DEF Harmless, NoCloseReturns

LEMMA FrozenStayFrozen ==
  ASSUME CloseInv, CloseTypeOK', NoCloseReturns,
         \A w \in Window : Stays(w) \/ Hears(w) \/ StaysOut(w)
  PROVE  FrozenStay'
<1> SUFFICES ASSUME NEW w \in Window, NEW j \in Ids, TakesPart(w, j)'
             PROVE  /\ \A m, n \in DOMAIN notices'[w] :
                         m < n /\ notices'[w][m].id = j => Harmless(j, notices[w][n])'
                    /\ pages'[w].on = j \/ SaidYes(w, j)' =>
                         /\ pages'[w].on = j \/ IsVault(pages[w].on)'
                         /\ \A n \in DOMAIN notices'[w] : Harmless(j, notices[w][n])'
                    /\ SaidYes(w, j)' => ~pages'[w].dirty
  BY DEF FrozenStay
<1> DEFINE q == notices[w]
           p == pages[w]
<1>1. TakesPart(w, j) \/ j > counts.ids
  BY DEF NoCloseReturns
<1>2. /\ counts.ids \in Nat /\ q \in Seq(Notice) /\ p.on <= counts.ids /\ p.on \in CloseId
      /\ \A n \in DOMAIN q : q[n] \in Notice /\ q[n].id <= counts.ids /\ q[n].id \in Ids
      /\ SaidYes(w, j) => TakesPart(w, j)
      /\ j \in Nat /\ j # 0 /\ (TakesPart(w, j) => j <= counts.ids)
  BY IssuedAreOld, EmptyBatch
<1>3. \A i \in Ids : IsVault(i) => IsVault(i)'
  BY DEF NoCloseReturns
<1>4. TakesPart(w, j) =>
        /\ \A m, n \in DOMAIN q : m < n /\ q[m].id = j => Harmless(j, q[n])
        /\ p.on = j \/ SaidYes(w, j) =>
             /\ p.on = j \/ IsVault(p.on)
             /\ \A n \in DOMAIN q : Harmless(j, q[n])
        /\ SaidYes(w, j) => ~p.dirty
  BY DEF CloseInv, FrozenStay
<1>5. \A n \in DOMAIN q, note \in Notice : note = q[n] /\ Harmless(j, note) => Harmless(j, note)'
  BY <1>2, HarmlessStays
<1>6. notices'[w] \in Seq(Notice) /\ \A n \in DOMAIN notices'[w] : notices'[w][n] \in Notice
  BY ElementOfSeq DEF CloseTypeOK
(* It is enough that every notice now there is harmless.                     *)
<1>7. SUFFICES /\ \A m, n \in DOMAIN notices'[w], note \in Notice :
                    m < n /\ notices'[w][m].id = j /\ note = notices'[w][n] => Harmless(j, note)'
               /\ pages'[w].on = j \/ SaidYes(w, j)' =>
                    /\ pages'[w].on = j \/ \E i \in Ids : i = pages'[w].on /\ IsVault(i)
                    /\ \A n \in DOMAIN notices'[w], note \in Notice :
                         note = notices'[w][n] => Harmless(j, note)'
               /\ SaidYes(w, j)' => ~pages'[w].dirty
  <2>1. \A n \in DOMAIN notices'[w] :
          (\A note \in Notice : note = notices'[w][n] => Harmless(j, note)') => Harmless(j, notices[w][n])'
    <3> TAKE n \in DOMAIN notices'[w]
    <3> PICK note \in Notice : note = notices'[w][n]
      BY <1>6
    <3> QED BY DEF Harmless
  <2>2. (\E i \in Ids : i = pages'[w].on /\ IsVault(i)) => IsVault(pages[w].on)'
    BY <1>3 DEF IsVault
  <2> QED BY <1>7, <2>1, <2>2
<1>8. CASE Stays(w)
  <2>1. pages'[w].on = p.on /\ (pages'[w].dirty => p.dirty \/ p.on = 0)
        /\ (SaidYes(w, j)' => SaidYes(w, j) \/ (p.on = j /\ ~pages'[w].dirty))
    BY <1>8 DEF Stays
  <2>2. /\ \A n \in DOMAIN notices'[w], note \in Notice : note = notices'[w][n] =>
             (n \in DOMAIN q /\ note = q[n]) \/ Harmless(j, note)'
        /\ \A m, n \in DOMAIN notices'[w] : m < n => m \in DOMAIN q /\ notices'[w][m] = q[m]
    <3>1. CASE notices'[w] = q
      <4>1. DOMAIN q = 1 .. Len(q) /\ Len(q) \in Nat
        BY <1>2
      <4> QED BY <3>1, <4>1
    <3>2. ASSUME NEW note \in Notice, notices'[w] = Append(q, note), Harmless(j, note)'
          PROVE  /\ \A n \in DOMAIN notices'[w], x \in Notice : x = notices'[w][n] =>
                      (n \in DOMAIN q /\ x = q[n]) \/ Harmless(j, x)'
                 /\ \A m, n \in DOMAIN notices'[w] : m < n => m \in DOMAIN q /\ notices'[w][m] = q[m]
      <4>1. /\ DOMAIN q = 1 .. Len(q) /\ Len(q) \in Nat /\ DOMAIN notices'[w] = 1 .. Len(q) + 1
            /\ notices'[w][Len(q) + 1] = note
            /\ \A n \in 1 .. Len(q) : notices'[w][n] = q[n]
        BY <1>2, <3>2
      <4> QED BY <3>2, <4>1
    <3> QED BY <1>8, <3>1, <3>2 DEF Stays
  <2>3. TakesPart(w, j) => /\ \A m, n \in DOMAIN notices'[w], note \in Notice :
                                m < n /\ notices'[w][m].id = j /\ note = notices'[w][n] => Harmless(j, note)'
                           /\ p.on = j \/ SaidYes(w, j) =>
                                \A n \in DOMAIN notices'[w], note \in Notice :
                                  note = notices'[w][n] => Harmless(j, note)'
    BY <1>4, <1>5, <2>2
  <2>4. CASE TakesPart(w, j)
    <3>1. p.on = j \/ SaidYes(w, j) => p.on # 0 /\ (p.on = j \/ \E i \in Ids : i = p.on /\ IsVault(i))
      BY <1>2, <1>4, <2>4, EmptyBatch DEF IsVault
    <3> QED BY <1>2, <1>4, <2>1, <2>3, <2>4, <3>1
  <2>5. CASE j > counts.ids
    <3>1. p.on # j /\ ~SaidYes(w, j) /\ \A n \in DOMAIN q : q[n].id # j
      BY <1>2, <2>5, EmptyBatch
    <3> QED BY <2>1, <2>2, <3>1
  <2> QED BY <1>1, <2>4, <2>5
<1>9. CASE Hears(w)
  <2>1. q # <<>> /\ notices'[w] = Tail(q) /\ pages'[w] = Heard(p, Head(q)) /\ (SaidYes(w, j)' => SaidYes(w, j))
    BY <1>9 DEF Hears
  <2>2. /\ DOMAIN q = 1 .. Len(q) /\ Len(q) \in Nat /\ Len(q) > 0 /\ Head(q) = q[1]
        /\ DOMAIN notices'[w] = 1 .. Len(q) - 1
        /\ \A n \in 1 .. Len(q) - 1 : notices'[w][n] = q[n + 1]
    BY <1>2, <2>1, <1>6
  <2>3. /\ 1 \in DOMAIN q
        /\ \A n \in DOMAIN notices'[w] : n + 1 \in DOMAIN q /\ 1 < n + 1 /\ notices'[w][n] = q[n + 1]
        /\ \A m, n \in DOMAIN notices'[w] : m < n => m + 1 < n + 1
    BY <2>2
  <2> PICK note \in Notice : note = q[1]
    BY <1>2, <2>3
  <2>4. p \in Page /\ note.id \in Ids /\ note.id <= counts.ids
    BY <1>2, <2>3 DEF CloseInv, CloseTypeOK
  <2>5. /\ pages'[w].dirty = p.dirty
        /\ \/ pages'[w].on = p.on
           \/ note.phase = "cancel" /\ p.on = note.id /\ pages'[w].on = 0
           \/ note.phase # "cancel" /\ pages'[w].on = note.id
    BY <2>1, <2>2, <2>4 DEF Heard, Page
  <2>6. CASE j > counts.ids
    <3>1. p.on # j /\ ~SaidYes(w, j) /\ note.id # j /\ \A n \in DOMAIN q : q[n].id # j
      BY <1>2, <2>4, <2>6, EmptyBatch
    <3> QED BY <1>2, <2>1, <2>3, <2>5, <3>1
  <2>7. CASE TakesPart(w, j)
    <3>1. \A m, n \in DOMAIN notices'[w], x \in Notice :
            m < n /\ notices'[w][m].id = j /\ x = notices'[w][n] => Harmless(j, x)'
      BY <1>4, <1>5, <2>3, <2>7
    <3>2. SaidYes(w, j)' => ~pages'[w].dirty
      BY <1>4, <2>1, <2>5, <2>7
    <3>3. CASE p.on = j \/ SaidYes(w, j)
      <4>1. /\ p.on = j \/ IsVault(p.on)
            /\ Harmless(j, note)
            /\ \A n \in DOMAIN q : Harmless(j, q[n])
        BY <1>4, <2>3, <2>7, <3>3
      <4>2. \A n \in DOMAIN notices'[w], x \in Notice : x = notices'[w][n] => Harmless(j, x)'
        BY <1>5, <2>3, <4>1
      <4>3. pages'[w].on = j \/ \E i \in Ids : i = pages'[w].on /\ IsVault(i)
        BY <2>4, <2>5, <4>1 DEF Harmless, IsVault
      <4> QED BY <3>1, <3>2, <4>2, <4>3
    <3>4. CASE pages'[w].on = j /\ p.on # j
      <4>1. note.id = j
        BY <1>2, <2>5, <3>4
      <4>2. \A n \in DOMAIN notices'[w], x \in Notice : x = notices'[w][n] => Harmless(j, x)'
        BY <1>4, <1>5, <2>3, <2>7, <4>1
      <4> QED BY <3>1, <3>2, <3>4, <4>2
    <3> QED BY <2>1, <3>1, <3>2, <3>3, <3>4
  <2> QED BY <1>1, <2>6, <2>7
<1> QED BY <1>8, <1>9 DEF StaysOut
-----------------------------------------------------------------------------
Past(i) == closers[i].step \in StoppedHere \cup {"gone"}

(* What a step may do to a window's saving.                                  *)
SavesInTime(w) ==
  /\ \/ notices'[w] \in {notices[w], <<>>}
     \/ notices[w] # <<>> /\ notices'[w] = Tail(notices[w])
     \/ \E n \in Notice : /\ notices'[w] = Append(notices[w], n)
                          /\ n.phase = "prepare" /\ IsVault(n.id)' => Past(n.id)'
  /\ \/ pages'[w].step # "idle" => pages[w].step # "idle" /\ pages'[w].on = pages[w].on
     \/ notices[w] # <<>> /\ pages'[w] = Heard(pages[w], Head(notices[w]))
  /\ closes'.pending.id # 0 /\ SaidYes(w, closes.pending.id)' =>
       \/ /\ closes'.pending.id = closes.pending.id /\ SaidYes(w, closes.pending.id)
          /\ pages'[w].behind => pages[w].behind
       \/ Past(closes.pending.id)' /\ ~pages'[w].behind

GatesAreHeld ==
  \A i \in Ids :
    /\ closers[i].step \in StoppedHere => gates["jobs"].by = i /\ ~gates["jobs"].busy
    /\ closers[i].step = "drain" => gates["jobs"].by = i

LEMMA SavedStayInTime ==
  ASSUME CloseInv, CloseTypeOK', NoCloseReturns, GatesAreHeld',
         \A i \in Ids : Past(i) => Past(i)',
         \A w \in Window : SavesInTime(w)
  PROVE  SavedIsNotBehind'
<1> DEFINE SoundNotice(n) == n.phase = "prepare" /\ IsVault(n.id) => Past(n.id)
<1>1. \A n \in Notice : n.id <= counts.ids /\ SoundNotice(n) => SoundNotice(n)'
  BY EmptyBatch, IssuedAreOld DEF NoCloseReturns, Notice
<1>2. ASSUME NEW w \in Window
      PROVE  \A n \in DOMAIN notices[w] : SoundNotice(notices[w][n])
  BY DEF CloseInv, SavedIsNotBehind, Past
<1>3. ASSUME NEW w \in Window
      PROVE  \A n \in DOMAIN notices'[w], note \in Notice : note = notices'[w][n] => SoundNotice(note)'
  <2> DEFINE q == notices[w]
  <2>0. /\ q \in Seq(Notice) /\ \A n \in DOMAIN q : q[n] \in Notice /\ q[n].id <= counts.ids
        /\ DOMAIN q = 1 .. Len(q) /\ Len(q) \in Nat
    BY IssuedAreOld
  <2>1. SUFFICES \A n \in DOMAIN notices'[w], note \in Notice : note = notices'[w][n] =>
                   (\E k \in DOMAIN q : note = q[k]) \/ SoundNotice(note)'
    <3> HIDE DEF SoundNotice
    <3> QED BY <1>1, <1>2, <2>0, <2>1
  <2> HIDE DEF SoundNotice
  <2>2. CASE notices'[w] = q
    BY <2>2
  <2>3. CASE notices'[w] = <<>>
    BY <2>3
  <2>4. CASE q # <<>> /\ notices'[w] = Tail(q)
    <3>1. DOMAIN notices'[w] = 1 .. Len(q) - 1 /\ \A n \in 1 .. Len(q) - 1 : notices'[w][n] = q[n + 1]
      BY <2>0, <2>4
    <3> QED BY <2>0, <3>1
  <2>5. ASSUME NEW note \in Notice, notices'[w] = Append(q, note), SoundNotice(note)'
        PROVE  \A n \in DOMAIN notices'[w], x \in Notice : x = notices'[w][n] =>
                   (\E k \in DOMAIN q : x = q[k]) \/ SoundNotice(x)'
    <3>1. /\ DOMAIN notices'[w] = 1 .. Len(q) + 1 /\ notices'[w][Len(q) + 1] = note
          /\ \A n \in 1 .. Len(q) : notices'[w][n] = q[n]
      BY <2>0, <2>5
    <3> QED BY <2>0, <2>5, <3>1
  <2>6. \/ notices'[w] \in {q, <<>>} \/ (q # <<>> /\ notices'[w] = Tail(q))
        \/ \E note \in Notice : notices'[w] = Append(q, note) /\ SoundNotice(note)'
    BY DEF SavesInTime, SoundNotice
  <2> QED BY <2>2, <2>3, <2>4, <2>5, <2>6
<1>4. ASSUME NEW w \in Window
      PROVE  pages'[w].step # "idle" /\ IsVault(pages[w].on)' => Past(pages[w].on)'
  <2> SUFFICES ASSUME pages'[w].step # "idle", NEW i \in Ids, i = pages'[w].on, IsVault(i)'
               PROVE  Past(i)'
    BY DEF IsVault, Past
  <2> DEFINE p == pages[w]
             q == notices[w]
  <2>1. p \in Page /\ p.on <= counts.ids /\ (p.step # "idle" /\ IsVault(p.on) => Past(p.on))
    BY IssuedAreOld DEF CloseInv, CloseTypeOK, SavedIsNotBehind, Past
  <2>2. CASE p.step # "idle" /\ i = p.on
    <3>1. IsVault(i)
      BY <2>1, <2>2, EmptyBatch, IssuedAreOld DEF NoCloseReturns
    <3> QED BY <2>1, <2>2, <3>1
  <2>3. CASE q # <<>> /\ pages'[w] = Heard(p, Head(q)) /\ ~(p.step # "idle" /\ i = p.on)
    <3>1. Head(q) = q[1] /\ 1 \in DOMAIN q /\ q[1] \in Notice /\ q[1].id <= counts.ids
      BY <2>3, IssuedAreOld
    <3> PICK note \in Notice : note = q[1]
      BY <3>1
    <3>2. note.phase = "prepare" /\ note.id = i
      BY <2>1, <2>3, <3>1 DEF Heard, Page, Notice
    <3>3. IsVault(i)
      BY <3>1, <3>2, EmptyBatch, IssuedAreOld DEF NoCloseReturns
    <3>4. Past(i)
      BY <1>2, <3>1, <3>2, <3>3
    <3> QED BY <3>4
  <2> QED BY <2>2, <2>3 DEF SavesInTime
<1>5. ASSUME NEW w \in Window, closes'.pending.id # 0, SaidYes(w, closes.pending.id)'
      PROVE  Past(closes.pending.id)' /\ ~pages'[w].behind
  <2>1. CASE /\ closes'.pending.id = closes.pending.id /\ SaidYes(w, closes.pending.id)
             /\ pages'[w].behind => pages[w].behind
    <3>1. Past(closes.pending.id) /\ ~pages[w].behind
      BY <1>5, <2>1 DEF CloseInv, SavedIsNotBehind, Past
    <3> PICK i \in Ids : i = closes.pending.id
      BY <1>5, <2>1, EmptyBatch DEF CloseInv, CloseTypeOK, Book, Batch
    <3>2. Past(i)'
      BY <3>1
    <3> QED BY <2>1, <3>1, <3>2 DEF Past
  <2> QED BY <1>5, <2>1 DEF SavesInTime
<1>6. \A w \in Window : \A n \in DOMAIN notices'[w] : SoundNotice(notices[w][n])'
  <2> TAKE w \in Window
  <2> TAKE n \in DOMAIN notices'[w]
  <2> PICK note \in Notice : note = notices'[w][n]
    BY ElementOfSeq DEF CloseTypeOK
  <2>1. SoundNotice(note)'
    BY <1>3
  <2> QED BY <2>1 DEF IsVault, Past
<1> QED BY <1>4, <1>5, <1>6 DEF SavedIsNotBehind, Past, GatesAreHeld

LEMMA CloseStepEnds ==
  ASSUME CloseInv, CloseTypeOK', IdsAreIssued', AsksAreKept', NoCloseReturns, GatesAreHeld',
         \A i \in Ids : Past(i) => Past(i)',
         \A w \in Window : SavesInTime(w) /\ (Stays(w) \/ Hears(w) \/ StaysOut(w))
  PROVE  CloseInv'
BY SavedStayInTime, FrozenStayFrozen DEF CloseInv
-----------------------------------------------------------------------------
(* The parts that steps are made of.                                         *)
(* Each of these windows gets a notice of close id, and no other does.       *)
Sent(windows, id, phase) ==
  /\ notices' \in [Window -> Seq(Notice)]
  /\ \A w \in Window : w \notin windows => notices'[w] = notices[w]
  /\ \A w \in Window : w \in windows =>
       \E n \in Notice : n.id = id /\ n.phase = phase /\ notices'[w] = Append(notices[w], n)

LEMMA NotifiedIsSent ==
  ASSUME CloseTypeOK, NEW windows \in SUBSET Window, NEW id \in CloseId,
         NEW phase \in {"waiting", "prepare", "cancel"}, windows # {} => id # 0,
         notices' = Notified(windows, id, phase)
  PROVE  Sent(windows, id, phase)
<1>1. \A w \in Window : notices[w] \in Seq(Notice)
  BY DEF CloseTypeOK
<1>2. \A w \in Window :
        notices'[w] = IF w \in windows THEN Append(notices[w], [id |-> id, phase |-> phase]) ELSE notices[w]
  BY DEF Notified
<1>3. CASE windows = {}
  BY <1>1, <1>2, <1>3 DEF Notified, Sent
<1>4. CASE windows # {}
  <2> PICK n \in Notice : n = [id |-> id, phase |-> phase]
    BY <1>4, EmptyBatch DEF Notice
  <2>1. n.id = id /\ n.phase = phase
    OBVIOUS
  <2>2. \A w \in Window : Append(notices[w], n) \in Seq(Notice)
    BY <1>1
  <2>3. notices' \in [Window -> Seq(Notice)]
    BY <1>1, <1>2, <2>2 DEF Notified
  <2> QED BY <1>2, <2>1, <2>3 DEF Sent
<1> QED BY <1>3, <1>4

LEMMA SameBatch ==
  ASSUME closes'.notes = closes.notes, closes'.pending = closes.pending
  PROVE  \A w \in Window, j \in Ids :
           (TakesPart(w, j)' <=> TakesPart(w, j)) /\ (SaidYes(w, j)' <=> SaidYes(w, j))
BY DEF TakesPart, SaidYes

LEMMA SameClosers ==
  ASSUME UNCHANGED closers
  PROVE  \A i \in Ids : (IsVault(i)' <=> IsVault(i)) /\ (Past(i)' <=> Past(i))
BY DEF IsVault, Past

(* Nothing but the requests of the book and the main thread changes.         *)
LEMMA CloseBookStep ==
  ASSUME CloseInv, closes' \in Book, closes'.notes = closes.notes, closes'.pending = closes.pending,
         closes'.committed = closes.committed,
         UNCHANGED <<shown, pages, notices, gates, closers, leavers>>,
         main' \in {"free"} \cup Asker,
         counts' \in [ids : CloseId, moves : Nat], counts'.ids = counts.ids,
         AsksAreKept'
  PROVE  CloseInv'
<1>1. CloseTypeOK'
  BY DEF CloseInv, CloseTypeOK
<1>2. IdsAreIssued'
  BY DEF CloseInv, IdsAreIssued, IsVault
<1>3. NoCloseReturns
  BY SameBatch, SameClosers DEF NoCloseReturns
<1>4. GatesAreHeld'
  BY DEF CloseInv, SavedIsNotBehind, GatesAreHeld
<1>5. \A w \in Window : SavesInTime(w) /\ Stays(w)
  BY SameBatch DEF SavesInTime, Stays, SaidYes
<1> QED BY <1>1, <1>2, <1>3, <1>4, <1>5, SameClosers, CloseStepEnds

LEMMA MovedCounts ==
  ASSUME CloseTypeOK, NEW begun \in {0, 1}, Move(begun)
  PROVE  /\ counts' \in [ids : CloseId, moves : Nat] /\ counts'.ids = counts.ids + begun
         /\ counts.ids \in Nat
         /\ begun = 1 => counts'.ids \in Ids /\ counts'.ids > counts.ids
BY VaultCloseAssumption DEF CloseTypeOK, Move, CloseId, Ids

LEMMA QueueCloseIsSound ==
  ASSUME CloseInv, NEW r \in Asker, QueueClose(r)
  PROVE  CloseInv'
<1>1. CloseTypeOK /\ closes \in Book /\ AsksAreKept /\ counts \in [ids : CloseId, moves : Nat]
  BY DEF CloseInv, CloseTypeOK
<1> PICK b \in Book : b = closes
  BY <1>1
<1>2. counts' \in [ids : CloseId, moves : Nat] /\ counts'.ids = counts.ids
  <2>1. CASE UNCHANGED counts
    BY <1>1, <2>1
  <2>2. CASE Move(0)
    BY <1>1, <2>2, MovedCounts, EmptyBatch
  <2> QED BY <2>1, <2>2 DEF QueueClose, MoveIfNew
<1>3. /\ closes' \in Book /\ closes'.notes = closes.notes /\ closes'.pending = closes.pending
      /\ closes'.committed = closes.committed
      /\ \A s \in Asker : s # r => closes'.asks[s] = closes.asks[s]
      /\ \/ closes'.asks[r] = closes.asks[r]
         \/ ~closes'.asks[r].cancelled /\ closes'.asks[r].batch \in {0, closes.pending.id}
  BY EnqueuedBook DEF QueueClose
<1>4. AsksAreKept'
  <2>1. 0 <= counts.ids /\ closes.pending.id <= counts.ids
    BY <1>1, EmptyBatch DEF CloseInv, IdsAreIssued, Book, Batch
  <2> QED BY <1>1, <1>2, <1>3, <2>1 DEF AsksAreKept
<1> QED BY <1>1, <1>2, <1>3, <1>4, CloseBookStep DEF QueueClose, CloseTypeOK

LEMMA CallbackIsSound ==
  ASSUME CloseInv, NEW r \in Asker, Callback(r)
  PROVE  CloseInv'
<1>1. CloseTypeOK /\ closes \in Book /\ AsksAreKept
  BY DEF CloseInv, CloseTypeOK
<1>2. /\ closes' \in Book /\ closes'.notes = closes.notes /\ closes'.pending = closes.pending
      /\ closes'.committed = closes.committed /\ closes'.asks = closes.asks
  BY <1>1 DEF Callback, Book
<1>3. AsksAreKept'
  BY <1>1, <1>2 DEF AsksAreKept, Callback
<1> QED BY <1>1, <1>2, <1>3, CloseBookStep DEF Callback, CloseTypeOK

LEMMA WindowReadyIsSound ==
  ASSUME CloseInv, NEW w \in Window, WindowReady(w)
  PROVE  CloseInv'
<1>1. CloseTypeOK /\ closes \in Book /\ AsksAreKept
  BY DEF CloseInv, CloseTypeOK
<1>2. /\ closes' \in Book /\ closes'.notes = closes.notes /\ closes'.pending = closes.pending
      /\ closes'.committed = closes.committed /\ closes'.asks = closes.asks
  BY <1>1 DEF WindowReady, Book
<1>3. AsksAreKept'
  BY <1>1, <1>2 DEF AsksAreKept, WindowReady
<1> QED BY <1>1, <1>2, <1>3, CloseBookStep DEF WindowReady, CloseTypeOK
(* Where no window is in a close any more, none said anything for one.       *)
LEMMA NobodyTakesPart ==
  ASSUME CloseInv, CloseTypeOK', closes'.pending.id = 0, \A w \in Popout : closes'.notes[w].id = 0
  PROVE  \A w \in Window : StaysOut(w)
BY EmptyBatch DEF StaysOut, TakesPart

LEMMA CancelCloseIsSound ==
  ASSUME CloseInv, NEW r \in Asker, CancelClose(r)
  PROVE  CloseInv'
<1> DEFINE batch == closes.asks[r].batch
           left == IF batch = 0 THEN closes ELSE Cancelled(closes, batch)
           told == IF batch = 0 THEN {} ELSE shown
<1>1. CloseTypeOK /\ closes \in Book /\ AsksAreKept /\ IdsAreIssued /\ counts \in [ids : CloseId, moves : Nat]
      /\ batch \in CloseId /\ told \in SUBSET Window
  BY DEF CloseInv, CloseTypeOK, Book, Ask
<1>2. /\ ~closes.committed
      /\ closes' = [left EXCEPT !.asks[r] = [batch |-> batch, progress |-> "failed", cancelled |-> TRUE]]
      /\ notices' = Notified(told, batch, "cancel")
      /\ UNCHANGED <<shown, pages, gates, closers, leavers, main>>
  BY DEF CancelClose
<1>3. counts' \in [ids : CloseId, moves : Nat] /\ counts'.ids = counts.ids
  <2>1. CASE UNCHANGED counts
    BY <1>1, <2>1
  <2>2. CASE Move(0)
    BY <1>1, <2>2, MovedCounts, EmptyBatch
  <2> QED BY <2>1, <2>2 DEF CancelClose, MoveIfNew
<1>4. batch # 0 => batch = closes.pending.id
  BY <1>1 DEF CancelClose, Stopped, AsksAreKept
<1>5. /\ left \in Book /\ left.ready = closes.ready /\ left.committed = closes.committed
      /\ left.notes = closes.notes /\ left.callbacks = closes.callbacks
      /\ \/ batch = 0 /\ left = closes
         \/ /\ batch # 0 /\ left.pending = NoBatch
            /\ \A s \in Asker :
                    \/ left.asks[s].batch = batch
                       /\ left.asks[s].cancelled /\ left.asks[s].progress = "failed"
                    \/ closes.asks[s].batch # batch /\ left.asks[s] = closes.asks[s]
  <2> PICK b \in Book, id \in CloseId : b = closes /\ id = batch
    BY <1>1
  <2>1. CASE id = 0
    BY <2>1
  <2>2. CASE id # 0
    <3>1. left = Cancelled(b, id) /\ ~b.committed /\ b.pending.id = id
      BY <1>2, <1>4, <2>2
    <3> HIDE DEF left
    <3> QED BY <2>2, <3>1, CancelledBook
  <2> QED BY <2>1, <2>2
<1> HIDE DEF left, told
<1>6. /\ closes' \in Book /\ closes'.pending = left.pending /\ closes'.notes = left.notes
      /\ closes'.committed = left.committed
      /\ closes'.asks[r].batch = batch /\ closes'.asks[r].cancelled /\ closes'.asks[r].progress = "failed"
      /\ \A s \in Asker : s # r => closes'.asks[s] = left.asks[s]
  <2> DEFINE wish == [batch |-> batch, progress |-> "failed", cancelled |-> TRUE]
             asks == [left.asks EXCEPT ![r] = wish]
  <2>1. wish \in Ask /\ left.asks \in [Asker -> Ask]
    BY <1>1, <1>5 DEF Ask, Book
  <2>2. asks \in [Asker -> Ask] /\ asks[r] = wish /\ \A s \in Asker : s # r => asks[s] = left.asks[s]
    BY <2>1
  <2>3. closes' = [left EXCEPT !.asks = asks]
    BY <1>2, <1>5 DEF Book
  <2> HIDE DEF asks
  <2> QED BY <1>5, <2>2, <2>3 DEF Book
<1>7. Sent(told, batch, "cancel")
  <2>1. told # {} => batch # 0
    BY DEF told
  <2> PICK id \in CloseId, windows \in SUBSET Window : id = batch /\ windows = told
    BY <1>1 DEF told
  <2>2. notices' = Notified(windows, id, "cancel") /\ (windows # {} => id # 0)
    BY <1>2, <2>1
  <2> HIDE DEF told, batch
  <2>3. Sent(windows, id, "cancel")
    BY <1>1, <2>2, NotifiedIsSent
  <2> QED BY <2>3
<1>8. CloseTypeOK'
  BY <1>1, <1>2, <1>3, <1>6, <1>7 DEF CloseTypeOK, Sent
<1>9. AsksAreKept'
  <2>1. \A s \in Asker : closes.asks[s].batch <= counts.ids
    BY <1>1 DEF AsksAreKept
  <2>2. \A s \in Asker : s # r =>
          /\ closes'.asks[s].cancelled => closes'.asks[s].progress \notin {"none", "queued"}
          /\ closes'.asks[s].batch <= counts.ids
          /\ closes'.asks[s].batch \notin {0, closes'.pending.id} => closes'.asks[s].cancelled
    <3> SUFFICES ASSUME NEW s \in Asker, s # r
                 PROVE  /\ closes'.asks[s].cancelled => closes'.asks[s].progress \notin {"none", "queued"}
                        /\ closes'.asks[s].batch <= counts.ids
                        /\ closes'.asks[s].batch \notin {0, closes'.pending.id} => closes'.asks[s].cancelled
      OBVIOUS
    <3>1. CASE batch = 0
      BY <1>1, <1>5, <1>6, <3>1 DEF AsksAreKept
    <3>2. CASE batch # 0 /\ left.asks[s] = closes.asks[s] /\ closes.asks[s].batch # batch
      BY <1>1, <1>4, <1>5, <1>6, <3>2 DEF AsksAreKept
    <3>3. CASE /\ batch # 0 /\ left.asks[s].batch = batch
               /\ left.asks[s].cancelled /\ left.asks[s].progress = "failed"
      BY <1>6, <2>1, <3>3
    <3> QED BY <1>5, <3>1, <3>2, <3>3
  <2>3. closes'.asks[r].batch <= counts.ids
    BY <1>6, <2>1
  <2> QED BY <1>3, <1>6, <2>2, <2>3 DEF AsksAreKept
<1>10. CASE batch = 0
  <2>1. \A w \in Window : notices'[w] = notices[w]
    BY <1>7, <1>10 DEF told, Sent
  <2>2. UNCHANGED notices
    BY <1>1, <1>7, <2>1 DEF CloseTypeOK, Sent
  <2> QED BY <1>1, <1>2, <1>3, <1>5, <1>6, <1>9, <1>10, <2>2, CloseBookStep DEF CloseTypeOK
<1>11. CASE batch # 0
  <2>1. closes'.pending = NoBatch /\ closes'.notes = closes.notes /\ closes'.pending.id = 0
    BY <1>5, <1>6, <1>11, EmptyBatch
  <2>2. \A w \in Popout : closes'.notes[w].id = 0
    BY <1>1, <1>4, <1>11, <2>1 DEF IdsAreIssued
  <2>3. \A w \in Window : StaysOut(w)
    BY <1>8, <2>1, <2>2, NobodyTakesPart
  <2>4. NoCloseReturns
    BY <1>2, <2>3, SameClosers DEF NoCloseReturns, StaysOut
  <2>5. \A w \in Window : notices'[w] = notices[w] \/
          \E n \in Notice : n.phase = "cancel" /\ n.id = batch /\ notices'[w] = Append(notices[w], n)
    BY <1>7 DEF Sent
  <2>6. IdsAreIssued'
    <3>1. \A w \in Window : \A n \in DOMAIN notices'[w] : notices'[w][n].id <= counts.ids
      <4> TAKE w \in Window
      <4>1. CASE notices'[w] = notices[w]
        BY <1>1, <4>1 DEF IdsAreIssued
      <4>2. ASSUME NEW note \in Notice, note.id = batch, notices'[w] = Append(notices[w], note)
            PROVE  \A n \in DOMAIN notices'[w] : notices'[w][n].id <= counts.ids
        <5>1. batch <= counts.ids
          BY <1>1 DEF AsksAreKept
        <5>2. notices[w] \in Seq(Notice) /\ \A n \in DOMAIN notices[w] : notices[w][n].id <= counts.ids
          BY <1>1 DEF CloseTypeOK, IdsAreIssued
        <5> QED BY <4>2, <5>1, <5>2
      <4> QED BY <2>5, <4>1, <4>2
    <3> QED BY <1>1, <1>2, <1>3, <2>1, <2>2, <3>1 DEF IdsAreIssued, IsVault
  <2>7. GatesAreHeld'
    BY <1>2 DEF CloseInv, SavedIsNotBehind, GatesAreHeld
  <2>8. \A w \in Window : SavesInTime(w)
    BY <1>2, <2>1, <2>5 DEF SavesInTime
  <2> QED BY <1>2, <1>8, <1>9, <2>3, <2>4, <2>6, <2>7, <2>8, SameClosers, CloseStepEnds
<1> QED BY <1>10, <1>11
LEMMA JoinedBook ==
  ASSUME NEW b \in Book, NEW r
  PROVE  /\ Joined(b, r) \in Book /\ Joined(b, r).committed = b.committed
         /\ Joined(b, r).notes = b.notes /\ Joined(b, r).pending = b.pending
         /\ \A s \in Asker :
              /\ s # r => Joined(b, r).asks[s] = b.asks[s]
              /\ Joined(b, r).asks[s].cancelled = b.asks[s].cancelled
              /\ \/ Joined(b, r).asks[s] = b.asks[s]
                 \/ /\ Joined(b, r).asks[s].batch = b.pending.id
                    /\ Joined(b, r).asks[s].progress \in {"committing", "pending"}
<1>1. CASE r \in Asker
  BY <1>1, AttachedBook DEF Joined
<1>2. CASE r \notin Asker
  BY <1>2 DEF Joined
<1> QED BY <1>1, <1>2

LEMMA FailedBook ==
  ASSUME NEW b \in Book, NEW r
  PROVE  /\ Failed(b, r) \in Book /\ Failed(b, r).committed = b.committed
         /\ Failed(b, r).notes = b.notes /\ Failed(b, r).pending = b.pending
         /\ \A s \in Asker :
              /\ Failed(b, r).asks[s].cancelled = b.asks[s].cancelled
              /\ Failed(b, r).asks[s].batch = b.asks[s].batch
              /\ Failed(b, r).asks[s].progress \in {b.asks[s].progress, "failed"}
<1>1. CASE r \in Asker
  <2> DEFINE wish == [b.asks[r] EXCEPT !.progress = "failed"]
             asks == [b.asks EXCEPT ![r] = wish]
  <2>1. wish \in Ask /\ wish.batch = b.asks[r].batch /\ wish.progress = "failed" /\ wish.cancelled = b.asks[r].cancelled
    BY <1>1 DEF Book, Ask
  <2>2. Failed(b, r) = [b EXCEPT !.asks = asks]
    BY <1>1 DEF Failed, Book, Ask
  <2> HIDE DEF wish
  <2>3. asks \in [Asker -> Ask] /\ asks[r] = wish /\ \A s \in Asker : s # r => asks[s] = b.asks[s]
    BY <1>1, <2>1 DEF Book
  <2> HIDE DEF asks
  <2>4. /\ Failed(b, r) \in Book /\ Failed(b, r).committed = b.committed /\ Failed(b, r).asks = asks
        /\ Failed(b, r).notes = b.notes /\ Failed(b, r).pending = b.pending
    BY <2>2, <2>3 DEF Book
  <2> QED BY <2>1, <2>3, <2>4
<1>2. CASE r \notin Asker
  BY <1>2 DEF Failed
<1> QED BY <1>1, <1>2

LEMMA RequestCloseIsSound ==
  ASSUME CloseInv, NEW r \in Asker \cup {"user"}, RequestClose(r)
  PROVE  CloseInv'
<1>1. CloseTypeOK /\ closes \in Book /\ AsksAreKept /\ IdsAreIssued /\ counts \in [ids : CloseId, moves : Nat]
      /\ shown \in SUBSET Window
  BY DEF CloseInv, CloseTypeOK
<1> PICK b \in Book : b = closes
  BY <1>1
<1>2. main' \in {"free"} \cup Asker /\ UNCHANGED <<shown, pages, notices, gates, leavers>>
  BY DEF RequestClose
<1>3. \A s \in Asker : /\ b.asks[s].cancelled => b.asks[s].progress \notin {"none", "queued"}
                       /\ b.asks[s].batch <= counts.ids
                       /\ b.asks[s].batch \notin {0, b.pending.id} => b.asks[s].cancelled
  BY <1>1 DEF AsksAreKept
<1>4. b.pending.id <= counts.ids
  BY <1>1, EmptyBatch DEF IdsAreIssued, Book, Batch
<1>5. CASE closes' = Joined(b, r) /\ UNCHANGED <<closers, counts>>
  <2>1. /\ closes' \in Book /\ closes'.committed = closes.committed
        /\ closes'.notes = closes.notes /\ closes'.pending = closes.pending
        /\ \A s \in Asker : /\ closes'.asks[s].cancelled = b.asks[s].cancelled
                            /\ \/ closes'.asks[s] = b.asks[s]
                               \/ /\ closes'.asks[s].batch = b.pending.id
                                  /\ closes'.asks[s].progress \in {"committing", "pending"}
    BY <1>5, JoinedBook
  <2>2. AsksAreKept'
    BY <1>3, <1>4, <1>5, <2>1 DEF AsksAreKept
  <2> QED BY <1>1, <1>2, <1>5, <2>1, <2>2, CloseBookStep DEF CloseTypeOK
<1>6. CASE closes' = Failed(b, r) /\ UNCHANGED <<closers, counts>>
  <2>1. /\ closes' \in Book /\ closes'.committed = closes.committed
        /\ closes'.notes = closes.notes /\ closes'.pending = closes.pending
        /\ \A s \in Asker : /\ closes'.asks[s].cancelled = b.asks[s].cancelled
                            /\ closes'.asks[s].batch = b.asks[s].batch
                            /\ closes'.asks[s].progress \in {b.asks[s].progress, "failed"}
    BY <1>6, FailedBook
  <2>2. AsksAreKept'
    BY <1>3, <1>6, <2>1 DEF AsksAreKept
  <2> QED BY <1>1, <1>2, <1>6, <2>1, <2>2, CloseBookStep DEF CloseTypeOK
<1>7. CASE /\ b.pending.id = 0 /\ MayBegin(b) /\ Move(1)
           /\ closes' = Joined(BatchBegun(b, counts'.ids), r)
           /\ closers' = [closers EXCEPT ![counts'.ids] = [step |-> "start", windows |-> shown]]
  <2>1. /\ counts' \in [ids : CloseId, moves : Nat] /\ counts'.ids = counts.ids + 1
        /\ counts.ids \in Nat /\ counts'.ids \in Ids /\ counts'.ids > counts.ids
    BY <1>1, <1>7, MovedCounts
  <2> PICK id \in Ids : id = counts'.ids
    BY <2>1
  <2> PICK begun \in Book : begun = BatchBegun(b, id)
    BY <1>1, BegunBook
  <2>2. /\ begun.committed = b.committed /\ begun.notes = b.notes
        /\ begun.pending.id = id /\ ~begun.pending.failed
        /\ begun.pending.windows = shown /\ begun.pending.waiting = shown
        /\ \A s \in Asker :
              /\ begun.asks[s].cancelled = b.asks[s].cancelled
              /\ \/ begun.asks[s] = b.asks[s]
                 \/ /\ b.asks[s].progress = "queued" /\ begun.asks[s].batch = id
                    /\ begun.asks[s].progress = "pending"
    BY <1>1, BegunBook
  <2>3. /\ closes' \in Book /\ closes'.committed = b.committed
        /\ closes'.notes = b.notes /\ closes'.pending = begun.pending
        /\ \A s \in Asker :
              /\ closes'.asks[s].cancelled = begun.asks[s].cancelled
              /\ \/ closes'.asks[s] = begun.asks[s]
                 \/ /\ closes'.asks[s].batch = id
                    /\ closes'.asks[s].progress \in {"committing", "pending"}
    BY <1>7, <2>2, JoinedBook
  <2>4. AsksAreKept'
    <3> SUFFICES ASSUME NEW s \in Asker
                 PROVE  /\ closes'.asks[s].cancelled => closes'.asks[s].progress \notin {"none", "queued"}
                        /\ closes'.asks[s].batch <= counts'.ids
                        /\ closes'.asks[s].batch \notin {0, closes'.pending.id} => closes'.asks[s].cancelled
      BY DEF AsksAreKept
    <3>1. b.asks[s].batch \in Nat /\ id \in Nat
      BY EmptyBatch DEF Book, Ask
    <3>2. b.asks[s].batch <= id
      BY <1>3, <2>1, <3>1
    <3> QED BY <1>3, <1>7, <2>1, <2>2, <2>3, <3>1, <3>2
  <2>5. \A w \in Popout : closes'.notes[w].id = 0
    BY <1>7, <2>3 DEF MayBegin, ClosingNotes
  <2>6. /\ closers' \in [Ids -> [step : Steps, windows : SUBSET Window]]
        /\ closers'[id].step = "start" /\ \A i \in Ids : i # id => closers'[i] = closers[i]
    BY <1>1, <1>7, <2>1 DEF CloseTypeOK, Steps
  <2>7. CloseTypeOK'
    BY <1>1, <1>2, <2>1, <2>3, <2>6 DEF CloseTypeOK
  <2>8. ~IsVault(id) /\ id \in Nat /\ \A i \in Ids : i \in Nat
    BY <1>1, <2>1, EmptyBatch DEF IdsAreIssued
  <2>9. \A i \in Ids : /\ IsVault(i)' <=> (i = id \/ IsVault(i))
                       /\ Past(i) => Past(i)'
    BY <2>6, <2>8 DEF IsVault, Past, StoppedHere
  <2>10. IdsAreIssued'
    <3>1. /\ \A i \in Ids : IsVault(i)' => i <= counts'.ids
          /\ \A l \in leavers' : l.id <= counts'.ids /\ ~IsVault(l.id)'
      <4>1. \A i \in Ids : IsVault(i)' => i <= counts'.ids
        BY <1>1, <2>1, <2>8, <2>9 DEF IdsAreIssued
      <4>2. ASSUME NEW l \in leavers PROVE l.id <= counts'.ids /\ ~IsVault(l.id)'
        <5>1. l.id \in Ids /\ l.id <= counts.ids /\ ~IsVault(l.id)
          BY <1>1 DEF IdsAreIssued, CloseTypeOK
        <5>2. PICK i \in Ids : i = l.id
          BY <5>1
        <5>3. i # id /\ ~IsVault(i)'
          BY <2>1, <2>8, <2>9, <5>1, <5>2
        <5> QED BY <2>1, <2>8, <5>1, <5>2, <5>3 DEF IsVault
      <4> QED BY <1>2, <4>1, <4>2
    <3>2. closes'.pending.id = id /\ closers'[id].step # "gone" /\ IsVault(closes.pending.id)'
          /\ closes'.pending.windows = shown
      BY <2>2, <2>3, <2>6 DEF IsVault
    <3>3. \A w \in Window : /\ pages'[w].on <= counts'.ids
                            /\ \A n \in DOMAIN notices'[w] : notices'[w][n].id <= counts'.ids
      BY <1>2, <2>1, IssuedAreOld, EmptyBatch
    <3> QED BY <1>2, <2>5, <3>1, <3>2, <3>3 DEF IdsAreIssued
  <2>11. \A w \in Window, j \in Ids : /\ TakesPart(w, j)' => j = id
                                      /\ ~SaidYes(w, j)'
    BY <2>2, <2>3, <2>5, EmptyBatch DEF TakesPart, SaidYes
  <2>12. NoCloseReturns
    BY <2>1, <2>9, <2>11 DEF NoCloseReturns
  <2>13. GatesAreHeld'
    BY <1>2, <2>6 DEF CloseInv, SavedIsNotBehind, GatesAreHeld, StoppedHere
  <2>14. \A w \in Window : Stays(w) /\ SavesInTime(w)
    <3> TAKE w \in Window
    <3>1. ~SaidYes(w, closes.pending.id)'
      BY <2>2, <2>3, <2>11 DEF SaidYes
    <3> QED BY <1>2, <2>11, <3>1 DEF Stays, SavesInTime
  <2> QED BY <2>4, <2>7, <2>9, <2>10, <2>12, <2>13, <2>14, CloseStepEnds
<1> QED BY <1>5, <1>6, <1>7 DEF RequestClose
-----------------------------------------------------------------------------
(* The thread of a close.                                                    *)
LEMMA SentAreIssued ==
  ASSUME CloseInv, NEW windows \in SUBSET Window, NEW id \in CloseId, NEW phase,
         Sent(windows, id, phase), id <= counts.ids
  PROVE  \A w \in Window : \A n \in DOMAIN notices'[w] : notices'[w][n].id <= counts.ids
<1> TAKE w \in Window
<1>1. notices[w] \in Seq(Notice) /\ \A n \in DOMAIN notices[w] : notices[w][n].id <= counts.ids
  BY IssuedAreOld
<1>2. CASE notices'[w] = notices[w]
  BY <1>1, <1>2
<1>3. ASSUME NEW note \in Notice, note.id = id, notices'[w] = Append(notices[w], note)
      PROVE  \A n \in DOMAIN notices'[w] : notices'[w][n].id <= counts.ids
  BY <1>1, <1>3
<1> QED BY <1>2, <1>3 DEF Sent

LEMMA CloserMoves ==
  ASSUME CloseInv, NEW i \in Ids, NEW step \in Steps \ {"none", "gone"}, NEW next \in Steps \ {"none"},
         CloserAt(i, step, next), step \in StoppedHere => next \in StoppedHere \cup {"gone"}
  PROVE  /\ closers' \in [Ids -> [step : Steps, windows : SUBSET Window]]
         /\ closers[i].step = step /\ closers'[i].step = next /\ IsVault(i)
         /\ \A j \in Ids : j # i => closers'[j] = closers[j]
         /\ \A j \in Ids : (IsVault(j)' <=> IsVault(j)) /\ (Past(j) => Past(j)')
<1>1. closers \in [Ids -> [step : Steps, windows : SUBSET Window]]
  BY DEF CloseInv, CloseTypeOK
<1>2. closers[i].step = step /\ closers' = [closers EXCEPT ![i].step = next]
  BY DEF CloserAt
<1>3. /\ closers' \in [Ids -> [step : Steps, windows : SUBSET Window]]
      /\ closers'[i].step = next /\ \A j \in Ids : j # i => closers'[j] = closers[j]
  BY <1>1, <1>2
<1>4. \A j \in Ids : (IsVault(j)' <=> IsVault(j)) /\ (Past(j) => Past(j)')
  BY <1>2, <1>3 DEF IsVault, Past
<1> QED BY <1>2, <1>3, <1>4 DEF IsVault

LEMMA CloserGoesOn ==
  ASSUME CloseInv, NEW i \in Ids, NEW step \in Steps \ {"none", "gone"}, NEW next \in Steps \ {"none", "gone"},
         CloserAt(i, step, next), step \in StoppedHere => next \in StoppedHere,
         UNCHANGED <<shown, pages, leavers, main, counts, closes>>,
         gates' \in [{"jobs", "saves"} -> [busy : BOOLEAN, by : CloseId]], GatesAreHeld',
         NEW windows \in SUBSET Window, NEW phase \in {"waiting", "prepare"},
         UNCHANGED notices \/ Sent(windows, i, phase),
         phase = "prepare" => next \in StoppedHere
  PROVE  CloseInv'
<1>1. /\ closers' \in [Ids -> [step : Steps, windows : SUBSET Window]]
      /\ closers[i].step = step /\ closers'[i].step = next /\ IsVault(i)
      /\ \A j \in Ids : j # i => closers'[j] = closers[j]
      /\ \A j \in Ids : (IsVault(j)' <=> IsVault(j)) /\ (Past(j) => Past(j)')
  BY CloserMoves
<1>2. notices' \in [Window -> Seq(Notice)]
  BY DEF CloseInv, CloseTypeOK, Sent
<1>3. CloseTypeOK'
  BY <1>1, <1>2 DEF CloseInv, CloseTypeOK
<1>4. i <= counts.ids /\ i \in CloseId
  BY <1>1, EmptyBatch DEF CloseInv, IdsAreIssued
<1>5. \A w \in Window : notices'[w] = notices[w] \/
        \E n \in Notice : n.phase = phase /\ n.id = i /\ notices'[w] = Append(notices[w], n)
  BY DEF Sent
<1>6. IdsAreIssued'
  <2>1. \A w \in Window : \A n \in DOMAIN notices'[w] : notices'[w][n].id <= counts.ids
    <3>1. CASE UNCHANGED notices
      BY <3>1 DEF CloseInv, IdsAreIssued
    <3>2. CASE Sent(windows, i, phase)
      BY <1>4, <3>2, SentAreIssued
    <3> QED BY <3>1, <3>2
  <2>2. CloseTypeOK /\ IdsAreIssued
    BY DEF CloseInv
  <2>3. \A l \in leavers : l.id <= counts.ids /\ ~IsVault(l.id)'
    BY <1>1, <2>2 DEF IdsAreIssued, CloseTypeOK, IsVault
  <2>4. \A w \in Popout : closes.notes[w].id # 0 =>
          closes.notes[w].id <= counts.ids /\ ~IsVault(closes.notes[w].id)' /\ w \in shown
    BY <1>1, <2>2 DEF IdsAreIssued, IsVault
  <2>5. closes.pending.id # 0 =>
          /\ IsVault(closes.pending.id)'
          /\ ~closes.committed => closers'[closes.pending.id].step # "gone"
    BY <1>1, <2>2 DEF IdsAreIssued, IsVault
  <2> QED BY <1>1, <2>1, <2>2, <2>3, <2>4, <2>5 DEF IdsAreIssued, IsVault
<1>7. AsksAreKept'
  BY DEF CloseInv, AsksAreKept
<1>8. \A w \in Window, j \in Ids : (TakesPart(w, j)' <=> TakesPart(w, j)) /\ (SaidYes(w, j)' <=> SaidYes(w, j))
  BY SameBatch
<1>9. NoCloseReturns
  BY <1>1, <1>8 DEF NoCloseReturns
<1>10. \A w \in Window : Stays(w) /\ SavesInTime(w)
  <2> TAKE w \in Window
  <2>1. \A n \in Notice : n.phase = phase /\ n.id = i =>
          (\A j \in Ids : Harmless(j, n)') /\ (n.phase = "prepare" => Past(n.id)')
    BY <1>1 DEF Harmless, IsVault, Past
  <2>2. Stays(w)
    BY <1>5, <1>8, <2>1 DEF Stays
  <2>3. SavesInTime(w)
    BY <1>5, <2>1 DEF SavesInTime, SaidYes
  <2> QED BY <2>2, <2>3
<1> QED BY <1>1, <1>3, <1>6, <1>7, <1>9, <1>10, CloseStepEnds

LEMMA GateChanges ==
  ASSUME CloseTypeOK, NEW g \in {"jobs", "saves"}, NEW gate \in [busy : BOOLEAN, by : CloseId],
         gates' = [gates EXCEPT ![g] = gate]
  PROVE  /\ gates' \in [{"jobs", "saves"} -> [busy : BOOLEAN, by : CloseId]]
         /\ gates'[g] = gate /\ \A h \in {"jobs", "saves"} : h # g => gates'[h] = gates[h]
BY DEF CloseTypeOK

LEMMA PauseJobsIsSound ==
  ASSUME CloseInv, NEW i \in Ids, PauseJobs(i), UNCHANGED <<shown, pages, leavers, main, counts>>
  PROVE  CloseInv'
<1>1. CloseTypeOK /\ gates \in [{"jobs", "saves"} -> [busy : BOOLEAN, by : CloseId]]
      /\ closers[i].windows \in SUBSET Window
  BY DEF CloseInv, CloseTypeOK
<1>2. CloserAt(i, "start", "drain") /\ UNCHANGED closes /\ gates["jobs"].by = 0
      /\ gates' = [gates EXCEPT !["jobs"] = [gates["jobs"] EXCEPT !.by = i]]
      /\ notices' = Notified(closers[i].windows, i, "waiting")
  BY DEF PauseJobs, Notify
<1>3. /\ gates' \in [{"jobs", "saves"} -> [busy : BOOLEAN, by : CloseId]]
      /\ gates'["jobs"].by = i
  <2> PICK gate \in [busy : BOOLEAN, by : CloseId] : gate = [gates["jobs"] EXCEPT !.by = i]
    BY <1>1, EmptyBatch
  <2>1. gate.by = i /\ gates' = [gates EXCEPT !["jobs"] = gate]
    BY <1>1, <1>2
  <2> QED BY <1>1, <2>1, GateChanges
<1>4. closers'[i].step = "drain" /\ \A j \in Ids : j # i => closers'[j] = closers[j]
  <2>1. "start" \in Steps \ {"none", "gone"} /\ "drain" \in Steps \ {"none"} /\ "start" \notin StoppedHere
    BY DEF Steps, StoppedHere
  <2> QED BY <1>2, <2>1, CloserMoves
<1>5. GatesAreHeld'
  <2>1. \A j \in Ids : j # 0
    BY EmptyBatch
  <2>2. \A j \in Ids : closers[j].step \notin StoppedHere \cup {"drain"}
    BY <1>2, <2>1 DEF CloseInv, SavedIsNotBehind
  <2> QED BY <1>3, <1>4, <2>2 DEF GatesAreHeld, StoppedHere
<1>6. PICK windows \in SUBSET Window : windows = closers[i].windows
  BY <1>1
<1>7. Sent(windows, i, "waiting")
  BY <1>1, <1>2, <1>6, NotifiedIsSent, EmptyBatch
<1> QED BY <1>2, <1>3, <1>5, <1>7, CloserGoesOn DEF Steps, StoppedHere

LEMMA JobsDrainedIsSound ==
  ASSUME CloseInv, NEW i \in Ids, JobsDrained(i), UNCHANGED <<shown, pages, leavers, main, counts>>
  PROVE  CloseInv'
<1>1. CloseTypeOK /\ gates \in [{"jobs", "saves"} -> [busy : BOOLEAN, by : CloseId]]
      /\ closers[i].windows \in SUBSET Window
  BY DEF CloseInv, CloseTypeOK
<1>2. CloserAt(i, "drain", "saving") /\ UNCHANGED <<closes, gates>> /\ ~gates["jobs"].busy
      /\ notices' = Notified(closers[i].windows, i, "prepare")
  BY DEF JobsDrained, Notify
<1>3. closers[i].step = "drain" /\ closers'[i].step = "saving" /\ \A j \in Ids : j # i => closers'[j] = closers[j]
  BY <1>2, CloserMoves DEF Steps, StoppedHere
<1>4. GatesAreHeld'
  <2>1. gates["jobs"].by = i
    BY <1>3 DEF CloseInv, SavedIsNotBehind
  <2> QED BY <1>2, <1>3, <2>1 DEF GatesAreHeld, CloseInv, SavedIsNotBehind
<1>5. PICK windows \in SUBSET Window : windows = closers[i].windows
  BY <1>1
<1>6. Sent(windows, i, "prepare")
  BY <1>1, <1>2, <1>5, NotifiedIsSent, EmptyBatch
<1> QED BY <1>1, <1>2, <1>4, <1>6, CloserGoesOn DEF Steps, StoppedHere

LEMMA PauseSavesIsSound ==
  ASSUME CloseInv, NEW i \in Ids, PauseSaves(i), UNCHANGED <<shown, pages, leavers, main, counts>>
  PROVE  CloseInv'
<1>1. CloseTypeOK /\ gates \in [{"jobs", "saves"} -> [busy : BOOLEAN, by : CloseId]]
  BY DEF CloseInv, CloseTypeOK
<1>2. CloserAt(i, "saving", "flushing") /\ UNCHANGED <<closes, notices>>
      /\ gates' = [gates EXCEPT !["saves"] = [gates["saves"] EXCEPT !.by = i]]
  BY DEF PauseSaves
<1>3. /\ gates' \in [{"jobs", "saves"} -> [busy : BOOLEAN, by : CloseId]]
      /\ gates'["jobs"] = gates["jobs"]
  <2> PICK gate \in [busy : BOOLEAN, by : CloseId] : gate = [gates["saves"] EXCEPT !.by = i]
    BY <1>1, EmptyBatch
  <2>1. gates' = [gates EXCEPT !["saves"] = gate]
    BY <1>1, <1>2
  <2> QED BY <1>1, <2>1, GateChanges
<1>4. closers[i].step = "saving" /\ closers'[i].step = "flushing" /\ \A j \in Ids : j # i => closers'[j] = closers[j]
  BY <1>2, CloserMoves DEF Steps, StoppedHere
<1>5. GatesAreHeld'
  BY <1>3, <1>4 DEF GatesAreHeld, CloseInv, SavedIsNotBehind, StoppedHere
<1> QED BY <1>2, <1>3, <1>5, CloserGoesOn DEF Steps, StoppedHere

LEMMA SavesDrainedIsSound ==
  ASSUME CloseInv, NEW i \in Ids, SavesDrained(i), UNCHANGED <<shown, pages, leavers, main, counts>>
  PROVE  CloseInv'
<1>1. CloseTypeOK /\ gates \in [{"jobs", "saves"} -> [busy : BOOLEAN, by : CloseId]]
  BY DEF CloseInv, CloseTypeOK
<1>2. CloserAt(i, "flushing", "decide") /\ UNCHANGED <<closes, notices, gates>>
  BY DEF SavesDrained
<1>3. closers[i].step = "flushing" /\ closers'[i].step = "decide" /\ \A j \in Ids : j # i => closers'[j] = closers[j]
  BY <1>2, CloserMoves DEF Steps, StoppedHere
<1>4. GatesAreHeld'
  BY <1>2, <1>3 DEF GatesAreHeld, CloseInv, SavedIsNotBehind, StoppedHere
<1> QED BY <1>1, <1>2, <1>4, CloserGoesOn DEF Steps, StoppedHere
(* The thread is gone, and its pauses with it, or after the commit.          *)
LEMMA CloserGone ==
  ASSUME CloseInv, NEW i \in Ids, IsVault(i), closers' = [closers EXCEPT ![i].step = "gone"]
  PROVE  /\ closers' \in [Ids -> [step : Steps, windows : SUBSET Window]]
         /\ closers'[i].step = "gone" /\ \A j \in Ids : j # i => closers'[j] = closers[j]
         /\ \A j \in Ids : (IsVault(j)' <=> IsVault(j)) /\ (Past(j) => Past(j)')
<1>1. closers \in [Ids -> [step : Steps, windows : SUBSET Window]]
  BY DEF CloseInv, CloseTypeOK
<1>2. /\ closers' \in [Ids -> [step : Steps, windows : SUBSET Window]]
      /\ closers'[i].step = "gone" /\ \A j \in Ids : j # i => closers'[j] = closers[j]
  BY <1>1 DEF Steps
<1> QED BY <1>2 DEF IsVault, Past

LEMMA ResumedGates ==
  ASSUME CloseInv, NEW i \in Ids, gates' = Resumed(i),
         closers'[i].step = "gone", \A j \in Ids : j # i => closers'[j] = closers[j]
  PROVE  gates' \in [{"jobs", "saves"} -> [busy : BOOLEAN, by : CloseId]] /\ GatesAreHeld'
<1>1. gates \in [{"jobs", "saves"} -> [busy : BOOLEAN, by : CloseId]]
  BY DEF CloseInv, CloseTypeOK
<1>2. \A g \in {"jobs", "saves"} : [gates[g] EXCEPT !.by = 0] \in [busy : BOOLEAN, by : CloseId]
  BY <1>1, EmptyBatch
<1>3. /\ gates' \in [{"jobs", "saves"} -> [busy : BOOLEAN, by : CloseId]]
      /\ \A g \in {"jobs", "saves"} : gates[g].by # i => gates'[g] = gates[g]
  BY <1>1, <1>2 DEF Resumed
<1>4. GatesAreHeld'
  BY <1>3 DEF CloseInv, SavedIsNotBehind, GatesAreHeld, StoppedHere
<1> QED BY <1>3, <1>4

LEMMA AbandonIsSound ==
  ASSUME CloseInv, NEW i \in Ids, IsVault(i), ~closes.committed, AbandonClose(i),
         UNCHANGED <<shown, pages, leavers, main, counts>>
  PROVE  CloseInv'
<1>1. CloseTypeOK /\ closes \in Book /\ AsksAreKept /\ IdsAreIssued /\ shown \in SUBSET Window
  BY DEF CloseInv, CloseTypeOK
<1> PICK b \in Book : b = closes
  BY <1>1
<1>2. /\ closes' = Cancelled(b, i) /\ notices' = ToldOver(b, i) /\ gates' = Resumed(i)
      /\ closers' = [closers EXCEPT ![i].step = "gone"]
  BY DEF AbandonClose
<1>3. /\ closers' \in [Ids -> [step : Steps, windows : SUBSET Window]]
      /\ closers'[i].step = "gone" /\ \A j \in Ids : j # i => closers'[j] = closers[j]
      /\ \A j \in Ids : (IsVault(j)' <=> IsVault(j)) /\ (Past(j) => Past(j)')
  BY <1>2, CloserGone
<1>4. gates' \in [{"jobs", "saves"} -> [busy : BOOLEAN, by : CloseId]] /\ GatesAreHeld'
  BY <1>2, <1>3, ResumedGates
<1>5. i \in CloseId /\ i # 0 /\ i <= counts.ids
  BY <1>1, EmptyBatch DEF IdsAreIssued
<1>6. /\ closes' \in Book /\ closes'.committed = b.committed /\ closes'.notes = b.notes
      /\ \/ closes' = b /\ b.pending.id # i
         \/ /\ b.pending.id = i /\ closes'.pending = NoBatch
            /\ \A s \in Asker : \/ closes'.asks[s].batch = i
                                   /\ closes'.asks[s].cancelled /\ closes'.asks[s].progress = "failed"
                                \/ b.asks[s].batch # i /\ closes'.asks[s] = b.asks[s]
  BY <1>2, <1>5, CancelledBook
<1>7. PICK told \in SUBSET Window : notices' = Notified(told, i, "cancel") /\ (closes' = b => told = {})
  BY <1>1, <1>2 DEF ToldOver
<1>8. Sent(told, i, "cancel")
  BY <1>1, <1>5, <1>7, NotifiedIsSent
<1>9. CloseTypeOK'
  BY <1>1, <1>3, <1>4, <1>6, <1>8 DEF CloseTypeOK, Sent
<1>10. \A w \in Window : \A n \in DOMAIN notices'[w] : notices'[w][n].id <= counts.ids
  BY <1>5, <1>8, SentAreIssued
<1>11. AsksAreKept'
  <2> SUFFICES ASSUME NEW s \in Asker
               PROVE  /\ closes'.asks[s].cancelled => closes'.asks[s].progress \notin {"none", "queued"}
                      /\ closes'.asks[s].batch <= counts'.ids
                      /\ closes'.asks[s].batch \notin {0, closes'.pending.id} => closes'.asks[s].cancelled
    BY DEF AsksAreKept
  <2>1. CASE closes' = b
    BY <1>1, <2>1 DEF AsksAreKept
  <2>2. CASE closes'.asks[s].batch = i /\ closes'.asks[s].cancelled /\ closes'.asks[s].progress = "failed"
    BY <1>5, <2>2
  <2>3. CASE b.pending.id = i /\ b.asks[s].batch # i /\ closes'.asks[s] = b.asks[s]
    BY <1>1, <2>3 DEF AsksAreKept
  <2> QED BY <1>6, <2>1, <2>2, <2>3
<1>12. IdsAreIssued'
  <2>1. \A l \in leavers : l.id <= counts.ids /\ ~IsVault(l.id)'
    BY <1>1, <1>3 DEF IdsAreIssued, CloseTypeOK, IsVault
  <2>2. \A w \in Popout : closes'.notes[w].id # 0 =>
          closes'.notes[w].id <= counts.ids /\ ~IsVault(closes.notes[w].id)' /\ w \in shown
    BY <1>1, <1>3, <1>6 DEF IdsAreIssued, IsVault
  <2>3. closes'.pending.id # 0 =>
          /\ IsVault(closes.pending.id)' /\ closers'[closes'.pending.id].step # "gone"
          /\ \A w \in Popout : closes'.notes[w].id = 0
          /\ ~closes'.pending.failed => closes'.pending.windows \subseteq shown
    <3>1. CASE closes' = b /\ b.pending.id # i
      BY <1>1, <1>3, <3>1 DEF IdsAreIssued, IsVault
    <3>2. CASE closes'.pending = NoBatch
      BY <3>2, EmptyBatch
    <3> QED BY <1>6, <3>1, <3>2
  <2> QED BY <1>1, <1>3, <1>10, <2>1, <2>2, <2>3 DEF IdsAreIssued
<1>13. CASE closes' = b
  <2>1. \A w \in Window : notices'[w] = notices[w]
    BY <1>7, <1>8, <1>13 DEF Sent
  <2>2. \A w \in Window, j \in Ids : (TakesPart(w, j)' <=> TakesPart(w, j)) /\ (SaidYes(w, j)' <=> SaidYes(w, j))
    BY <1>13, SameBatch
  <2>3. NoCloseReturns
    BY <1>3, <2>2 DEF NoCloseReturns
  <2>4. \A w \in Window : Stays(w) /\ SavesInTime(w)
    BY <1>13, <2>1, <2>2 DEF Stays, SavesInTime, SaidYes
  <2> QED BY <1>3, <1>4, <1>9, <1>11, <1>12, <2>3, <2>4, CloseStepEnds
<1>14. CASE b.pending.id = i /\ closes'.pending = NoBatch
  <2>1. closes'.pending.id = 0 /\ \A w \in Popout : closes'.notes[w].id = 0
    BY <1>1, <1>5, <1>6, <1>14, EmptyBatch DEF IdsAreIssued
  <2>2. \A w \in Window : StaysOut(w)
    BY <1>9, <2>1, NobodyTakesPart
  <2>3. NoCloseReturns
    BY <1>3, <2>2 DEF NoCloseReturns, StaysOut
  <2>4. \A w \in Window : notices'[w] = notices[w] \/
          \E n \in Notice : n.phase = "cancel" /\ n.id = i /\ notices'[w] = Append(notices[w], n)
    BY <1>8 DEF Sent
  <2>5. \A w \in Window : SavesInTime(w)
    BY <2>1, <2>4 DEF SavesInTime
  <2> QED BY <1>3, <1>4, <1>9, <1>11, <1>12, <2>2, <2>3, <2>5, CloseStepEnds
<1> QED BY <1>6, <1>13, <1>14

LEMMA CloserFailsIsSound ==
  ASSUME CloseInv, NEW i \in Ids, ~closes.committed, CloserFails(i),
         UNCHANGED <<shown, pages, leavers, main, counts>>
  PROVE  CloseInv'
BY AbandonIsSound DEF CloserFails, IsVault

LEMMA DecideCloseIsSound ==
  ASSUME CloseInv, NEW i \in Ids, ~closes.committed, DecideClose(i),
         UNCHANGED <<shown, pages, leavers, main, counts>>
  PROVE  CloseInv'
<1>1. CloseTypeOK /\ closes \in Book /\ AsksAreKept /\ IdsAreIssued /\ IsVault(i)
  BY DEF CloseInv, CloseTypeOK, DecideClose, IsVault
<1>2. CASE AbandonClose(i)
  BY <1>1, <1>2, AbandonIsSound
<1>3. CASE /\ closes' = Ended(closes) /\ closers' = [closers EXCEPT ![i].step = "gone"]
           /\ UNCHANGED <<notices, gates>>
  <2> PICK b \in Book : b = closes
    BY <1>1
  <2>1. /\ closes' \in Book /\ closes'.committed /\ closes'.notes = b.notes /\ closes'.pending = b.pending
        /\ \A r \in Asker :
              /\ closes'.asks[r].cancelled = b.asks[r].cancelled /\ closes'.asks[r].batch = b.asks[r].batch
              /\ closes'.asks[r].progress \in {b.asks[r].progress, "committing"}
    BY <1>3, EndedBook
  <2>2. /\ closers' \in [Ids -> [step : Steps, windows : SUBSET Window]]
        /\ closers'[i].step = "gone" /\ \A j \in Ids : j # i => closers'[j] = closers[j]
        /\ \A j \in Ids : (IsVault(j)' <=> IsVault(j)) /\ (Past(j) => Past(j)')
    BY <1>1, <1>3, CloserGone
  <2>3. CloseTypeOK'
    BY <1>1, <1>3, <2>1, <2>2 DEF CloseTypeOK
  <2>4. AsksAreKept'
    BY <1>1, <2>1 DEF AsksAreKept
  <2>5. IdsAreIssued'
    <3>1. \A l \in leavers : l.id <= counts.ids /\ ~IsVault(l.id)'
      BY <1>1, <2>2 DEF IdsAreIssued, CloseTypeOK, IsVault
    <3>2. \A w \in Popout : closes'.notes[w].id # 0 =>
            closes'.notes[w].id <= counts.ids /\ ~IsVault(closes.notes[w].id)' /\ w \in shown
      BY <1>1, <2>1, <2>2 DEF IdsAreIssued, IsVault
    <3>3. closes'.pending.id # 0 =>
            /\ IsVault(closes.pending.id)'
            /\ \A w \in Popout : closes'.notes[w].id = 0
            /\ ~closes'.pending.failed => closes'.pending.windows \subseteq shown
      BY <1>1, <2>1, <2>2 DEF IdsAreIssued, IsVault
    <3> QED BY <1>1, <1>3, <2>1, <2>2, <3>1, <3>2, <3>3 DEF IdsAreIssued
  <2>6. \A w \in Window, j \in Ids : (TakesPart(w, j)' <=> TakesPart(w, j)) /\ (SaidYes(w, j)' <=> SaidYes(w, j))
    BY <2>1, SameBatch
  <2>7. NoCloseReturns
    BY <2>2, <2>6 DEF NoCloseReturns
  <2>8. GatesAreHeld'
    BY <1>3, <2>2 DEF GatesAreHeld, CloseInv, SavedIsNotBehind, StoppedHere
  <2>9. \A w \in Window : Stays(w) /\ SavesInTime(w)
    BY <1>3, <2>1, <2>6 DEF Stays, SavesInTime, SaidYes
  <2> QED BY <2>2, <2>3, <2>4, <2>5, <2>7, <2>8, <2>9, CloseStepEnds
<1> QED BY <1>2, <1>3 DEF DecideClose

LEMMA CloserStepIsSound ==
  ASSUME CloseInv, NEW i \in Ids, ~closes.committed, CloserStep(i)
  PROVE  CloseInv'
BY PauseJobsIsSound, JobsDrainedIsSound, PauseSavesIsSound, SavesDrainedIsSound, CloserFailsIsSound,
   DecideCloseIsSound DEF CloserStep
-----------------------------------------------------------------------------
(* The windows.                                                              *)
LEMMA SameThreads ==
  ASSUME CloseInv, UNCHANGED <<gates, closers>>
  PROVE  GatesAreHeld' /\ \A i \in Ids : (IsVault(i)' <=> IsVault(i)) /\ (Past(i)' <=> Past(i))
BY SameClosers DEF CloseInv, SavedIsNotBehind, GatesAreHeld

LEMMA CloseNoteIsSound ==
  ASSUME CloseInv, NEW w \in Popout, CloseNote(w)
  PROVE  CloseInv'
<1>1. CloseTypeOK /\ closes \in Book /\ AsksAreKept /\ IdsAreIssued
  BY DEF CloseInv, CloseTypeOK
<1>2. /\ w \in shown /\ closes.pending.id = 0 /\ ~closes.committed /\ closes.notes[w].id = 0
      /\ Move(1) /\ closes' = [closes EXCEPT !.notes[w] = [id |-> counts'.ids, saved |-> "unknown"]]
      /\ leavers' = leavers \cup {[window |-> w, id |-> counts'.ids]}
      /\ notices' = Notified({w}, counts'.ids, "prepare")
      /\ UNCHANGED <<shown, pages, gates, closers, main>>
  BY DEF CloseNote
<1>3. /\ counts' \in [ids : CloseId, moves : Nat] /\ counts'.ids = counts.ids + 1
      /\ counts.ids \in Nat /\ counts'.ids \in Ids /\ counts'.ids > counts.ids
  BY <1>1, <1>2, MovedCounts
<1> PICK id \in Ids : id = counts'.ids
  BY <1>3
<1> PICK b \in Book : b = closes
  BY <1>1
<1> PICK entry \in [id : CloseId, saved : {"unknown", "yes", "no"}] : entry = [id |-> id, saved |-> "unknown"]
  BY EmptyBatch
<1>4. entry.id = id /\ entry.saved = "unknown"
  OBVIOUS
<1>5. /\ closes' \in Book /\ closes'.committed = b.committed /\ closes'.pending = b.pending
      /\ closes'.asks = b.asks
      /\ closes'.notes[w] = entry /\ \A v \in Popout : v # w => closes'.notes[v] = b.notes[v]
  <2>1. closes' = Entered(b, w, entry)
    BY <1>2 DEF Entered
  <2> QED BY <2>1, NotesBook
<1>6. Sent({w}, id, "prepare")
  <2>0. {w} \in SUBSET Window
    BY DEF Window
  <2> PICK told \in SUBSET Window : told = {w}
    BY <2>0
  <2>1. notices' = Notified(told, id, "prepare") /\ id \in CloseId /\ id # 0
    BY <1>2, EmptyBatch
  <2>2. Sent(told, id, "prepare")
    BY <1>1, <2>1, NotifiedIsSent
  <2> QED BY <2>2
<1>7. PICK note \in Notice : note.id = id /\ note.phase = "prepare" /\ notices'[w] = Append(notices[w], note)
  BY <1>6 DEF Sent, Window
<1>8. GatesAreHeld' /\ \A i \in Ids : (IsVault(i)' <=> IsVault(i)) /\ (Past(i)' <=> Past(i))
  BY <1>2, SameThreads
<1>9. ~IsVault(id) /\ id \in Nat /\ \A i \in Ids : i \in Nat
  BY <1>1, <1>3, EmptyBatch DEF IdsAreIssued
<1>10. CloseTypeOK'
  <2>1. [window |-> w, id |-> id] \in [window : Popout, id : Ids]
    OBVIOUS
  <2> QED BY <1>1, <1>2, <1>3, <1>5, <1>6, <2>1 DEF CloseTypeOK, Sent
<1>11. AsksAreKept'
  <2>1. \A r \in Asker : closes.asks[r].batch \in Nat
    BY <1>1, EmptyBatch DEF Book, Ask
  <2>2. \A r \in Asker : closes.asks[r].batch <= counts'.ids
    BY <1>1, <1>3, <2>1 DEF AsksAreKept
  <2> QED BY <1>1, <1>5, <2>2 DEF AsksAreKept
<1>12. IdsAreIssued'
  <2>1. \A i \in Ids : IsVault(i)' => i <= counts'.ids
    BY <1>1, <1>3, <1>8, <1>9 DEF IdsAreIssued
  <2>2. \A l \in leavers' : l.id <= counts'.ids /\ ~IsVault(l.id)'
    <3>1. ASSUME NEW l \in leavers PROVE l.id <= counts'.ids /\ ~IsVault(l.id)'
      <4>1. l.id \in Ids /\ l.id <= counts.ids /\ ~IsVault(l.id)
        BY <1>1 DEF IdsAreIssued, CloseTypeOK
      <4>2. PICK i \in Ids : i = l.id
        BY <4>1
      <4>3. ~IsVault(i)' /\ i <= counts'.ids
        BY <1>3, <1>8, <1>9, <4>1, <4>2
      <4> QED BY <4>2, <4>3 DEF IsVault
    <3>2. ASSUME NEW l, l = [window |-> w, id |-> id] PROVE l.id <= counts'.ids /\ ~IsVault(l.id)'
      <4>1. ~IsVault(id)' /\ id <= counts'.ids
        BY <1>8, <1>9
      <4> QED BY <3>2, <4>1 DEF IsVault
    <3> QED BY <1>2, <3>1, <3>2
  <2>3. \A v \in Popout : closes'.notes[v].id # 0 =>
          closes'.notes[v].id <= counts'.ids /\ ~IsVault(closes.notes[v].id)' /\ v \in shown'
    <3> SUFFICES ASSUME NEW v \in Popout, NEW i \in Ids, i = closes'.notes[v].id
                 PROVE  i <= counts'.ids /\ ~IsVault(i)' /\ v \in shown'
      BY <1>5, EmptyBatch DEF Book, IsVault
    <3>1. CASE v = w
      BY <1>2, <1>4, <1>5, <1>8, <1>9, <3>1
    <3>2. CASE v # w
      <4>1. i = closes.notes[v].id /\ i # 0
        BY <1>5, <3>2, EmptyBatch
      <4>2. i <= counts.ids /\ ~IsVault(i) /\ v \in shown
        BY <1>1, <4>1 DEF IdsAreIssued
      <4> QED BY <1>2, <1>3, <1>8, <1>9, <4>2
    <3> QED BY <3>1, <3>2
  <2>4. \A v \in Window : pages'[v].on <= counts'.ids
    BY <1>2, <1>3, IssuedAreOld, EmptyBatch
  <2>5. \A v \in Window : \A n \in DOMAIN notices'[v] : notices'[v][n].id <= counts'.ids
    <3> TAKE v \in Window
    <3>0. \A x \in Nat : x <= counts.ids => x <= counts'.ids
      BY <1>3
    <3>a. \A n \in DOMAIN notices[v] : notices[v][n].id \in Nat /\ notices[v][n].id <= counts.ids
      BY <1>9, IssuedAreOld
    <3>1. notices[v] \in Seq(Notice) /\ \A n \in DOMAIN notices[v] : notices[v][n].id <= counts'.ids
      BY <3>0, <3>a, IssuedAreOld
    <3>2. CASE v # w
      BY <1>6, <3>1, <3>2 DEF Sent
    <3>3. CASE v = w
      <4> PICK s \in Seq(Notice) : s = notices[v] /\ \A n \in DOMAIN s : s[n].id <= counts'.ids
        BY <3>1
      <4>1. notices'[v] = Append(s, note)
        BY <1>7, <3>3
      <4>2. note.id <= counts'.ids
        BY <1>7, <1>9
      <4>3. \A n \in DOMAIN Append(s, note) : \/ n \in DOMAIN s /\ Append(s, note)[n] = s[n]
                                              \/ Append(s, note)[n] = note
        BY ONLY s \in Seq(Notice), note \in Notice
      <4> QED BY ONLY <4>1, <4>2, <4>3, \A n \in DOMAIN s : s[n].id <= counts'.ids
    <3> QED BY <3>2, <3>3
  <2> QED BY <1>2, <1>5, <2>1, <2>2, <2>3, <2>4, <2>5 DEF IdsAreIssued
<1>13. \A v \in Window, j \in Ids : /\ TakesPart(v, j)' => TakesPart(v, j) \/ (v = w /\ j = id)
                                    /\ TakesPart(w, j)' => j = id
                                    /\ SaidYes(v, j)' => SaidYes(v, j)
  BY <1>2, <1>4, <1>5, EmptyBatch DEF TakesPart, SaidYes
<1>14. NoCloseReturns
  BY <1>3, <1>8, <1>13 DEF NoCloseReturns
<1>15. \A v \in Window : v # w => notices'[v] = notices[v]
  BY <1>6 DEF Sent
<1>16. \A v \in Window : Stays(v) /\ SavesInTime(v)
  <2> TAKE v \in Window
  <2>1. ~IsVault(note.id)' /\ (\A j \in Ids : TakesPart(w, j)' => Harmless(j, note)')
    <3>1. ~IsVault(id)'
      BY <1>8, <1>9
    <3> QED BY <1>7, <1>13, <3>1 DEF Harmless, IsVault
  <2>2. closes'.pending.id = 0
    BY <1>2, <1>5
  <2>3. CASE v # w
    BY <1>2, <1>13, <1>15, <2>2, <2>3 DEF Stays, SavesInTime
  <2>4. CASE v = w
    BY <1>2, <1>7, <1>13, <2>1, <2>2, <2>4 DEF Stays, SavesInTime
  <2> QED BY <2>3, <2>4
<1> QED BY <1>8, <1>10, <1>11, <1>12, <1>14, <1>16, CloseStepEnds

(* A window is destroyed.                                                    *)
LEMMA VanishIsSound ==
  ASSUME CloseInv, NEW w \in Popout, Vanishes(w), leavers' \subseteq leavers,
         UNCHANGED <<gates, closers, main, counts>>
  PROVE  CloseInv'
<1>1. CloseTypeOK /\ closes \in Book /\ AsksAreKept /\ IdsAreIssued
  BY DEF CloseInv, CloseTypeOK
<1> PICK b \in Book : b = closes
  BY <1>1
<1>2. shown' = shown \ {w} /\ closes' = Destroyed(b, w)
      /\ notices' = [notices EXCEPT ![w] = <<>>] /\ pages' = [pages EXCEPT ![w] = NewPage(0)]
  BY DEF Vanishes
<1>3. /\ closes' \in Book /\ closes'.committed = b.committed
      /\ closes'.asks = b.asks /\ closes'.notes[w].id = 0
      /\ \A v \in Popout : v # w => closes'.notes[v] = b.notes[v]
      /\ closes'.pending.id = b.pending.id
      /\ closes'.pending.windows = b.pending.windows
      /\ closes'.pending.waiting = b.pending.waiting
      /\ closes'.pending.failed <=> (b.pending.failed \/ w \in b.pending.windows)
  BY <1>2, DestroyedBook
<1>4. /\ NewPage(0) \in Page /\ NewPage(0).on = 0 /\ NewPage(0).step = "idle"
      /\ <<>> \in Seq(Notice)
  BY EmptyBatch DEF NewPage, Page
<1>5. /\ pages' \in [Window -> Page] /\ notices' \in [Window -> Seq(Notice)] /\ w \in Window
      /\ notices'[w] = <<>> /\ pages'[w] = NewPage(0)
      /\ \A v \in Window : v # w => notices'[v] = notices[v] /\ pages'[v] = pages[v]
  BY <1>1, <1>2, <1>4 DEF CloseTypeOK, Window
<1>6. CloseTypeOK'
  BY <1>1, <1>2, <1>3, <1>5 DEF CloseTypeOK
<1>7. AsksAreKept'
  BY <1>1, <1>3 DEF AsksAreKept
<1>8. GatesAreHeld' /\ \A i \in Ids : (IsVault(i)' <=> IsVault(i)) /\ (Past(i)' <=> Past(i))
  BY SameThreads
<1>9. IdsAreIssued'
  <2>1. \A l \in leavers' : l.id <= counts.ids /\ ~IsVault(l.id)'
    BY <1>1 DEF IdsAreIssued, IsVault
  <2>2. \A v \in Popout : closes'.notes[v].id # 0 =>
          closes'.notes[v].id <= counts.ids /\ ~IsVault(closes.notes[v].id)' /\ v \in shown'
    BY <1>1, <1>2, <1>3 DEF IdsAreIssued, IsVault
  <2>3. closes'.pending.id # 0 =>
          /\ IsVault(closes.pending.id)'
          /\ ~closes'.committed => closers'[closes'.pending.id].step # "gone"
          /\ \A v \in Popout : closes'.notes[v].id = 0
          /\ ~closes'.pending.failed => closes'.pending.windows \subseteq shown'
    BY <1>1, <1>2, <1>3 DEF IdsAreIssued, IsVault
  <2>4. \A v \in Window : /\ pages'[v].on <= counts.ids
                          /\ \A n \in DOMAIN notices'[v] : notices'[v][n].id <= counts.ids
    <3> TAKE v \in Window
    <3>1. CASE v = w
      BY <1>4, <1>5, <3>1, IssuedAreOld
    <3>2. CASE v # w
      BY <1>1, <1>5, <3>2 DEF IdsAreIssued
    <3> QED BY <3>1, <3>2
  <2> QED BY <1>1, <1>8, <2>1, <2>2, <2>3, <2>4 DEF IdsAreIssued
<1>10. \A v \in Window, j \in Ids : /\ TakesPart(v, j)' => TakesPart(v, j) /\ v # w
                                    /\ SaidYes(v, j)' => SaidYes(v, j) /\ v # w
  BY <1>3, EmptyBatch DEF TakesPart, SaidYes
<1>11. NoCloseReturns
  BY <1>8, <1>10 DEF NoCloseReturns
<1>12. \A v \in Window : SavesInTime(v) /\ (Stays(v) \/ StaysOut(v))
  <2> TAKE v \in Window
  <2>1. closes'.pending.id # 0 =>
          (SaidYes(v, closes.pending.id)' => SaidYes(v, closes.pending.id) /\ v # w)
    BY <1>3, EmptyBatch DEF SaidYes
  <2>2. CASE v = w
    BY <1>4, <1>5, <1>10, <2>1, <2>2 DEF SavesInTime, StaysOut
  <2>3. CASE v # w
    BY <1>3, <1>5, <1>10, <2>1, <2>3 DEF SavesInTime, Stays
  <2> QED BY <2>2, <2>3
<1> QED BY <1>6, <1>7, <1>8, <1>9, <1>11, <1>12, CloseStepEnds

LEMMA FinishNoteIsSound ==
  ASSUME CloseInv, NEW l \in leavers, FinishNote(l)
  PROVE  CloseInv'
<1>1. CloseTypeOK /\ closes \in Book /\ AsksAreKept /\ IdsAreIssued
  BY DEF CloseInv, CloseTypeOK
<1> PICK w \in Popout, id \in Ids : w = l.window /\ id = l.id
  BY <1>1 DEF CloseTypeOK
<1> PICK b \in Book : b = closes
  BY <1>1
<1>2. leavers' \subseteq leavers /\ UNCHANGED <<gates, closers, main, counts>>
  BY DEF FinishNote
<1>3. CASE Vanishes(w)
  BY <1>2, <1>3, VanishIsSound
<1>4. CASE /\ closes' = IF b.notes[w].id = id
                        THEN [b EXCEPT !.notes[w] = [id |-> 0, saved |-> "unknown"]] ELSE b
           /\ notices' = Notified({w} \cap shown, id, "cancel") /\ UNCHANGED <<shown, pages>>
  <2> PICK entry \in [id : CloseId, saved : {"unknown", "yes", "no"}] : entry = [id |-> 0, saved |-> "unknown"]
    BY EmptyBatch
  <2>1. entry.id = 0
    OBVIOUS
  <2>2. /\ closes' \in Book /\ closes'.committed = b.committed /\ closes'.pending = b.pending
        /\ closes'.asks = b.asks /\ \A v \in Popout : v # w => closes'.notes[v] = b.notes[v]
        /\ \/ closes'.notes[w] = b.notes[w] /\ b.notes[w].id # id
           \/ closes'.notes[w].id = 0 /\ b.notes[w].id = id
    <3>1. CASE b.notes[w].id = id
      <4>1. closes' = Entered(b, w, entry)
        BY <1>4, <3>1 DEF Entered
      <4> QED BY <2>1, <3>1, <4>1, NotesBook
    <3>2. CASE b.notes[w].id # id
      BY <1>4, <3>2
    <3> QED BY <3>1, <3>2
  <2>3. id # 0 /\ id \in CloseId /\ id <= counts.ids /\ ~IsVault(id)
    BY <1>1, EmptyBatch DEF IdsAreIssued
  <2> PICK told \in SUBSET {w} : told = {w} \cap shown
    OBVIOUS
  <2>4. told \in SUBSET Window /\ w \in Window
    BY DEF Window
  <2>5. Sent(told, id, "cancel")
    BY <1>1, <1>4, <2>3, <2>4, NotifiedIsSent
  <2>6. /\ \A v \in Window : v # w => notices'[v] = notices[v]
        /\ \/ notices'[w] = notices[w]
           \/ \E n \in Notice : n.id = id /\ n.phase = "cancel" /\ notices'[w] = Append(notices[w], n)
    BY <2>4, <2>5 DEF Sent
  <2>7. CloseTypeOK'
    BY <1>1, <1>2, <1>4, <2>2, <2>5 DEF CloseTypeOK, Sent
  <2>8. AsksAreKept'
    BY <1>1, <1>2, <2>2 DEF AsksAreKept
  <2>9. GatesAreHeld' /\ \A i \in Ids : (IsVault(i)' <=> IsVault(i)) /\ (Past(i)' <=> Past(i))
    BY <1>2, SameThreads
  <2>10. IdsAreIssued'
    <3>1. \A v \in Window : \A n \in DOMAIN notices'[v] : notices'[v][n].id <= counts.ids
      BY <2>3, <2>4, <2>5, SentAreIssued
    <3>2. \A k \in leavers' : k.id <= counts.ids /\ ~IsVault(k.id)'
      BY <1>1, <1>2 DEF IdsAreIssued, IsVault
    <3>3. \A v \in Popout : closes'.notes[v].id # 0 =>
            closes'.notes[v].id <= counts.ids /\ ~IsVault(closes.notes[v].id)' /\ v \in shown'
      BY <1>1, <1>2, <1>4, <2>2 DEF IdsAreIssued, IsVault
    <3>4. closes'.pending.id # 0 =>
            /\ IsVault(closes.pending.id)'
            /\ ~closes'.committed => closers'[closes'.pending.id].step # "gone"
            /\ \A v \in Popout : closes'.notes[v].id = 0
            /\ ~closes'.pending.failed => closes'.pending.windows \subseteq shown'
      BY <1>1, <1>2, <1>4, <2>2 DEF IdsAreIssued, IsVault
    <3> QED BY <1>1, <1>2, <1>4, <2>9, <3>1, <3>2, <3>3, <3>4 DEF IdsAreIssued
  <2>11. \A v \in Window, j \in Ids : /\ TakesPart(v, j)' => TakesPart(v, j)
                                      /\ SaidYes(v, j)' => SaidYes(v, j)
    BY <2>2, EmptyBatch DEF TakesPart, SaidYes
  <2>12. NoCloseReturns
    BY <2>9, <2>11 DEF NoCloseReturns
  <2>13. \A v \in Window : closes'.pending.id # 0 /\ SaidYes(v, closes.pending.id)' =>
                             closes'.pending.id = closes.pending.id /\ SaidYes(v, closes.pending.id)
    BY <2>2, EmptyBatch DEF SaidYes
  <2>14. \A v \in Window : SavesInTime(v)
    BY <1>4, <2>6, <2>13 DEF SavesInTime
  <2>15. \A v \in Window : v # w => Stays(v)
    BY <1>4, <2>6, <2>11 DEF Stays
  <2>16. Stays(w) \/ StaysOut(w)
    <3>1. CASE b.notes[w].id = id
      <4>1. closes'.notes[w].id = 0 /\ closes'.pending.id = 0
        BY <1>1, <2>2, <2>3, <3>1 DEF IdsAreIssued
      <4> QED BY <4>1, EmptyBatch DEF StaysOut, TakesPart
    <3>2. CASE b.notes[w].id # id
      <4>1. \A j \in Ids : TakesPart(w, j) => j # id
        BY <1>1, <2>3, <3>2 DEF TakesPart, IdsAreIssued
      <4>2. \A n \in Notice : n.id = id /\ n.phase = "cancel" => \A j \in Ids : TakesPart(w, j)' => Harmless(j, n)'
        <5>1. ~IsVault(id)'
          BY <2>3, <2>9
        <5>2. \A j \in Ids : TakesPart(w, j)' => j # id
          BY <2>4, <2>11, <4>1
        <5> SUFFICES ASSUME NEW n \in Notice, n.id = id, n.phase = "cancel", NEW j \in Ids, j # id
                     PROVE  Harmless(j, n)'
          BY <5>2
        <5>3. ~(n.id \in Ids /\ closers'[n.id].step # "none")
          BY <5>1 DEF IsVault
        <5>4. n.id # j /\ ~(n.phase # "cancel")
          OBVIOUS
        <5> QED BY <5>3, <5>4 DEF Harmless, IsVault
      <4> QED BY <1>4, <2>4, <2>6, <2>11, <4>2 DEF Stays
    <3> QED BY <3>1, <3>2
  <2> QED BY <2>7, <2>8, <2>9, <2>10, <2>12, <2>14, <2>15, <2>16, CloseStepEnds
<1> QED BY <1>3, <1>4 DEF FinishNote

(* The book and the threads stay as they are.                                *)
LEMMA PageStep ==
  ASSUME CloseInv, UNCHANGED <<closes, closers, leavers, main>>,
         shown' \subseteq Window, shown \subseteq shown',
         pages' \in [Window -> Page], notices' \in [Window -> Seq(Notice)],
         counts' \in [ids : CloseId, moves : Nat], counts'.ids = counts.ids,
         gates' \in [{"jobs", "saves"} -> [busy : BOOLEAN, by : CloseId]], GatesAreHeld',
         \A w \in Window : /\ pages'[w].on <= counts.ids
                           /\ \A n \in DOMAIN notices'[w] : notices'[w][n].id <= counts.ids,
         \A w \in Window : SavesInTime(w) /\ (Stays(w) \/ Hears(w) \/ StaysOut(w))
  PROVE  CloseInv'
<1>1. CloseTypeOK'
  BY DEF CloseInv, CloseTypeOK
<1>2. IdsAreIssued'
  BY DEF CloseInv, IdsAreIssued, IsVault
<1>3. AsksAreKept'
  BY DEF CloseInv, AsksAreKept
<1>4. NoCloseReturns
  BY SameBatch, SameClosers DEF NoCloseReturns
<1> QED BY <1>1, <1>2, <1>3, <1>4, SameClosers, CloseStepEnds

LEMMA OpenNoteIsSound ==
  ASSUME CloseInv, NEW w \in Popout, OpenNote(w)
  PROVE  CloseInv'
<1>1. CloseTypeOK /\ closes \in Book /\ IdsAreIssued
  BY DEF CloseInv, CloseTypeOK
<1>2. /\ w \notin shown /\ ~closes.committed /\ Move(0) /\ shown' = shown \cup {w}
      /\ pages' = [pages EXCEPT ![w] = NewPage(counts.ids)]
      /\ UNCHANGED <<closes, notices, gates, closers, leavers, main>>
  BY DEF OpenNote
<1>3. /\ counts' \in [ids : CloseId, moves : Nat] /\ counts'.ids = counts.ids
      /\ counts.ids \in CloseId /\ 0 <= counts.ids
  BY <1>1, <1>2, MovedCounts, EmptyBatch DEF CloseTypeOK
<1>4. NewPage(counts.ids) \in Page /\ NewPage(counts.ids).on = 0 /\ NewPage(counts.ids).step = "idle"
  BY <1>3, EmptyBatch DEF NewPage, Page
<1>5. /\ pages' \in [Window -> Page] /\ w \in Window /\ pages'[w] = NewPage(counts.ids)
      /\ \A v \in Window : v # w => pages'[v] = pages[v]
  BY <1>1, <1>2, <1>4 DEF CloseTypeOK, Window
<1>6. StaysOut(w) /\ \A v \in Window, j \in Ids : SaidYes(v, j)' <=> SaidYes(v, j)
  <2>1. \A j \in Ids : ~TakesPart(w, j)
    BY <1>1, <1>2, EmptyBatch DEF TakesPart, IdsAreIssued
  <2> QED BY <1>2, <1>5, <2>1, SameBatch DEF StaysOut
<1>7. \A v \in Window : SavesInTime(v) /\ (Stays(v) \/ StaysOut(v))
  <2> TAKE v \in Window
  <2>1. closes'.pending.id = 0 \/ (SaidYes(v, closes.pending.id)' => SaidYes(v, closes.pending.id) /\ v # w)
    <3>1. closes'.pending.id \in CloseId
      BY <1>1, <1>2 DEF Book, Batch
    <3>2. \A j \in Ids : SaidYes(v, j)' => SaidYes(v, j) /\ v # w
      BY <1>6 DEF StaysOut, SaidYes, TakesPart
    <3> QED BY <1>2, <3>1, <3>2, EmptyBatch DEF SaidYes
  <2>2. CASE v = w
    BY <1>2, <1>4, <1>5, <1>6, <2>1, <2>2 DEF SavesInTime
  <2>3. CASE v # w
    BY <1>2, <1>5, <1>6, <2>1, <2>3 DEF SavesInTime, Stays
  <2> QED BY <2>2, <2>3
<1>8. \A v \in Window : pages'[v].on <= counts.ids
  BY <1>3, <1>4, <1>5, IssuedAreOld
<1>9. GatesAreHeld'
  BY <1>2, SameThreads
<1> QED BY <1>1, <1>2, <1>3, <1>5, <1>7, <1>8, <1>9, PageStep DEF CloseTypeOK, IdsAreIssued

LEMMA HeardIsPage ==
  ASSUME NEW p \in Page, NEW n \in Notice
  PROVE  Heard(p, n) \in Page /\ Heard(p, n).on \in {0, p.on, n.id} /\ Heard(p, n).behind = p.behind
BY EmptyBatch DEF Heard, Page, Notice

LEMMA HearNoticeIsSound ==
  ASSUME CloseInv, NEW w \in Window, HearNotice(w)
  PROVE  CloseInv'
<1>1. CloseTypeOK
  BY DEF CloseInv
<1>2. /\ notices[w] # <<>> /\ notices' = [notices EXCEPT ![w] = Tail(notices[w])]
      /\ pages' = [pages EXCEPT ![w] = Heard(pages[w], Head(notices[w]))]
      /\ UNCHANGED <<shown, closes, gates, closers, leavers, main, counts>>
  BY DEF HearNotice
<1>3. /\ notices[w] \in Seq(Notice) /\ pages[w] \in Page /\ pages[w].on <= counts.ids
      /\ Head(notices[w]) = notices[w][1] /\ 1 \in DOMAIN notices[w]
      /\ notices[w][1] \in Notice /\ notices[w][1].id <= counts.ids /\ counts.ids \in Nat
  BY <1>1, <1>2, IssuedAreOld DEF CloseTypeOK
<1> PICK note \in Notice : note = Head(notices[w])
  BY <1>3
<1>4. /\ Heard(pages[w], note) \in Page /\ Heard(pages[w], note).on <= counts.ids
      /\ Heard(pages[w], note).behind = pages[w].behind
  <2> PICK p \in Page : p = pages[w]
    BY <1>3
  <2>1. note.id <= counts.ids /\ p.on <= counts.ids /\ 0 <= counts.ids
    BY <1>3
  <2>2. /\ Heard(p, note) \in Page /\ Heard(p, note).on \in {0, p.on, note.id}
        /\ Heard(p, note).behind = p.behind
    BY HeardIsPage
  <2> QED BY <2>1, <2>2
<1>5. /\ pages' \in [Window -> Page] /\ pages'[w] = Heard(pages[w], Head(notices[w]))
      /\ \A v \in Window : v # w => pages'[v] = pages[v]
  BY <1>1, <1>2, <1>4 DEF CloseTypeOK
<1>6. /\ notices' \in [Window -> Seq(Notice)] /\ notices'[w] = Tail(notices[w])
      /\ \A v \in Window : v # w => notices'[v] = notices[v]
  BY <1>1, <1>2, <1>3 DEF CloseTypeOK
<1>7. \A v \in Window : \A n \in DOMAIN notices'[v] : notices'[v][n].id <= counts.ids
  <2> TAKE v \in Window
  <2>1. notices[v] \in Seq(Notice) /\ \A n \in DOMAIN notices[v] : notices[v][n].id <= counts.ids
    BY IssuedAreOld
  <2>2. CASE v = w
    BY <1>2, <1>6, <2>1, <2>2
  <2>3. CASE v # w
    BY <1>6, <2>1, <2>3
  <2> QED BY <2>2, <2>3
<1>8. \A v \in Window : pages'[v].on <= counts.ids
  BY <1>4, <1>5, IssuedAreOld
<1>9. \A v \in Window, j \in Ids : SaidYes(v, j)' <=> SaidYes(v, j)
  BY <1>2, SameBatch
<1>10. \A v \in Window : closes'.pending.id # 0 /\ SaidYes(v, closes.pending.id)' => SaidYes(v, closes.pending.id)
  BY <1>2 DEF SaidYes
<1>11. SavesInTime(w) /\ Hears(w)
  BY <1>2, <1>4, <1>5, <1>6, <1>9, <1>10 DEF SavesInTime, Hears
<1>12. \A v \in Window : v # w => SavesInTime(v) /\ Stays(v)
  BY <1>2, <1>5, <1>6, <1>9, <1>10 DEF SavesInTime, Stays
<1>13. GatesAreHeld'
  BY <1>2, SameThreads
<1> QED BY <1>1, <1>2, <1>5, <1>6, <1>7, <1>8, <1>11, <1>12, <1>13, PageStep DEF CloseTypeOK

LEMMA EditIsSound ==
  ASSUME CloseInv, NEW w \in Window, Edit(w)
  PROVE  CloseInv'
<1>1. CloseTypeOK
  BY DEF CloseInv
<1>2. /\ pages[w].on = 0 /\ pages' = [pages EXCEPT ![w].dirty = ~@]
      /\ UNCHANGED <<shown, closes, notices, gates, closers, leavers, main, counts>>
  BY DEF Edit
<1>3. /\ pages' \in [Window -> Page] /\ \A v \in Window : v # w => pages'[v] = pages[v]
      /\ pages'[w].on = pages[w].on /\ pages'[w].step = pages[w].step /\ pages'[w].behind = pages[w].behind
  <2> DEFINE dirty == ~pages[w].dirty
             page == [pages[w] EXCEPT !.dirty = dirty]
  <2>1. dirty \in BOOLEAN /\ pages[w] \in Page /\ pages \in [Window -> Page]
    BY <1>1 DEF CloseTypeOK
  <2>2. pages' = [pages EXCEPT ![w] = page]
    BY <1>2, <2>1 DEF Page
  <2> HIDE DEF dirty
  <2>3. page \in Page /\ page.on = pages[w].on /\ page.step = pages[w].step /\ page.behind = pages[w].behind
    BY <2>1 DEF Page
  <2> HIDE DEF page
  <2> QED BY <2>1, <2>2, <2>3
<1>4. \A v \in Window, j \in Ids : SaidYes(v, j)' <=> SaidYes(v, j)
  BY <1>2, SameBatch
<1>5. \A v \in Window : closes'.pending.id # 0 /\ SaidYes(v, closes.pending.id)' => SaidYes(v, closes.pending.id)
  BY <1>2 DEF SaidYes
<1>6. \A v \in Window : SavesInTime(v) /\ Stays(v)
  BY <1>2, <1>3, <1>4, <1>5 DEF SavesInTime, Stays
<1>7. GatesAreHeld'
  BY <1>2, SameThreads
<1>8. \A v \in Window : pages'[v].on <= counts.ids
  BY <1>3, IssuedAreOld
<1> QED BY <1>1, <1>2, <1>3, <1>6, <1>7, <1>8, PageStep, IssuedAreOld DEF CloseTypeOK

LEMMA EnterIsSound ==
  ASSUME CloseInv, NEW g \in {"jobs", "saves"}, Enter(g)
  PROVE  CloseInv'
<1>1. CloseTypeOK /\ gates \in [{"jobs", "saves"} -> [busy : BOOLEAN, by : CloseId]]
  BY DEF CloseInv, CloseTypeOK
<1>2. /\ gates[g].by = 0 /\ gates' = [gates EXCEPT ![g].busy = TRUE]
      /\ UNCHANGED <<shown, closes, pages, notices, closers, leavers, main, counts>>
  BY DEF Enter
<1>3. /\ gates' \in [{"jobs", "saves"} -> [busy : BOOLEAN, by : CloseId]]
      /\ \A h \in {"jobs", "saves"} : gates'[h].by = gates[h].by /\ (gates[h].by # 0 => gates'[h] = gates[h])
  BY <1>1, <1>2
<1>4. GatesAreHeld'
  BY <1>2, <1>3, EmptyBatch DEF CloseInv, SavedIsNotBehind, GatesAreHeld
<1>5. \A v \in Window, j \in Ids : SaidYes(v, j)' <=> SaidYes(v, j)
  BY <1>2, SameBatch
<1>6. \A v \in Window : SavesInTime(v) /\ Stays(v)
  BY <1>2, <1>5 DEF SavesInTime, Stays, SaidYes
<1> QED BY <1>1, <1>2, <1>3, <1>4, <1>6, PageStep, IssuedAreOld DEF CloseTypeOK

LEMMA FinishIsSound ==
  ASSUME CloseInv, ~closes.committed, NEW g \in {"jobs", "saves"}, Finish(g)
  PROVE  CloseInv'
<1>1. CloseTypeOK /\ gates \in [{"jobs", "saves"} -> [busy : BOOLEAN, by : CloseId]]
  BY DEF CloseInv, CloseTypeOK
<1>2. /\ gates[g].busy /\ gates' = [gates EXCEPT ![g].busy = FALSE]
      /\ pages' = [w \in Window |-> [pages[w] EXCEPT !.behind = @ \/ (g = "jobs" /\ w \in shown)]]
      /\ UNCHANGED <<shown, closes, notices, closers, leavers, main, counts>>
  BY DEF Finish
<1>3. /\ gates' \in [{"jobs", "saves"} -> [busy : BOOLEAN, by : CloseId]]
      /\ \A h \in {"jobs", "saves"} : gates'[h].by = gates[h].by /\ (gates'[h].busy => gates[h].busy)
  BY <1>1, <1>2
<1>4. GatesAreHeld'
  BY <1>2, <1>3 DEF CloseInv, SavedIsNotBehind, GatesAreHeld
<1>5. /\ pages' \in [Window -> Page]
      /\ \A w \in Window : /\ pages'[w].on = pages[w].on /\ pages'[w].step = pages[w].step
                           /\ pages'[w].dirty = pages[w].dirty
                           /\ g # "jobs" => pages'[w].behind = pages[w].behind
  <2>1. \A w \in Window : pages[w] \in Page /\ (pages[w].behind \/ (g = "jobs" /\ w \in shown)) \in BOOLEAN
    BY <1>1 DEF CloseTypeOK, Page
  <2> QED BY <1>2, <2>1 DEF Page
<1>6. \A w \in Window, j \in Ids : SaidYes(w, j)' <=> SaidYes(w, j)
  BY <1>2, SameBatch
(* A window said that it saved only while no service's job was running.      *)
<1>7. g = "jobs" => \A w \in Window : closes.pending.id # 0 => ~SaidYes(w, closes.pending.id)
  <2> SUFFICES ASSUME g = "jobs", NEW w \in Window, closes.pending.id # 0, SaidYes(w, closes.pending.id)
               PROVE  FALSE
    OBVIOUS
  <2> PICK i \in Ids : i = closes.pending.id
    BY <1>1, EmptyBatch DEF CloseTypeOK, Book, Batch
  <2>1. closers[i].step \in StoppedHere
    BY DEF CloseInv, IdsAreIssued, SavedIsNotBehind
  <2> QED BY <1>2, <2>1 DEF CloseInv, SavedIsNotBehind
<1>8. \A w \in Window : closes'.pending.id # 0 /\ SaidYes(w, closes.pending.id)' =>
                          SaidYes(w, closes.pending.id) /\ pages'[w].behind = pages[w].behind
  BY <1>2, <1>5, <1>7 DEF SaidYes
<1>9. \A w \in Window : SavesInTime(w) /\ Stays(w)
  BY <1>2, <1>5, <1>6, <1>8 DEF SavesInTime, Stays
<1>10. \A w \in Window : pages'[w].on <= counts.ids
  BY <1>5, IssuedAreOld
<1> QED BY <1>1, <1>2, <1>3, <1>4, <1>5, <1>9, <1>10, PageStep, IssuedAreOld DEF CloseTypeOK

LEMMA FlushIsSound ==
  ASSUME CloseInv, NEW w \in Window, NEW saved \in BOOLEAN, Flush(w, saved)
  PROVE  CloseInv'
<1>1. CloseTypeOK /\ closes \in Book /\ AsksAreKept /\ IdsAreIssued /\ pages[w] \in Page
  BY DEF CloseInv, CloseTypeOK
<1> PICK b \in Book : b = closes
  BY <1>1
<1> PICK on \in CloseId : on = pages[w].on
  BY <1>1 DEF Page
<1>2. /\ pages[w].step = "flush"
      /\ pages' = [pages EXCEPT ![w].step = "done", ![w].dirty = @ /\ ~saved, ![w].behind = @ /\ ~saved]
      /\ closes' = Acknowledged(b, w, on, saved)
      /\ UNCHANGED <<shown, notices, gates, closers, leavers, main, counts>>
  BY DEF Flush
<1>3. /\ pages' \in [Window -> Page] /\ \A v \in Window : v # w => pages'[v] = pages[v]
      /\ pages'[w].on = on
      /\ pages'[w].dirty => pages[w].dirty /\ ~saved
      /\ pages'[w].behind => pages[w].behind /\ ~saved
  <2> DEFINE dirty == pages[w].dirty /\ ~saved
             behind == pages[w].behind /\ ~saved
             page == [pages[w] EXCEPT !.step = "done", !.dirty = dirty, !.behind = behind]
  <2>1. dirty \in BOOLEAN /\ behind \in BOOLEAN /\ (dirty => pages[w].dirty /\ ~saved)
        /\ (behind => pages[w].behind /\ ~saved)
    OBVIOUS
  <2>2. pages' = [pages EXCEPT ![w] = page]
    BY <1>1, <1>2 DEF CloseTypeOK, Page
  <2> HIDE DEF dirty, behind
  <2>3. page \in Page /\ page.on = on /\ page.dirty = dirty /\ page.behind = behind
    BY <1>1, <2>1 DEF Page
  <2> HIDE DEF page
  <2> QED BY <1>1, <2>1, <2>2, <2>3 DEF CloseTypeOK
<1>4. /\ closes' \in Book /\ closes'.committed = b.committed /\ closes'.asks = b.asks
      /\ closes'.pending.id = b.pending.id /\ closes'.pending.windows = b.pending.windows
      /\ \A v \in Popout : closes'.notes[v].id = b.notes[v].id /\ (v # w => closes'.notes[v] = b.notes[v])
      /\ \/ closes'.pending = b.pending
         \/ /\ b.pending.id = on
            /\ closes'.pending.failed <=> (b.pending.failed \/ ~saved)
            /\ closes'.pending.waiting = b.pending.waiting \ {w}
      /\ w \in Popout => \/ closes'.notes[w] = b.notes[w]
                         \/ b.notes[w].id = on /\ (closes'.notes[w].saved = "yes" => saved)
  BY <1>2, AcknowledgedBook
<1>5. CloseTypeOK'
  BY <1>1, <1>2, <1>3, <1>4 DEF CloseTypeOK
<1>6. AsksAreKept'
  BY <1>1, <1>2, <1>4 DEF AsksAreKept
<1>7. closes'.pending.failed \/ ~b.pending.failed
  BY <1>4
<1>8. IdsAreIssued'
  <2>1. \A v \in Window : pages'[v].on <= counts.ids
    BY <1>3, IssuedAreOld
  <2>2. \A v \in Popout : closes'.notes[v].id # 0 =>
          closes'.notes[v].id <= counts.ids /\ ~IsVault(closes.notes[v].id)' /\ v \in shown
    <3> SUFFICES ASSUME NEW v \in Popout, closes'.notes[v].id # 0
                 PROVE  closes'.notes[v].id <= counts.ids /\ ~IsVault(closes.notes[v].id)' /\ v \in shown
      OBVIOUS
    <3>1. closes'.notes[v].id = closes.notes[v].id
      BY <1>4
    <3>2. closes.notes[v].id <= counts.ids /\ ~IsVault(closes.notes[v].id) /\ v \in shown
      BY <1>1, <3>1 DEF IdsAreIssued
    <3> QED BY <1>2, <3>1, <3>2 DEF IsVault
  <2>3. closes'.pending.id # 0 =>
          /\ IsVault(closes.pending.id)'
          /\ ~closes'.committed => closers'[closes'.pending.id].step # "gone"
          /\ \A v \in Popout : closes'.notes[v].id = 0
          /\ ~closes'.pending.failed => closes'.pending.windows \subseteq shown
    <3> SUFFICES ASSUME closes'.pending.id # 0
                 PROVE  /\ IsVault(closes.pending.id)'
                        /\ ~closes'.committed => closers'[closes'.pending.id].step # "gone"
                        /\ \A v \in Popout : closes'.notes[v].id = 0
                        /\ ~closes'.pending.failed => closes'.pending.windows \subseteq shown
      OBVIOUS
    <3>1. /\ closes'.pending.id = closes.pending.id /\ closes'.committed = closes.committed
          /\ closes'.pending.windows = closes.pending.windows
          /\ \A v \in Popout : closes'.notes[v].id = closes.notes[v].id
      BY <1>4
    <3>2. /\ IsVault(closes.pending.id)
          /\ ~closes.committed => closers[closes.pending.id].step # "gone"
          /\ \A v \in Popout : closes.notes[v].id = 0
          /\ ~closes.pending.failed => closes.pending.windows \subseteq shown
      BY <1>1, <3>1 DEF IdsAreIssued
    <3>3. closes'.pending.failed \/ ~closes.pending.failed
      BY <1>7
    <3> QED BY <1>2, <3>1, <3>2, <3>3 DEF IsVault
  <2>4. \A l \in leavers : l.id <= counts.ids /\ ~IsVault(l.id)'
    BY <1>1, <1>2 DEF IdsAreIssued, IsVault
  <2>5. \A i \in Ids : IsVault(i)' => i <= counts.ids
    BY <1>1, <1>2 DEF IdsAreIssued, IsVault
  <2>6. \A v \in Window : \A n \in DOMAIN notices[v] : notices[v][n].id <= counts.ids
    BY <1>1 DEF IdsAreIssued
  <2> QED BY <1>2, <2>1, <2>2, <2>3, <2>4, <2>5, <2>6 DEF IdsAreIssued
<1>9. \A v \in Window, j \in CloseId :
        /\ TakesPart(v, j)' => TakesPart(v, j)
        /\ SaidYes(v, j)' => SaidYes(v, j) \/ (v = w /\ on = j /\ saved)
  <2> TAKE v \in Window, j \in CloseId
  <2>1. v \in Popout /\ closes'.notes[v].id = j /\ closes'.notes[v].saved = "yes" =>
          SaidYes(v, j) \/ (v = w /\ on = j /\ saved)
    BY <1>4 DEF SaidYes
  <2>2. closes'.pending.id = j /\ ~closes'.pending.failed /\ v \in closes'.pending.windows \ closes'.pending.waiting =>
          SaidYes(v, j) \/ (v = w /\ on = j /\ saved)
    BY <1>4 DEF SaidYes
  <2> QED BY <1>4, <1>7, <2>1, <2>2 DEF TakesPart, SaidYes
<1>10. \A v \in Window, j \in Ids : /\ TakesPart(v, j)' => TakesPart(v, j)
                                    /\ SaidYes(v, j)' => SaidYes(v, j) \/ (v = w /\ on = j /\ saved)
  BY <1>9, EmptyBatch
<1>11. GatesAreHeld' /\ \A i \in Ids : (IsVault(i)' <=> IsVault(i)) /\ (Past(i)' <=> Past(i))
  BY <1>2, SameThreads
<1>12. NoCloseReturns
  BY <1>10, <1>11 DEF NoCloseReturns
<1>13. \A v \in Window : Stays(v)
  BY <1>2, <1>3, <1>10 DEF Stays
(* It was told to save after the services had stopped.                       *)
<1>14. closes.pending.id # 0 /\ on = closes.pending.id => Past(closes.pending.id)
  BY <1>1, <1>2 DEF CloseInv, SavedIsNotBehind, IdsAreIssued, Past
<1>15. \A v \in Window : SavesInTime(v)
  <2> TAKE v \in Window
  <2>1. notices'[v] = notices[v]
    BY <1>2
  <2>2. pages'[v].step # "idle" => pages[v].step # "idle" /\ pages'[v].on = pages[v].on
    BY <1>2, <1>3
  <2>3. ASSUME closes'.pending.id # 0, SaidYes(v, closes.pending.id)'
        PROVE  \/ /\ closes'.pending.id = closes.pending.id /\ SaidYes(v, closes.pending.id)
                  /\ pages'[v].behind => pages[v].behind
               \/ Past(closes.pending.id)' /\ ~pages'[v].behind
    <3> PICK j \in Ids : j = closes'.pending.id
      BY <1>4, <2>3, EmptyBatch DEF Book, Batch
    <3>1. SaidYes(v, j)' /\ j = closes.pending.id
      BY <1>4, <2>3 DEF SaidYes
    <3>2. CASE SaidYes(v, j)
      BY <1>3, <1>4, <3>1, <3>2
    <3>3. CASE v = w /\ on = j /\ saved
      <4>1. Past(closes.pending.id)'
        BY <1>2, <1>4, <1>14, <3>1, <3>3, EmptyBatch DEF Past
      <4> QED BY <1>3, <3>3, <4>1
    <3> QED BY <1>10, <3>1, <3>2, <3>3
  <2> QED BY <2>1, <2>2, <2>3 DEF SavesInTime
<1> QED BY <1>5, <1>6, <1>8, <1>11, <1>12, <1>13, <1>15, CloseStepEnds
-----------------------------------------------------------------------------
LEMMA CloseInitIsSound == CloseInit => CloseInv
<1> SUFFICES ASSUME CloseInit PROVE CloseInv
  OBVIOUS
<1>0. NewPage(0) \in Page /\ NewPage(0).on = 0 /\ NewPage(0).step = "idle" /\ ~NewPage(0).dirty
      /\ NoAsk \in Ask /\ NoAsk.batch = 0 /\ ~NoAsk.cancelled /\ NoAsk.progress = "none"
      /\ OpenGate \in [busy : BOOLEAN, by : CloseId]
  BY EmptyBatch DEF NewPage, Page, NoAsk, Ask, OpenGate
<1>1. /\ closes.pending = NoBatch /\ closes.committed = FALSE
      /\ \A w \in Popout : closes.notes[w].id = 0
      /\ \A r \in Asker : closes.asks[r] = NoAsk
      /\ \A w \in Window : pages[w] = NewPage(0) /\ notices[w] = <<>>
      /\ \A i \in Ids : closers[i].step = "none"
      /\ leavers = {} /\ counts.ids = 0
  BY DEF CloseInit, Ids
<1>2. CloseTypeOK
  <2>1. closes \in Book
    <3>1. [w \in Popout |-> [id |-> 0, saved |-> "unknown"]] \in [Popout -> [id : CloseId, saved : {"unknown", "yes", "no"}]]
      BY EmptyBatch
    <3>2. [r \in Asker |-> NoAsk] \in [Asker -> Ask]
      BY <1>0
    <3> QED BY <3>1, <3>2, EmptyBatch DEF CloseInit, Book, Window
  <2>2. pages \in [Window -> Page] /\ notices \in [Window -> Seq(Notice)]
    BY <1>0 DEF CloseInit
  <2>3. gates \in [{"jobs", "saves"} -> [busy : BOOLEAN, by : CloseId]]
    BY <1>0 DEF CloseInit
  <2>4. closers \in [Ids -> [step : Steps, windows : SUBSET Window]]
    BY DEF CloseInit, Steps, Ids
  <2>5. counts \in [ids : CloseId, moves : Nat]
    BY EmptyBatch DEF CloseInit
  <2> QED BY <2>1, <2>2, <2>3, <2>4, <2>5 DEF CloseInit, CloseTypeOK, Window
<1>3. IdsAreIssued
  <2>1. \A w \in Window : pages[w].on <= counts.ids /\ \A n \in DOMAIN notices[w] : notices[w][n].id <= counts.ids
    <3>1. DOMAIN <<>> = {} /\ 0 <= 0
      OBVIOUS
    <3> QED BY <1>0, <1>1, <3>1
  <2> QED BY <1>1, <2>1, EmptyBatch DEF IdsAreIssued, IsVault
<1>4. AsksAreKept
  BY <1>0, <1>1, EmptyBatch DEF AsksAreKept
<1>5. \A w \in Window, j \in Ids : ~TakesPart(w, j)
  BY <1>1, EmptyBatch DEF TakesPart
<1>6. FrozenStay
  BY <1>5 DEF FrozenStay
<1>7. SavedIsNotBehind
  BY <1>0, <1>1, EmptyBatch DEF SavedIsNotBehind, StoppedHere, IsVault
<1> QED BY <1>2, <1>3, <1>4, <1>6, <1>7 DEF CloseInv

LEMMA CloseStepIsSound == CloseInv /\ [CloseNext]_closeVars => CloseInv'
<1> SUFFICES ASSUME CloseInv, [CloseNext]_closeVars PROVE CloseInv'
  OBVIOUS
<1>1. CASE UNCHANGED closeVars
  <2>1. /\ shown' = shown /\ closes' = closes /\ pages' = pages /\ notices' = notices /\ gates' = gates
        /\ closers' = closers /\ leavers' = leavers /\ main' = main /\ counts' = counts
    BY <1>1 DEF closeVars
  <2>2. CloseTypeOK'
    BY <2>1 DEF CloseInv, CloseTypeOK
  <2>3. IdsAreIssued'
    BY <2>1 DEF CloseInv, IdsAreIssued, IsVault
  <2>4. AsksAreKept'
    BY <2>1 DEF CloseInv, AsksAreKept
  <2>5. \A w \in Window, j \in Ids : (TakesPart(w, j)' <=> TakesPart(w, j)) /\ (SaidYes(w, j)' <=> SaidYes(w, j))
    BY ONLY <2>1 DEF TakesPart, SaidYes
  <2>6. FrozenStay'
    BY <2>1, <2>5 DEF CloseInv, FrozenStay, IsVault, Harmless
  <2>7. SavedIsNotBehind'
    BY <2>1 DEF CloseInv, SavedIsNotBehind, IsVault, SaidYes
  <2> QED BY ONLY <2>2, <2>3, <2>4, <2>6, <2>7 DEF CloseInv
<1>2. CASE CloseNext
  <2> DOMAIN gates = {"jobs", "saves"}
    BY DEF CloseInv, CloseTypeOK
  <2>1. ~closes.committed
    BY <1>2 DEF CloseNext
  <2>2. CASE \E r \in Asker : QueueClose(r) \/ CancelClose(r) \/ Callback(r)
    BY <2>2, QueueCloseIsSound, CancelCloseIsSound, CallbackIsSound
  <2>3. CASE \E r \in Asker \cup {"user"} : RequestClose(r)
    BY <2>3, RequestCloseIsSound
  <2>4. CASE \E i \in 1 .. MaxCloses : CloserStep(i)
    BY <2>1, <2>4, CloserStepIsSound DEF Ids
  <2>5. CASE \E w \in Popout : CloseNote(w) \/ WindowGone(w) \/ OpenNote(w)
    <3>1. ASSUME NEW w \in Popout, WindowGone(w) PROVE CloseInv'
      BY <3>1, VanishIsSound DEF WindowGone
    <3> QED BY <2>5, <3>1, CloseNoteIsSound, OpenNoteIsSound
  <2>6. CASE \E l \in leavers : FinishNote(l)
    BY <2>6, FinishNoteIsSound
  <2>7. CASE \E w \in Window : WindowReady(w) \/ Edit(w) \/ HearNotice(w) \/ \E saved \in BOOLEAN : Flush(w, saved)
    BY <2>7, WindowReadyIsSound, EditIsSound, HearNoticeIsSound, FlushIsSound
  <2>8. CASE \E g \in DOMAIN gates : Enter(g) \/ Finish(g)
    BY <2>1, <2>8, EnterIsSound, FinishIsSound
  <2> QED BY <1>2, <2>2, <2>3, <2>4, <2>5, <2>6, <2>7, <2>8 DEF CloseNext
<1> QED BY <1>1, <1>2

LEMMA CloseInvHolds == CloseSpec => []CloseInv
BY CloseInitIsSound, CloseStepIsSound, PTL DEF CloseSpec
-----------------------------------------------------------------------------
(* Steps that leave requests and the running close as they are.              *)
SameRequests ==
  /\ closes'.asks = closes.asks /\ closes'.pending.id = closes.pending.id
  /\ closes'.committed = closes.committed

LEMMA VanishKeepsRequests ==
  ASSUME CloseInv, NEW w \in Popout, Vanishes(w)
  PROVE  SameRequests
BY DestroyedBook DEF Vanishes, SameRequests, CloseInv, CloseTypeOK

LEMMA FinishNoteKeepsRequests ==
  ASSUME CloseInv, NEW l \in leavers, FinishNote(l)
  PROVE  SameRequests /\ \A w \in shown \ shown' : ~pages[w].dirty
<1> PICK w \in Popout, id \in Ids : w = l.window /\ id = l.id
  BY DEF CloseInv, CloseTypeOK
<1> PICK b \in Book : b = closes
  BY DEF CloseInv, CloseTypeOK
<1>1. CASE b.notes[w].id = id /\ b.notes[w].saved = "yes" /\ Vanishes(w)
  <2>1. SaidYes(w, id) /\ TakesPart(w, id) /\ w \in Window
    BY <1>1 DEF SaidYes, TakesPart, Window
  <2>2. ~pages[w].dirty
    BY <2>1 DEF CloseInv, FrozenStay
  <2>3. \A v \in shown \ shown' : v = w
    BY <1>1 DEF Vanishes
  <2> QED BY <1>1, <2>2, <2>3, VanishKeepsRequests
<1>2. CASE /\ closes' = IF b.notes[w].id = id
                        THEN [b EXCEPT !.notes[w] = [id |-> 0, saved |-> "unknown"]] ELSE b
           /\ UNCHANGED shown
  BY <1>2 DEF SameRequests, Book
<1> QED BY <1>1, <1>2 DEF FinishNote

LEMMA PagesKeepRequests ==
  ASSUME CloseInv, NEW w \in Window,
         \/ WindowReady(w) \/ Edit(w) \/ HearNotice(w) \/ \E saved \in BOOLEAN : Flush(w, saved)
         \/ w \in Popout /\ (CloseNote(w) \/ WindowGone(w) \/ OpenNote(w))
  PROVE  SameRequests /\ \A v \in shown \ shown' : ~pages[v].dirty
<1>1. closes \in Book /\ pages[w].on \in CloseId
  BY DEF CloseInv, CloseTypeOK, Page
<1> PICK b \in Book, on \in CloseId : b = closes /\ on = pages[w].on
  BY <1>1
<1>2. CASE WindowReady(w)
  BY <1>1, <1>2 DEF WindowReady, SameRequests, Book
<1>3. CASE Edit(w) \/ HearNotice(w) \/ (w \in Popout /\ OpenNote(w))
  BY <1>3 DEF Edit, HearNotice, OpenNote, SameRequests
<1>4. CASE \E saved \in BOOLEAN : Flush(w, saved)
  <2> PICK saved \in BOOLEAN : Flush(w, saved)
    BY <1>4
  <2>1. closes' = Acknowledged(b, w, on, saved) /\ UNCHANGED shown
    BY DEF Flush
  <2> QED BY <2>1, AcknowledgedBook DEF SameRequests
<1>5. CASE w \in Popout /\ CloseNote(w)
  BY <1>1, <1>5 DEF CloseNote, SameRequests, Book
<1>6. CASE w \in Popout /\ WindowGone(w)
  <2>1. ~pages[w].dirty /\ \A v \in shown \ shown' : v = w
    BY <1>6 DEF WindowGone, Vanishes
  <2> QED BY <1>6, <2>1, VanishKeepsRequests DEF WindowGone
<1> QED BY <1>2, <1>3, <1>4, <1>5, <1>6

(* The process exits on the decision of a close for which every window of    *)
(* the moment said that it had saved.                                        *)
LEMMA CommitIsSaved ==
  ASSUME CloseInv, NEW i \in Ids, MayCommit(closes, i), UNCHANGED <<shown, pages>>
  PROVE  \A w \in shown' : ~pages'[w].dirty /\ ~pages'[w].behind
<1> SUFFICES ASSUME NEW w \in shown PROVE ~pages[w].dirty /\ ~pages[w].behind
  OBVIOUS
<1>1. w \in Window /\ TakesPart(w, i) /\ SaidYes(w, i) /\ closes.pending.id = i /\ i # 0
  BY EmptyBatch DEF MayCommit, TakesPart, SaidYes, CloseInv, CloseTypeOK
<1> QED BY <1>1 DEF CloseInv, FrozenStay, SavedIsNotBehind

LEMMA CloserCommits ==
  ASSUME CloseInv, NEW i \in Ids, ~closes.committed, CloserStep(i), closes'.committed
  PROVE  MayCommit(closes, i) /\ ~gates["jobs"].busy /\ ~gates["saves"].busy /\ UNCHANGED gates
<1>1. closes \in Book /\ i \in CloseId
  BY EmptyBatch DEF CloseInv, CloseTypeOK
<1>2. ~AbandonClose(i)
  BY <1>1, CancelledBook DEF AbandonClose
<1> QED BY <1>2 DEF CloserStep, PauseJobs, JobsDrained, PauseSaves, SavesDrained, CloserFails, DecideClose

LEMMA RequestsDoNotCommit ==
  ASSUME CloseInv, ~closes.committed,
         \/ \E r \in Asker : QueueClose(r) \/ CancelClose(r) \/ Callback(r)
         \/ \E r \in Asker \cup {"user"} : RequestClose(r)
  PROVE  ~closes'.committed /\ UNCHANGED shown
<1>1. closes \in Book /\ shown \in SUBSET Window /\ \A r \in Asker : closes.asks[r].batch \in CloseId
  BY DEF CloseInv, CloseTypeOK, Book, Ask
<1> PICK b \in Book : b = closes
  BY <1>1
<1>2. ASSUME NEW r \in Asker, QueueClose(r) \/ Callback(r) PROVE ~closes'.committed /\ UNCHANGED shown
  <2>1. CASE QueueClose(r)
    BY <2>1, EnqueuedBook DEF QueueClose
  <2>2. CASE Callback(r)
    BY <1>1, <2>2 DEF Callback, Book
  <2> QED BY <1>2, <2>1, <2>2
<1>3. ASSUME NEW r \in Asker, CancelClose(r) PROVE ~closes'.committed /\ UNCHANGED shown
  <2> PICK id \in CloseId : id = b.asks[r].batch
    BY <1>1
  <2> PICK left \in Book : left = IF id = 0 THEN b ELSE Cancelled(b, id)
    BY CancelledBook
  <2>1. ~left.committed
    BY CancelledBook
  <2>2. closes' = [left EXCEPT !.asks[r] = [batch |-> id, progress |-> "failed", cancelled |-> TRUE]]
        /\ UNCHANGED shown
    BY <1>3 DEF CancelClose
  <2> QED BY <2>1, <2>2 DEF Book
<1>4. ASSUME NEW r \in Asker \cup {"user"}, RequestClose(r) PROVE ~closes'.committed /\ UNCHANGED shown
  <2>1. CASE closes' = Joined(b, r) \/ closes' = Failed(b, r)
    BY <1>4, <2>1, JoinedBook, FailedBook DEF RequestClose
  <2>2. CASE Move(1) /\ closes' = Joined(BatchBegun(b, counts'.ids), r)
    <3> PICK id \in Ids : id = counts'.ids
      BY <2>2, MovedCounts DEF CloseInv
    <3> PICK begun \in Book : begun = BatchBegun(b, id)
      BY <1>1, BegunBook
    <3>1. ~begun.committed
      BY <1>1, BegunBook
    <3> QED BY <1>4, <2>2, <3>1, JoinedBook DEF RequestClose
  <2> QED BY <1>4, <2>1, <2>2 DEF RequestClose
<1> QED BY <1>2, <1>3, <1>4

(* Nothing unsaved is closed (the order drain, save, drain, commit of        *)
(* worker_shutdown.rs:662-760, can_commit and commit :204, the answers of    *)
(* the windows, and finish_window_close :296): whatever the number of        *)
(* windows, requests and closes.                                             *)
THEOREM UnsavedStaysOpen == CloseSpec => NothingUnsavedCloses
<1> DEFINE Saved == /\ \A w \in shown \ shown' : ~pages[w].dirty
                    /\ closes'.committed => /\ \A w \in shown' : ~pages'[w].dirty /\ ~pages'[w].behind
                                            /\ ~gates'.jobs.busy /\ ~gates'.saves.busy
<1>1. CloseInv /\ [CloseNext]_closeVars => [Saved]_closeVars
  <2> SUFFICES ASSUME CloseInv, CloseNext PROVE Saved
    OBVIOUS
  <2>1. ~closes.committed /\ DOMAIN gates = {"jobs", "saves"}
    BY DEF CloseNext, CloseInv, CloseTypeOK
  <2>2. CASE \/ \E r \in Asker : QueueClose(r) \/ CancelClose(r) \/ Callback(r)
             \/ \E r \in Asker \cup {"user"} : RequestClose(r)
    BY <2>1, <2>2, RequestsDoNotCommit
  <2>3. ASSUME NEW i \in Ids, CloserStep(i) PROVE Saved
    <3>1. UNCHANGED <<shown, pages>>
      BY <2>3 DEF CloserStep
    <3>2. ASSUME closes'.committed
          PROVE  /\ \A w \in shown' : ~pages'[w].dirty /\ ~pages'[w].behind
                 /\ ~gates'.jobs.busy /\ ~gates'.saves.busy
      BY <2>1, <2>3, <3>1, <3>2, CloserCommits, CommitIsSaved
    <3> QED BY <3>1, <3>2
  <2>4. ASSUME NEW w \in Window,
               \/ WindowReady(w) \/ Edit(w) \/ HearNotice(w) \/ \E saved \in BOOLEAN : Flush(w, saved)
               \/ w \in Popout /\ (CloseNote(w) \/ WindowGone(w) \/ OpenNote(w))
        PROVE  Saved
    BY <2>1, <2>4, PagesKeepRequests DEF SameRequests
  <2>5. ASSUME NEW l \in leavers, FinishNote(l) PROVE Saved
    BY <2>1, <2>5, FinishNoteKeepsRequests DEF SameRequests
  <2>6. ASSUME NEW g \in DOMAIN gates, Enter(g) \/ Finish(g) PROVE Saved
    BY <2>1, <2>6 DEF Enter, Finish
  <2> HIDE DEF Saved
  <2> QED BY <2>2, <2>3, <2>4, <2>5, <2>6 DEF CloseNext, Ids, Window
<1> QED BY <1>1, CloseInvHolds, PTL DEF CloseSpec, NothingUnsavedCloses

LEMMA CancelledStaysStopped ==
  ASSUME NEW b \in Book, NEW r \in Asker, NEW id \in CloseId, Stopped(b, r)
  PROVE  Stopped(Cancelled(b, id), r)
BY CancelledBook, EmptyBatch DEF Stopped

(* A cancelled request stays cancelled, and no close runs on its behalf      *)
(* (cancel_request, worker_shutdown.rs:240-266), but for the callback that   *)
(* has already looked at it, which the property itself excepts.              *)
THEOREM CancelledStaysCancelled == CloseSpec => CancelledHolds
<1> DEFINE Holds == \A r \in Asker : Stopped(closes, r) /\ main # r => Stopped(closes', r)
<1>1. CloseInv /\ [CloseNext]_closeVars => [Holds]_closeVars
  <2> SUFFICES ASSUME CloseInv, CloseNext, NEW r \in Asker, Stopped(closes, r), main # r
               PROVE  Stopped(closes', r)
    OBVIOUS
  <2>1. /\ ~closes.committed /\ closes \in Book /\ shown \in SUBSET Window
        /\ \A s \in Asker : closes.asks[s].batch \in CloseId /\ closes.asks[s].batch <= counts.ids
        /\ closes.asks[r].progress \notin {"none", "queued"} /\ counts.ids \in Nat
    BY EmptyBatch DEF CloseNext, CloseInv, CloseTypeOK, Book, Ask, AsksAreKept, Stopped
  <2> PICK b \in Book : b = closes
    BY <2>1
  <2>2. SameRequests => Stopped(closes', r)
    BY DEF SameRequests, Stopped
  <2>3. ASSUME NEW s \in Asker, QueueClose(s) PROVE Stopped(closes', r)
    <3>1. closes' = Enqueued(b, s)
      BY <2>3 DEF QueueClose
    <3>2. closes'.pending = b.pending /\ closes'.asks[r] = b.asks[r]
      BY <2>1, <3>1, EnqueuedBook
    <3> QED BY <3>2 DEF Stopped
  <2>4. ASSUME NEW s \in Asker, Callback(s) PROVE Stopped(closes', r)
    BY <2>1, <2>2, <2>4 DEF Callback, SameRequests, Book
  <2>5. ASSUME NEW s \in Asker, CancelClose(s) PROVE Stopped(closes', r)
    <3> PICK id \in CloseId : id = b.asks[s].batch
      BY <2>1
    <3> PICK left \in Book : left = IF id = 0 THEN b ELSE Cancelled(b, id)
      BY CancelledBook
    <3>1. Stopped(left, r)
      BY CancelledStaysStopped
    <3>2. closes' = [left EXCEPT !.asks[s] = [batch |-> id, progress |-> "failed", cancelled |-> TRUE]]
          /\ ~Stopped(b, s)
      BY <2>5 DEF CancelClose
    <3>3. s # r
      BY <3>2
    <3>4. closes'.pending = left.pending /\ closes'.asks[r] = left.asks[r]
      BY <3>2, <3>3 DEF Book
    <3> QED BY <3>1, <3>4 DEF Stopped
  <2>6. ASSUME NEW s \in Asker \cup {"user"}, RequestClose(s) PROVE Stopped(closes', r)
    <3>1. s # r
      BY <2>6 DEF RequestClose
    <3>2. CASE closes' = Joined(b, s) \/ closes' = Failed(b, s)
      BY <3>1, <3>2, JoinedBook, FailedBook DEF Stopped
    <3>3. CASE Move(1) /\ closes' = Joined(BatchBegun(b, counts'.ids), s)
      <4>1. counts'.ids \in Ids /\ counts'.ids > counts.ids
        BY <3>3, MovedCounts DEF CloseInv
      <4> PICK id \in Ids : id = counts'.ids
        BY <4>1
      <4> PICK begun \in Book : begun = BatchBegun(b, id)
        BY <2>1, BegunBook
      <4>2. begun.pending.id = id /\ begun.asks[r] = b.asks[r]
        BY <2>1, BegunBook
      <4>3. closes'.pending.id = id /\ closes'.asks[r] = b.asks[r]
        BY <3>1, <3>3, <4>2, JoinedBook
      <4>4. b.asks[r].batch # id
        BY <2>1, <4>1, EmptyBatch
      <4> QED BY <4>3, <4>4 DEF Stopped
    <3> QED BY <2>6, <3>2, <3>3 DEF RequestClose
  <2>7. ASSUME NEW i \in Ids, CloserStep(i) PROVE Stopped(closes', r)
    <3>1. CASE UNCHANGED closes
      BY <3>1
    <3>2. CASE closes' = Cancelled(b, i)
      BY <3>2, CancelledStaysStopped, EmptyBatch
    <3>3. CASE closes' = Ended(b)
      BY <3>3, EndedBook DEF Stopped
    <3> QED BY <2>7, <3>1, <3>2, <3>3 DEF CloserStep, PauseJobs, JobsDrained, PauseSaves, SavesDrained,
                                          CloserFails, DecideClose, AbandonClose
  <2>8. ASSUME NEW w \in Window,
               \/ WindowReady(w) \/ Edit(w) \/ HearNotice(w) \/ \E saved \in BOOLEAN : Flush(w, saved)
               \/ w \in Popout /\ (CloseNote(w) \/ WindowGone(w) \/ OpenNote(w))
        PROVE  Stopped(closes', r)
    BY <2>2, <2>8, PagesKeepRequests
  <2>9. ASSUME NEW l \in leavers, FinishNote(l) PROVE Stopped(closes', r)
    BY <2>2, <2>9, FinishNoteKeepsRequests
  <2>10. ASSUME NEW g \in DOMAIN gates, Enter(g) \/ Finish(g) PROVE Stopped(closes', r)
    BY <2>10 DEF Enter, Finish
  <2> QED BY <2>3, <2>4, <2>5, <2>6, <2>7, <2>8, <2>9, <2>10 DEF CloseNext, Ids, Window
<1> QED BY <1>1, CloseInvHolds, PTL DEF CloseSpec, CancelledHolds
=============================================================================
