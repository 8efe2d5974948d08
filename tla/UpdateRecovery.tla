---------------------------- MODULE UpdateRecovery ----------------------------
(* An update of the program closes every vault's process and brings its      *)
(* windows back afterwards: the install (coordinator_updater.rs,             *)
(* drain_for_update, update_failed), the record of the session it closed     *)
(* (update_recovery.rs), and the restoring of it at the next start, after a  *)
(* failed install, or when the program is launched again (resume_update).    *)
(* The coordinator may crash or be quit at any point; the vaults' processes  *)
(* live on.  One thread installs at a time; the switch of a window between   *)
(* vaults (VaultHandoff) and the deletion of vaults are left out.            *)
EXTENDS Naturals

CONSTANTS
  Profile,      \* the vaults
  MaxVersions,  \* bound: versions of the program
  MaxUpdates,   \* bound: updates asked for
  MaxStumbles,  \* bound: crashes of the coordinator and quits
  MaxAttempts   \* MAX_ATTEMPTS

ASSUME UpdateRecoveryAssumption ==
  {MaxVersions, MaxUpdates, MaxStumbles, MaxAttempts} \subseteq Nat

VARIABLES
  record,    \* update-restart.json
  evidence,  \* vaults of the sessions that were set aside
  windows,   \* of each vault: "closed", "shown", or, since an update closed
             \* them, "taken", and "bare" while only the process is back
  closing,   \* processes an update told to close
  host,      \* the coordinator: Book.quitting, recovering, update_retry
  disk,      \* the version that is installed
  updater,   \* where the thread that installs is
  restorer,  \* where the thread that restores is
  asked      \* updates, crashes and quits so far

updateVars == <<record, evidence, windows, closing, host, disk, updater, restorer, asked>>

NothingOwed ==
  [phase |-> "none", op |-> 0, from |-> 0, vaults |-> {}, marked |-> {}, failures |-> 0]
Resting == [at |-> "idle", vault |-> "none", found |-> FALSE, rest |-> {}, marks |-> {}]

UpdateInit ==
  /\ record = NothingOwed
  /\ evidence = {}
  /\ windows = [v \in Profile |-> "shown"]
  /\ closing = {}
  /\ host = [up |-> TRUE, version |-> 1, quitting |-> "no", recovering |-> FALSE, retry |-> FALSE]
  /\ disk = 1
  /\ updater = "idle"
  /\ restorer = Resting
  /\ asked = [updates |-> 0, stumbles |-> 0]

Runs(v) == windows[v] \in {"shown", "bare"}
NothingRuns == \A v \in Profile : ~Runs(v)
Pending == record.phase \in {"prepared", "installing", "failed"}
Stumble == asked.stumbles < MaxStumbles /\ asked' = [asked EXCEPT !.stumbles = @ + 1]

(* Record::may_resume, for the version that runs.                            *)
MayResume(version) ==
  /\ Pending
  /\ \/ version = record.from
     \/ version = record.from + 1 /\ record.phase = "installing"

-----------------------------------------------------------------------------
(* The vaults' processes.                                                    *)
Started(v) == [windows EXCEPT ![v] = IF @ = "taken" THEN "bare" ELSE "shown"]
Exited(v) == [windows EXCEPT ![v] = IF @ = "bare" THEN "taken" ELSE "closed"]

(* Opening a vault is refused while the program quits, installs or restores. *)
UserOpens(v) ==
  /\ host.up /\ host.quitting = "no" /\ ~host.recovering /\ ~Runs(v)
  /\ windows' = Started(v)
  /\ UNCHANGED <<record, evidence, closing, host, disk, updater, restorer, asked>>

(* Its last window is closed, or it crashes.                                 *)
ProcessEnds(v) ==
  /\ Runs(v)
  /\ windows' = Exited(v)
  /\ closing' = closing \ {v}
  /\ UNCHANGED <<record, evidence, host, disk, updater, restorer, asked>>

(* It has saved and exits, as the update told it, whoever still waits for it,*)
(* or cannot close.                                                          *)
ProcessCloses(v) ==
  /\ v \in closing
  /\ closing' = closing \ {v}
  /\ windows' = [windows EXCEPT ![v] = "taken"]
  /\ UNCHANGED <<record, evidence, host, disk, updater, restorer, asked>>
ProcessStays(v) ==
  /\ v \in closing
  /\ closing' = closing \ {v}
  /\ UNCHANGED <<record, evidence, windows, host, disk, updater, restorer, asked>>

-----------------------------------------------------------------------------
(* The installation.  Its fence refuses every other window action.           *)
BeginUpdate ==
  /\ host.up /\ host.quitting = "no" /\ ~host.recovering /\ updater = "idle"
  /\ ~NothingRuns
  /\ host.version < MaxVersions /\ asked.updates < MaxUpdates
  /\ asked' = [asked EXCEPT !.updates = @ + 1]
  /\ host' = [host EXCEPT !.quitting = "update"]
  /\ updater' = "draining"
  /\ UNCHANGED <<record, evidence, windows, closing, disk, restorer>>

(* drain_for_update records what is open, and then has it closed; prepare    *)
(* refuses while another session waits.                                      *)
Prepared(open) == [NothingOwed EXCEPT !.phase = "prepared", !.op = asked.updates,
                                      !.from = host.version, !.vaults = open]

DrainForUpdate ==
  /\ updater = "draining"
  /\ LET open == {v \in Profile : Runs(v)}
     IN IF Pending
        THEN updater' = "failing" /\ UNCHANGED <<record, closing>>
        ELSE updater' = "closing" /\ record' = Prepared(open) /\ closing' = open
  /\ UNCHANGED <<evidence, windows, host, disk, restorer, asked>>

(* installing: the record says so before the installer runs.                 *)
MarkInstalling ==
  /\ updater = "closing" /\ NothingRuns
  /\ record' = [record EXCEPT !.phase = "installing"]
  /\ updater' = "installing"
  /\ UNCHANGED <<evidence, windows, closing, host, disk, restorer, asked>>

Down == [host EXCEPT !.up = FALSE, !.quitting = "no", !.recovering = FALSE, !.retry = FALSE]
Replaced == disk' \in {disk, record.from + 1}

(* The process ends with its installation, on Windows before it is done.     *)
Install ==
  /\ updater = "installing"
  /\ Replaced
  /\ host' = Down
  /\ updater' = "idle"
  /\ UNCHANGED <<record, evidence, windows, closing, restorer, asked>>

(* A download that failed, a process that does not close or a deadline, and  *)
(* an installer that fails, whatever it has replaced.                        *)
UpdateFails ==
  /\ updater \in {"draining", "closing", "installing"}
  /\ IF updater = "installing" THEN Replaced ELSE UNCHANGED disk
  /\ updater' = "failing"
  /\ UNCHANGED <<record, evidence, windows, closing, host, restorer, asked>>

Restoring == [Resting EXCEPT !.at = "next", !.rest = record.vaults, !.marks = record.marked]

(* update_failed lifts the fence,                                            *)
LiftFence ==
  /\ updater = "failing"
  /\ host' = [host EXCEPT !.quitting = "no"]
  /\ updater' = "lifted"
  /\ UNCHANGED <<record, evidence, windows, closing, disk, restorer, asked>>

(* and has the old program restore what its update closed.                   *)
UpdateFailed ==
  /\ updater = "lifted"
  /\ updater' = "idle"
  /\ IF Pending /\ record.op = asked.updates
     THEN /\ record' = [record EXCEPT !.phase = "failed"]
          /\ host' = [host EXCEPT !.recovering = TRUE]
          /\ restorer' = Restoring
     ELSE UNCHANGED <<record, host, restorer>>
  /\ UNCHANGED <<evidence, windows, closing, disk, asked>>

-----------------------------------------------------------------------------
(* restore_update_session, vault by vault.  It opens what is not open, which *)
(* is refused while the program quits.                                       *)
OpenNext(v) ==
  /\ host.up /\ host.quitting = "no"
  /\ restorer.at = "next" /\ v \in restorer.rest
  /\ restorer' = [restorer EXCEPT !.at = "opened", !.vault = v, !.found = Runs(v)]
  /\ windows' = IF Runs(v) THEN windows ELSE Started(v)
  /\ UNCHANGED <<record, evidence, closing, host, disk, updater, asked>>

Placed(v) == [windows EXCEPT ![v] = "shown"]

(* As when the process was told and not waited for.                          *)
RestoreUnseen ==
  LET v == restorer.vault
  IN /\ restorer.at = "opened" /\ Runs(v)
     /\ \/ windows' = Placed(v)
        \/ UNCHANGED windows
     /\ restorer' = [restorer EXCEPT !.at = "placed"]
     /\ UNCHANGED <<record, evidence, closing, host, disk, updater, asked>>

(* A process that was open and had its windows back is left alone; another   *)
(* one places them, unless it is closing, and says when it is done.          *)
Restore ==
  LET v == restorer.vault
  IN /\ restorer.at = "opened" /\ Runs(v)
     /\ IF restorer.found /\ v \in restorer.marks THEN UNCHANGED windows
        ELSE v \notin closing /\ windows' = Placed(v)
     /\ restorer' = [restorer EXCEPT !.at = "placed"]
     /\ UNCHANGED <<record, evidence, closing, host, disk, updater, asked>>

(* restored.                                                                 *)
MarkRestored ==
  /\ restorer.at = "placed" /\ Pending
  /\ record' = [record EXCEPT !.marked = @ \cup {restorer.vault}]
  /\ restorer' = [restorer EXCEPT !.at = "next", !.rest = @ \ {restorer.vault}]
  /\ UNCHANGED <<evidence, windows, closing, host, disk, updater, asked>>

Finished == restorer' = Resting /\ host' = [host EXCEPT !.recovering = FALSE]

(* consume, once every vault was.                                            *)
Consume ==
  /\ restorer.at = "next" /\ restorer.rest = {}
  /\ Pending /\ record.vaults \subseteq record.marked
  /\ record' = [record EXCEPT !.phase = "consumed"]
  /\ Finished
  /\ UNCHANGED <<evidence, windows, closing, disk, updater, asked>>

(* attempt_failed: a process that does not come up or cannot place its       *)
(* windows, a deadline, a quit.  The first one leaves the session for one    *)
(* more attempt.                                                             *)
CountFailure ==
  /\ restorer.at \in {"next", "opened", "placed"}
  /\ record' = [record EXCEPT !.failures = @ + 1]
  /\ IF record'.failures < MaxAttempts
     THEN /\ restorer' = Resting
          /\ host' = [host EXCEPT !.recovering = FALSE, !.retry = TRUE]
     ELSE restorer' = [Resting EXCEPT !.at = "aside"] /\ UNCHANGED host
  /\ UNCHANGED <<evidence, windows, closing, disk, updater, asked>>

SetAside == evidence' = evidence \cup record.vaults /\ record' = NothingOwed

GiveUp ==
  /\ restorer.at = "aside"
  /\ SetAside
  /\ Finished
  /\ UNCHANGED <<windows, closing, disk, updater, asked>>

(* Launching the program again is the retry (HostCommand::Activate).         *)
Activate ==
  /\ host.up /\ host.quitting = "no" /\ ~host.recovering /\ host.retry
  /\ IF MayResume(host.version)
     THEN host' = [host EXCEPT !.retry = FALSE, !.recovering = TRUE] /\ restorer' = Restoring
     ELSE host' = [host EXCEPT !.retry = FALSE] /\ UNCHANGED restorer
  /\ UNCHANGED <<record, evidence, windows, closing, disk, updater, asked>>

-----------------------------------------------------------------------------
(* The user, or a vault's process, starts the coordinator.  A session of     *)
(* another version is set aside; one that may be resumed is.                 *)
Unresumable == Pending /\ ~MayResume(disk)

Start ==
  /\ ~host.up
  /\ LET back == MayResume(disk)
     IN /\ host' = [host EXCEPT !.up = TRUE, !.version = disk, !.recovering = back]
        /\ restorer' = IF back THEN Restoring ELSE Resting
        /\ IF Unresumable THEN SetAside ELSE UNCHANGED <<record, evidence>>
  /\ UNCHANGED <<windows, closing, disk, updater, asked>>

HostCrashes ==
  /\ host.up /\ Stumble
  /\ host' = Down
  /\ updater' = "idle" /\ restorer' = Resting
  /\ UNCHANGED <<record, evidence, windows, closing, disk>>

(* finish_quit: every process closes, and the jobs that run end.             *)
Quit ==
  /\ host.up /\ host.quitting = "no" /\ Stumble
  /\ host' = [host EXCEPT !.quitting = "quit"]
  /\ UNCHANGED <<record, evidence, windows, closing, disk, updater, restorer>>
QuitEnds ==
  /\ host.quitting = "quit"
  /\ \/ NothingRuns /\ restorer.at = "idle" /\ updater = "idle" /\ host' = Down
     \/ host' = [host EXCEPT !.quitting = "no"]
  /\ UNCHANGED <<record, evidence, windows, closing, disk, updater, restorer, asked>>

(* The program is replaced by hand while it does not run.                    *)
Reinstall ==
  /\ ~host.up /\ disk < MaxVersions
  /\ disk' = disk + 1
  /\ UNCHANGED <<record, evidence, windows, closing, host, updater, restorer, asked>>

UpdateNext ==
  \/ \E v \in Profile : UserOpens(v) \/ ProcessEnds(v) \/ ProcessCloses(v) \/ ProcessStays(v)
                        \/ OpenNext(v)
  \/ BeginUpdate \/ DrainForUpdate \/ MarkInstalling \/ Install \/ UpdateFails \/ LiftFence \/ UpdateFailed
  \/ Restore \/ MarkRestored \/ Consume \/ CountFailure \/ GiveUp \/ Activate
  \/ Start \/ HostCrashes \/ Quit \/ QuitEnds \/ Reinstall

UpdateSpec == UpdateInit /\ [][UpdateNext]_updateVars

-----------------------------------------------------------------------------
(* Windows an update closed are not forgotten: until they are back, the      *)
(* record names them and does not say they are, or the file that was set     *)
(* aside does, whatever crashed, failed or was quit in between               *)
(* (update_recovery.rs:1, :333, :355; vault_supervisor.rs:2534).             *)
WindowsAreOwed ==
  \A v \in Profile : windows[v] \in {"taken", "bare"} =>
    v \in evidence \/ (Pending /\ v \in record.vaults \ record.marked)
=============================================================================
