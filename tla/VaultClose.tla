------------------------------ MODULE VaultClose ------------------------------
(* How a vault's process closes (worker_shutdown.rs, vault_jobs.rs and the   *)
(* windows' half, close-participant.ts): every window is frozen, background  *)
(* work drains, the editors save, and only if all of them said so the        *)
(* process exits; otherwise the close is cancelled and the windows thaw.     *)
(* The book is one record under one lock, and a step is what the code does   *)
(* while it holds that lock, plus the notices it sends right after.  The     *)
(* process has a main thread, one thread per close it began, one per note    *)
(* window that is closing by itself, and the threads that serve the app's    *)
(* coordinator.                                                              *)
LOCAL INSTANCE Integers
LOCAL INSTANCE Sequences

CONSTANTS
  Popout,     \* the note windows
  Asker,      \* the ids of close requests that reach this process
  MaxCloses,  \* bound: closes begun, of the vault or of a note window
  MaxMoves    \* bound: closes begun, note windows opened and requests received, together

ASSUME VaultCloseAssumption ==
  /\ "main" \notin Popout
  /\ MaxCloses \in Nat \ {0} /\ MaxMoves \in Nat

Window == {"main"} \cup Popout
CloseId == 0 .. MaxCloses      \* 0: none

VARIABLES
  shown,    \* the content windows on the screen
  closes,   \* worker_shutdown::Book
  pages,    \* each window's participant, and its unsaved text
  notices,  \* close notices on their way to each window, in the order of their sending
  gates,    \* the admission of background work and of saves
  closers,  \* the thread of each close of the vault
  leavers,  \* the threads of closing note windows
  main,     \* the request the main thread is in the middle of
  counts    \* ids issued, and moves made so far

closeVars == <<shown, closes, pages, notices, gates, closers, leavers, main, counts>>

NoBatch == [id |-> 0, windows |-> {}, waiting |-> {}, failed |-> FALSE]
NewPage(since) == [on |-> 0, step |-> "idle", over |-> {}, dirty |-> FALSE, behind |-> FALSE, since |-> since]
NoAsk == [batch |-> 0, progress |-> "none", cancelled |-> FALSE]
OpenGate == [busy |-> FALSE, by |-> 0]

CloseInit ==
  /\ shown = {"main"}
  /\ closes = [ready |-> {"main"}, pending |-> NoBatch, committed |-> FALSE,
               notes |-> [w \in Popout |-> [id |-> 0, saved |-> "unknown"]],
               asks |-> [r \in Asker |-> NoAsk], callbacks |-> {}]
  /\ pages = [w \in Window |-> NewPage(0)]
  /\ notices = [w \in Window |-> <<>>]
  /\ gates = [jobs |-> OpenGate, saves |-> OpenGate]
  /\ closers = [i \in 1 .. MaxCloses |-> [step |-> "none", windows |-> {}]]
  /\ leavers = {}
  /\ main = "free"
  /\ counts = [ids |-> 0, moves |-> 0]

-----------------------------------------------------------------------------
Move(begun) ==
  /\ counts.moves < MaxMoves /\ counts.ids + begun <= MaxCloses
  /\ counts' = [ids |-> counts.ids + begun, moves |-> counts.moves + 1]
New(r) == closes.asks[r].progress = "none"
MoveIfNew(r) == IF New(r) THEN Move(0) ELSE UNCHANGED counts

(* emit_to and emit: events reach a window in the order they were sent.      *)
Notified(windows, id, phase) ==
  [w \in Window |-> IF w \in windows THEN Append(notices[w], [id |-> id, phase |-> phase])
                    ELSE notices[w]]
ClosingNotes(b) == {w \in Popout : b.notes[w].id # 0}

(* cancel: the pending close, and no other, ends; its requests have failed.  *)
Cancelled(b, id) ==
  IF b.committed \/ b.pending.id # id \/ id = 0 THEN b
  ELSE [b EXCEPT !.pending = NoBatch,
                 !.asks = [r \in Asker |->
                   IF b.asks[r].batch = id
                   THEN [batch |-> id, progress |-> "failed", cancelled |-> TRUE]
                   ELSE b.asks[r]]]

ToldOver(b, id) ==
  Notified(IF Cancelled(b, id) = b THEN {} ELSE shown, id, "cancel")

(* A pause that is dropped uncommitted lets work in again.                   *)
Resumed(id) ==
  [g \in DOMAIN gates |-> IF gates[g].by = id THEN [gates[g] EXCEPT !.by = 0] ELSE gates[g]]

(* (A close that is given up and tells nobody.)                              *)
AbandonQuietly(i) ==
  /\ closes' = Cancelled(closes, i)
  /\ gates' = Resumed(i)
  /\ closers' = [closers EXCEPT ![i].step = "gone"]
  /\ UNCHANGED notices

(* The close's thread gives up: cancel, and its pauses are dropped.          *)
AbandonClose(i) ==
  /\ closes' = Cancelled(closes, i)
  /\ notices' = ToldOver(closes, i)
  /\ gates' = Resumed(i)
  /\ closers' = [closers EXCEPT ![i].step = "gone"]

Attached(b, r) ==
  [b EXCEPT !.asks[r].batch = b.pending.id,
            !.asks[r].progress = IF b.committed THEN "committing" ELSE "pending"]

-----------------------------------------------------------------------------
(* (A copy of a cancelled request is taken for a new one.)                   *)
EnqueuedAgain(b, r) ==
  LET queued == [b EXCEPT !.asks[r] = [batch |-> 0, progress |-> "queued", cancelled |-> FALSE]]
  IN IF b.asks[r].progress # "none" /\ ~b.asks[r].cancelled THEN b
     ELSE IF b.pending.id # 0 THEN Attached(queued, r)
     ELSE [queued EXCEPT !.callbacks = @ \cup {r}]

(* Requests of the coordinator: enqueue, and cancel_request, which leaves a  *)
(* tombstone even for a request that never arrived.                          *)
Enqueued(b, r) ==
  LET queued == [b EXCEPT !.asks[r] = [batch |-> 0, progress |-> "queued", cancelled |-> FALSE]]
  IN IF b.asks[r].progress # "none" THEN b
     ELSE IF b.pending.id # 0 THEN Attached(queued, r)
     ELSE [queued EXCEPT !.callbacks = @ \cup {r}]

QueueClose(r) ==
  /\ closes' = Enqueued(closes, r)
  /\ MoveIfNew(r)
  /\ UNCHANGED <<shown, pages, notices, gates, closers, leavers, main>>

(* Cancelled, and no close runs on its behalf.                               *)
Stopped(b, r) ==
  b.asks[r].cancelled /\ (b.asks[r].batch = 0 \/ b.asks[r].batch # b.pending.id)

CancelClose(r) ==
  LET batch == closes.asks[r].batch
      left == IF batch = 0 THEN closes ELSE Cancelled(closes, batch)
  IN /\ ~closes.committed
     /\ ~Stopped(closes, r)      \* a repeat changes nothing
     /\ closes' = [left EXCEPT !.asks[r] =
          [batch |-> batch, progress |-> "failed", cancelled |-> TRUE]]
     /\ notices' = Notified(IF batch = 0 THEN {} ELSE shown, batch, "cancel")
     /\ MoveIfNew(r)
     /\ UNCHANGED <<shown, pages, gates, closers, leavers, main>>

-----------------------------------------------------------------------------
(* request_close_inner on the main thread.  A queued request is looked at    *)
(* under the lock, and the lock is given up before the close begins.         *)
Callback(r) ==
  /\ main = "free" /\ r \in closes.callbacks
  /\ closes' = [closes EXCEPT !.callbacks = @ \ {r}]
  /\ main' = IF closes.asks[r].progress = "queued" THEN r ELSE "free"
  /\ UNCHANGED <<shown, pages, notices, gates, closers, leavers, counts>>

MayBegin(b) ==
  ClosingNotes(b) = {} /\ "main" \in shown /\ shown \subseteq b.ready

(* begin: the windows of this moment take part, and every queued request     *)
(* becomes an alias of the close.                                            *)
BatchBegun(b, id) ==
  [b EXCEPT !.pending = [id |-> id, windows |-> shown, waiting |-> shown, failed |-> FALSE],
            !.asks = [r \in Asker |->
              IF b.asks[r].progress = "queued"
              THEN [b.asks[r] EXCEPT !.batch = id, !.progress = "pending"]
              ELSE b.asks[r]]]

(* The request, if there is one, joins the close that is running.            *)
Joined(b, r) == IF r \in Asker THEN Attached(b, r) ELSE b
Failed(b, r) == IF r \in Asker THEN [b EXCEPT !.asks[r].progress = "failed"] ELSE b

RequestClose(r) ==
  /\ IF r \in Asker THEN main = r ELSE main = "free" /\ ~closes.committed
  /\ main' = "free"
  /\ \/ /\ closes.pending.id # 0
        /\ closes' = Joined(closes, r)
        /\ UNCHANGED <<closers, counts>>
     \/ /\ closes.pending.id = 0 /\ ~MayBegin(closes)
        /\ closes' = Failed(closes, r)
        /\ UNCHANGED <<closers, counts>>
     \/ /\ closes.pending.id = 0 /\ MayBegin(closes) /\ Move(1)
        /\ closes' = Joined(BatchBegun(closes, counts'.ids), r)
        /\ closers' = [closers EXCEPT ![counts'.ids] = [step |-> "start", windows |-> shown]]
     \/ /\ closes.pending.id = 0 /\ MayBegin(closes) /\ r \in Asker
        /\ closes' = Failed(closes, r)        \* the process is not ready_for_close
        /\ UNCHANGED <<closers, counts>>
  /\ UNCHANGED <<shown, pages, notices, gates, leavers>>

-----------------------------------------------------------------------------
(* The close's thread: it stops background work, waits for it, has the       *)
(* windows save, and stops and waits for the saves.  Every wait has a        *)
(* deadline, so it may be given up at any time.                              *)
Notify(i, phase) ==
  /\ closers[i].windows \subseteq shown
  /\ notices' = Notified(closers[i].windows, i, phase)

CloserAt(i, step, next) ==
  closers[i].step = step /\ closers' = [closers EXCEPT ![i].step = next]

PauseJobs(i) ==
  /\ CloserAt(i, "start", "drain")
  /\ gates.jobs.by = 0
  /\ gates' = [gates EXCEPT !.jobs.by = i]
  /\ Notify(i, "waiting")
  /\ UNCHANGED closes

(* (The services are not waited for.)                                        *)
JobsDrainedUnasked(i) ==
  /\ CloserAt(i, "drain", "saving")
  /\ Notify(i, "prepare")
  /\ UNCHANGED <<closes, gates>>

JobsDrained(i) ==
  /\ CloserAt(i, "drain", "saving")
  /\ ~gates.jobs.busy
  /\ Notify(i, "prepare")
  /\ UNCHANGED <<closes, gates>>

(* finished: every window said whether it saved, one said no, or the close   *)
(* is over; after the deadline the thread goes on as well.                   *)
PauseSaves(i) ==
  /\ CloserAt(i, "saving", "flushing")
  /\ gates.saves.by = 0
  /\ gates' = [gates EXCEPT !.saves.by = i]
  /\ UNCHANGED <<closes, notices>>

SavesDrained(i) ==
  /\ CloserAt(i, "flushing", "decide")
  /\ ~gates.saves.busy
  /\ UNCHANGED <<closes, notices, gates>>

(* A gate that another close holds, a window that is gone, a wait that took  *)
(* too long.                                                                 *)
CloserFails(i) ==
  /\ \/ closers[i].step = "start" /\ (gates.jobs.by # 0 \/ ~(closers[i].windows \subseteq shown))
     \/ closers[i].step = "drain" /\ (gates.jobs.busy \/ ~(closers[i].windows \subseteq shown))
     \/ closers[i].step = "saving" /\ gates.saves.by # 0
     \/ closers[i].step = "flushing" /\ gates.saves.busy
  /\ AbandonClose(i)

(* can_commit.                                                               *)
MayCommit(b, i) ==
  /\ b.pending.id = i /\ ~b.pending.failed
  /\ b.pending.waiting = {} /\ b.pending.windows = shown

Ended(b) ==
  [b EXCEPT !.committed = TRUE,
            !.asks = [r \in Asker |->
              IF b.asks[r].batch = b.pending.id
              THEN [b.asks[r] EXCEPT !.progress = "committing"] ELSE b.asks[r]]]

(* The decision, on the main thread: commit and exit, or cancel.             *)
DecideClose(i) ==
  /\ main = "free" /\ closers[i].step = "decide"
  /\ \/ /\ MayCommit(closes, i) /\ ~gates.jobs.busy /\ ~gates.saves.busy
        /\ closes' = Ended(closes)
        /\ closers' = [closers EXCEPT ![i].step = "gone"]
        /\ UNCHANGED <<notices, gates>>
     \/ ~(MayCommit(closes, i) /\ ~gates.jobs.busy /\ ~gates.saves.busy) /\ AbandonClose(i)

CloserStep(i) ==
  /\ PauseJobs(i) \/ JobsDrained(i) \/ PauseSaves(i) \/ SavesDrained(i) \/ CloserFails(i) \/ DecideClose(i)
  /\ UNCHANGED <<shown, pages, leavers, main, counts>>

-----------------------------------------------------------------------------
(* A note window that closes by itself.                                      *)
CloseNote(w) ==
  /\ main = "free" /\ w \in shown /\ w \in closes.ready
  /\ closes.pending.id = 0 /\ ~closes.committed /\ closes.notes[w].id = 0
  /\ Move(1)
  /\ LET i == counts'.ids
     IN /\ closes' = [closes EXCEPT !.notes[w] = [id |-> i, saved |-> "unknown"]]
        /\ leavers' = leavers \cup {[window |-> w, id |-> i]}
        /\ notices' = Notified({w}, i, "prepare")
  /\ UNCHANGED <<shown, pages, gates, closers, main>>

(* window_destroyed.                                                         *)
Destroyed(b, w) ==
  [b EXCEPT !.ready = @ \ {w},
            !.notes[w] = [id |-> 0, saved |-> "unknown"],
            !.pending.failed = @ \/ w \in b.pending.windows]
Vanishes(w) ==
  /\ shown' = shown \ {w}
  /\ closes' = Destroyed(closes, w)
  /\ notices' = [notices EXCEPT ![w] = <<>>]
  /\ pages' = [pages EXCEPT ![w] = NewPage(0)]

(* Saved or timed out; finish_window_close destroys the window only if every *)
(* answer for this close was yes, and otherwise takes the close back.        *)
FinishNote(l) ==
  /\ main = "free" /\ l \in leavers
  /\ leavers' = leavers \ {l}
  /\ LET mine == closes.notes[l.window].id = l.id
     IN \/ mine /\ closes.notes[l.window].saved = "yes" /\ Vanishes(l.window)
        \/ /\ ~(mine /\ closes.notes[l.window].saved = "yes")
           /\ closes' = IF mine
                        THEN [closes EXCEPT !.notes[l.window] = [id |-> 0, saved |-> "unknown"]]
                        ELSE closes
           /\ notices' = Notified({l.window} \cap shown, l.id, "cancel")
           /\ UNCHANGED <<shown, pages>>
  /\ UNCHANGED <<gates, closers, main, counts>>

(* The desktop takes a note window away; one with unsaved text loses it      *)
(* whatever is done here.                                                    *)
WindowGone(w) ==
  /\ w \in shown /\ ~pages[w].dirty
  /\ Vanishes(w)
  /\ UNCHANGED <<gates, closers, leavers, main, counts>>

(* The main window opens a note window, and its page registers when it can   *)
(* hear notices (vault_window_close_ready).                                  *)
OpenNote(w) ==
  /\ w \notin shown /\ pages["main"].on = 0 /\ ~closes.committed
  /\ Move(0)
  /\ shown' = shown \cup {w}
  /\ pages' = [pages EXCEPT ![w] = NewPage(counts.ids)]
  /\ UNCHANGED <<closes, notices, gates, closers, leavers, main>>

WindowReady(w) ==
  /\ w \in shown /\ closes.pending.id = 0 /\ ~closes.committed
  /\ closes' = [closes EXCEPT !.ready = @ \cup {w}]
  /\ UNCHANGED <<shown, pages, notices, gates, closers, leavers, main, counts>>

-----------------------------------------------------------------------------
(* The windows' half (createCloseParticipant).                               *)
Heard(p, n) ==
  IF n.phase = "cancel"
  THEN [p EXCEPT !.over = @ \cup {n.id},
                 !.on = IF @ = n.id THEN 0 ELSE @,
                 !.step = IF p.on = n.id THEN "idle" ELSE @]
  ELSE IF n.id \in p.over \/ (p.on = n.id /\ (p.step # "idle" \/ n.phase = "waiting")) THEN p
  ELSE [p EXCEPT !.on = n.id,
                 !.step = IF n.phase = "prepare" THEN "flush" ELSE "idle"]

HearNotice(w) ==
  /\ notices[w] # <<>> /\ ~closes.committed
  /\ notices' = [notices EXCEPT ![w] = Tail(@)]
  /\ pages' = [pages EXCEPT ![w] = Heard(@, Head(notices[w]))]
  /\ UNCHANGED <<shown, closes, gates, closers, leavers, main, counts>>

(* ack: for the note window's own close, or for the vault's.                 *)
Acknowledged(b, w, id, saved) ==
  IF w \in Popout /\ b.notes[w].id # 0
  THEN IF b.notes[w].id = id
       THEN [b EXCEPT !.notes[w].saved = IF @ # "no" /\ saved THEN "yes" ELSE "no"]
       ELSE b
  ELSE IF b.pending.id = id /\ id # 0 /\ w \in b.pending.windows /\ ~b.committed
  THEN [b EXCEPT !.pending.waiting = @ \ {w}, !.pending.failed = @ \/ ~saved]
  ELSE b

(* The editors save, or one of them cannot, and the process is told for the  *)
(* close this window knows of, which may be over by now.                     *)
Flush(w, saved) ==
  /\ w \in shown /\ pages[w].step = "flush"
  /\ pages' = [pages EXCEPT ![w].step = "done",
                            ![w].dirty = @ /\ ~saved, ![w].behind = @ /\ ~saved]
  /\ closes' = Acknowledged(closes, w, pages[w].on, saved)
  /\ UNCHANGED <<shown, notices, gates, closers, leavers, main, counts>>

(* The user writes in a window that is not frozen; the editor saves later.   *)
Edit(w) ==
  /\ w \in shown /\ pages[w].on = 0 /\ ~closes.committed
  /\ pages' = [pages EXCEPT ![w].dirty = ~@]
  /\ UNCHANGED <<shown, closes, notices, gates, closers, leavers, main, counts>>

-----------------------------------------------------------------------------
(* Work in the background: admitted while the gate is not paused (enter);    *)
(* when a service's job ends it may have changed what the windows show, and  *)
(* they are behind until their editors saved the result.                     *)
Enter(g) ==
  /\ gates[g].by = 0 /\ ~gates[g].busy
  /\ gates' = [gates EXCEPT ![g].busy = TRUE]
  /\ UNCHANGED <<shown, closes, pages, notices, closers, leavers, main, counts>>

Finish(g) ==
  /\ gates[g].busy
  /\ gates' = [gates EXCEPT ![g].busy = FALSE]
  /\ pages' = [w \in Window |->
       [pages[w] EXCEPT !.behind = @ \/ (g = "jobs" /\ w \in shown)]]
  /\ UNCHANGED <<shown, closes, notices, closers, leavers, main, counts>>

-----------------------------------------------------------------------------
(* After the commit the main thread exits and takes everything with it.      *)
CloseNext ==
  /\ ~closes.committed
  /\ \/ \E r \in Asker : QueueClose(r) \/ CancelClose(r) \/ Callback(r)
     \/ \E r \in Asker \cup {"user"} : RequestClose(r)
     \/ \E i \in 1 .. MaxCloses : CloserStep(i)
     \/ \E w \in Popout : CloseNote(w) \/ WindowGone(w) \/ OpenNote(w)
     \/ \E l \in leavers : FinishNote(l)
     \/ \E w \in Window : WindowReady(w) \/ Edit(w) \/ HearNotice(w) \/ \E saved \in BOOLEAN : Flush(w, saved)
     \/ \E g \in DOMAIN gates : Enter(g) \/ Finish(g)

(* Threads get on (their waits have deadlines), the main thread serves its   *)
(* queue, and events reach the windows.  Nothing is assumed of the user, of  *)
(* background work or of an editor's save.                                   *)
Answers(r) == ~closes.committed /\ (Callback(r) \/ (main = r /\ RequestClose(r)))
GetsOn(i) == ~closes.committed /\ CloserStep(i)
NoteCloses(i) ==
  ~closes.committed /\ \E w \in Popout : FinishNote([window |-> w, id |-> i])

CloseFairness ==
  /\ \A r \in Asker : WF_closeVars(Answers(r))
  /\ \A i \in 1 .. MaxCloses : WF_closeVars(GetsOn(i)) /\ WF_closeVars(NoteCloses(i))
  /\ \A w \in Window : WF_closeVars(HearNotice(w))

CloseSpec == CloseInit /\ [][CloseNext]_closeVars /\ CloseFairness

-----------------------------------------------------------------------------
(* Nothing unsaved is closed: the process exits only when every window on    *)
(* the screen has saved what was written in it and no work is running, and   *)
(* nothing is written in one after that; a note window is destroyed only     *)
(* when what was typed in it is saved.  (can_commit and commit, as of        *)
(* worker_shutdown.rs:204, finish_window_close :296, the order drain, save,  *)
(* drain :662-760, and the freezing of close-participant.ts.)                *)
NothingUnsavedCloses ==
  [][ /\ \A w \in shown \ shown' : ~pages[w].dirty
      /\ closes'.committed => /\ \A w \in shown' : ~pages'[w].dirty /\ ~pages'[w].behind
                              /\ ~gates'.jobs.busy /\ ~gates'.saves.busy ]_closeVars

(* A cancelled request stays cancelled, and no close runs on its behalf:     *)
(* neither a copy of it that arrives late nor its callback on the main       *)
(* thread begins or joins one (cancel_request, worker_shutdown.rs:240-266).  *)
(* The exception is the code's: the callback looks at the request under the  *)
(* lock and begins under the lock again (:605-625), and a cancellation       *)
(* between the two is answered with success and does not stop the close.     *)
CancelledHolds ==
  [][ \A r \in Asker :
        Stopped(closes, r) /\ main # r => Stopped(closes', r) ]_closeVars

(* No window stays frozen: closes end, and the windows hear of it, unless    *)
(* the process exits (close-participant.ts:1).  A page that was              *)
(* opened after the close had begun is excepted: a note window that is       *)
(* closed and opened again while the thread of a cancelled close still       *)
(* drains gets that close's prepare notice and never its cancel notice.      *)
FrozenThaws ==
  \A w \in Window : []<>(\/ closes.committed \/ w \notin shown
                         \/ pages[w].on <= pages[w].since)

=============================================================================
