------------------------------ MODULE MCServices ------------------------------
(* The parts of the sync server and of the desktop's processes that share no *)
(* state with each other, each alone: `part` says which one runs, and the    *)
(* others stay as they begin.                                                *)
EXTENDS Budget, Blobs, Links, Gates, Sessions, RoomFrames, VaultClose, VaultHandoff, Openings

CONSTANTS r1, r2, r3, n1, n2, c1, c2, k1, k2, nokey, ow, p1, p2, x, d1, d2, d3

PerCallerCaps == [g \in Gate |-> IF g = "connections" THEN 1 ELSE 2]
TotalCaps == [g \in Gate |-> IF g = "connections" THEN 2 ELSE 3]
Owners == [s \in {d1, d2, d3} |-> IF s = d3 THEN p2 ELSE p1]

VARIABLE part

Parts == {"budget", "blobs", "links", "gates", "sessions", "frames", "close", "handoff",
          "openings"}

Init ==
  /\ part \in Parts
  /\ BudgetInit /\ BlobsInit /\ LinksInit /\ GatesInit
  /\ SessionsInit /\ FramesInit /\ CloseInit /\ HandoffInit
  /\ OpeningsInit
  /\ part = "budget" \/ \A c \in Owned : spaceState[c] = "none"
  /\ part = "links" \/ \A p \in Person : standing[p] # "out"
  /\ part = "openings" \/ Opens
  /\ part = "sessions" \/ (~factor.confirmed /\ ~factor.pending /\ unused = {} /\ granted = {})

Alone(name) == part = name /\ UNCHANGED part
RestOf(name) ==
  /\ name = "budget" \/ UNCHANGED budgetVars
  /\ name = "blobs" \/ UNCHANGED blobVars
  /\ name = "links" \/ UNCHANGED linkVars
  /\ name = "gates" \/ UNCHANGED gateVars
  /\ name = "sessions" \/ UNCHANGED sessionVars
  /\ name = "frames" \/ UNCHANGED frameVars
  /\ name = "close" \/ UNCHANGED closeVars
  /\ name = "handoff" \/ UNCHANGED handoffVars
  /\ name = "openings" \/ UNCHANGED openingVars

Next ==
  \/ Alone("budget") /\ BudgetNext /\ RestOf("budget")
  \/ Alone("blobs") /\ BlobsNext /\ RestOf("blobs")
  \/ Alone("links") /\ LinksNext /\ RestOf("links")
  \/ Alone("gates") /\ GatesNext /\ RestOf("gates")
  \/ Alone("sessions") /\ SessionsNext /\ RestOf("sessions")
  \/ Alone("frames") /\ FramesNext /\ RestOf("frames")
  \/ Alone("close") /\ CloseNext /\ RestOf("close")
  \/ Alone("handoff") /\ HandoffNext /\ RestOf("handoff")
  \/ Alone("openings") /\ OpeningsNext /\ RestOf("openings")

vars == <<part, budgetVars, blobVars, linkVars, gateVars, sessionVars, frameVars,
          closeVars, handoffVars, openingVars>>

(* The fairness each module states, for the part that runs.                  *)
Fairness ==
  /\ \A r \in Request : WF_budgetVars(part = "budget" /\ Proceed(r))
  /\ WF_blobVars(part = "blobs" /\ TransactionEnds)
  /\ \A k \in BlobKey : WF_blobVars(part = "blobs" /\ GrowOld /\ k \in aged')
  /\ WF_blobVars(part = "blobs" /\ Sweep) /\ WF_blobVars(part = "blobs" /\ Reclaim)
  /\ \A c \in Connection :
       /\ WF_gateVars(part = "gates" /\ Serve(c))
       /\ WF_gateVars(part = "gates" /\ Clocked(c))
  /\ \A r \in Asker : WF_closeVars(part = "close" /\ Answers(r))
  /\ \A i \in 1 .. MaxCloses :
       /\ WF_closeVars(part = "close" /\ GetsOn(i))
       /\ WF_closeVars(part = "close" /\ NoteCloses(i))
  /\ \A w \in Window : WF_closeVars(part = "close" /\ HearNotice(w))
  /\ WF_handoffVars(part = "handoff" /\ Thread)
  /\ WF_handoffVars(part = "handoff" /\ Restart)

Spec == Init /\ [][Next]_vars /\ Fairness
=============================================================================
