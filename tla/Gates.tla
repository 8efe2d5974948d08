-------------------------------- MODULE Gates --------------------------------
(***************************************************************************)
(* Caps on what a server holds for its callers at once (edge.rs): open     *)
(* connections, request bodies in memory, and responses that wait to be    *)
(* taken.  A gate counts the places of the permits that are out; a permit  *)
(* gives back what it holds by whichever path its request ends.            *)
(***************************************************************************)
EXTENDS Naturals, FiniteSetsExt

CONSTANTS
  Connection,  \* connections that clients open
  Address,     \* where they come from
  PerCaller,   \* the cap of each gate for an address; zero is none
  Total,       \* the cap of each gate for all of them
  Largest,     \* bound: parts of a body or of a response
  Grace        \* how long a client may take nothing, in ticks

Gate == {"connections", "bodies", "responses"}

Shared == "shared"   \* the caller of a trusted proxy's permit: only the total counts

ASSUME GatesAssumption ==
  /\ IsFiniteSet(Connection) /\ Shared \notin Address
  /\ {PerCaller, Total} \subseteq [Gate -> Nat]
  /\ Largest \in Nat /\ Grace \in Nat \ {0}

VARIABLES
  open,       \* Open of each gate: its total, and what each caller has of it
  link,       \* what each connection is doing
  places,     \* what each connection's permits hold at each gate
  stopping    \* the server takes no more connections

gateVars == <<open, link, places, stopping>>

Closed == [at |-> "closed", from |-> Shared, caller |-> Shared,
           unsent |-> 0, quiet |-> 0, patience |-> 0]
NoPlaces == [g \in Gate |-> 0]

GatesInit ==
  /\ open = [g \in Gate |-> [total |-> 0, by |-> [a \in Address |-> 0]]]
  /\ link = [c \in Connection |-> Closed]
  /\ places = [c \in Connection |-> NoPlaces]
  /\ stopping = FALSE

Doing(c, at) == link[c].at = at

(* The connection counts against the peer, its requests against the client *)
(* the proxy names.                                                        *)
CallerAt(g, l) == IF g = "connections" THEN l.from ELSE l.caller

Within(cap, n) == cap = 0 \/ n <= cap

(* Permit::take and enter_shared.                                          *)
HasRoom(g, caller, n) ==
  /\ Within(Total[g], open[g].total + n)
  /\ caller # Shared => Within(PerCaller[g], open[g].by[caller] + n)

(* As when a caller's count was raised before the total was looked at.     *)
TakenUnseen(g, caller, n) ==
  [open EXCEPT ![g] =
    [total |-> IF HasRoom(g, caller, n) THEN @.total + n ELSE @.total,
     by |-> [a \in Address |-> @.by[a] + (IF a = caller THEN n ELSE 0)]]]

(* What the gates count once n more were asked for: all of them or none.   *)
Taken(g, caller, n) ==
  IF HasRoom(g, caller, n)
  THEN [open EXCEPT ![g] =
         [total |-> @.total + n,
          by |-> [a \in Address |-> @.by[a] + (IF a = caller THEN n ELSE 0)]]]
  ELSE open

(* give_back, and with everything that is held, Drop for Permit.           *)
Back(c, given) ==
  /\ open' = [g \in Gate |->
       [total |-> open[g].total - given[g],
        by |-> [a \in Address |->
          open[g].by[a] - (IF a = CallerAt(g, link[c]) THEN given[g] ELSE 0)]]]
  /\ places' = [places EXCEPT ![c] = [g \in Gate |-> @[g] - given[g]]]

Only(c, gs) == [g \in Gate |-> IF g \in gs THEN places[c][g] ELSE 0]

Now(c, at) == link' = [link EXCEPT ![c] = [@ EXCEPT !.at = at, !.quiet = Grace, !.patience = Grace]]

(* CappedListener::accept: without a place the stream is dropped at once.  *)
Accept(c) ==
  \E a \in Address \cup {Shared} :
    /\ Doing(c, "closed") /\ ~stopping /\ HasRoom("connections", a, 1)
    /\ open' = Taken("connections", a, 1)
    /\ places' = [places EXCEPT ![c] = [NoPlaces EXCEPT !["connections"] = 1]]
    /\ link' = [link EXCEPT ![c] =
         [at |-> "waiting", from |-> a, caller |-> a, unsent |-> 0,
          quiet |-> Grace, patience |-> Grace]]
    /\ UNCHANGED stopping

(* A request begins. Those of a proxy come from whom its header names.     *)
Arrives(c) ==
  \E a \in Address :
    /\ Doing(c, "waiting")
    /\ link[c].from \in {a, Shared}
    /\ link' = [link EXCEPT ![c] = [@ EXCEPT !.at = "reading", !.caller = a, !.quiet = Grace]]
    /\ UNCHANGED <<open, places, stopping>>

(* Take n more places for c and go on, or have none of them and refuse.    *)
Take(c, g, n, next) ==
  LET has == HasRoom(g, CallerAt(g, link[c]), n) IN
  /\ open' = Taken(g, CallerAt(g, link[c]), n)
  /\ places' = IF has THEN [places EXCEPT ![c][g] = @ + n] ELSE places
  /\ link' = [link EXCEPT ![c] = IF has THEN next ELSE [@ EXCEPT !.at = "refused"]]

(* Counted::poll_frame: each part of a body takes room as it comes.        *)
Part(c) ==
  /\ Doing(c, "reading") /\ places[c]["bodies"] < Largest
  /\ Take(c, "bodies", 1, [link[c] EXCEPT !.quiet = Grace])
  /\ UNCHANGED stopping

(* Paced: a body that comes too slowly ends like a broken one.             *)
TooSlow(c) ==
  /\ Doing(c, "reading")
  /\ Now(c, "refused")
  /\ UNCHANGED <<open, places, stopping>>

BodyRead(c) ==
  /\ Doing(c, "reading")
  /\ Now(c, "handling")
  /\ UNCHANGED <<open, places, stopping>>

(* ResponseRoom::take: a handler takes room before it reads what it will   *)
(* answer with.                                                            *)
Reserve(c) ==
  \E n \in 1 .. Largest :
    /\ Doing(c, "handling") /\ places[c]["responses"] + n <= Largest
    /\ Take(c, "responses", n, link[c])
    /\ UNCHANGED stopping

(* settle, and the layer around the handler: an answer holds what it       *)
(* weighs, whatever was taken for it, and the body is gone.                *)
Build(c) ==
  \E n \in 1 .. Largest :
    /\ Doing(c, "handling")
    /\ IF n > places[c]["responses"]
       THEN Take(c, "responses", n - places[c]["responses"],
                 [link[c] EXCEPT !.at = "built", !.unsent = n])
       ELSE /\ Back(c, [NoPlaces EXCEPT !["responses"] = places[c]["responses"] - n])
            /\ link' = [link EXCEPT ![c] = [@ EXCEPT !.at = "built", !.unsent = n]]
    /\ UNCHANGED stopping

(* The handler returned: its body's room goes, and the answer is sent with *)
(* the patience a client starts with.                                      *)
Send(c) ==
  /\ Doing(c, "built")
  /\ Back(c, Only(c, {"bodies"}))
  /\ Now(c, "sending")
  /\ UNCHANGED stopping

(* A small answer, a refusal, or the end of one that was taken: nothing of *)
(* the request is held any longer.                                         *)
Answered(c) ==
  /\ \/ link[c].at \in {"handling", "refused"}
     \/ (Doing(c, "sending") /\ link[c].unsent = 0)
  /\ Back(c, Only(c, {"bodies", "responses"}))
  /\ Now(c, IF stopping THEN "closing" ELSE "waiting")
  /\ UNCHANGED stopping

(* Sending and written: the client takes a piece, which buys it patience.  *)
Piece(c) ==
  /\ Doing(c, "sending") /\ link[c].unsent > 0
  /\ link' = [link EXCEPT ![c] = [@ EXCEPT !.unsent = link[c].unsent - 1, !.quiet = Grace, !.patience = Grace]]
  /\ UNCHANGED <<open, places, stopping>>

(* A client may send on while it takes nothing: that is not quiet.         *)
Chatter(c) ==
  /\ Doing(c, "sending") /\ link[c].quiet < Grace
  /\ link' = [link EXCEPT ![c].quiet = Grace]
  /\ UNCHANGED <<open, places, stopping>>

(* As when a connection was cut only once nothing moved on it either way.  *)
DueQuiet(c) == link[c].quiet = 0

(* due: too long quiet, or an answer that waits past the patience earned.  *)
Due(c) == link[c].quiet = 0 \/ (Doing(c, "sending") /\ link[c].patience = 0)

(* Time passes while nothing moves.                                        *)
Tick(c) ==
  /\ link[c].at \in {"waiting", "reading", "handling", "sending"} /\ ~Due(c)
  /\ link' = [link EXCEPT ![c] =
       [@ EXCEPT !.quiet = link[c].quiet - 1,
                 !.patience = IF Doing(c, "sending") /\ link[c].patience > 0
                              THEN link[c].patience - 1 ELSE link[c].patience]]
  /\ UNCHANGED <<open, places, stopping>>

(* The stream is dropped with its permit, and with it the requests on it.  *)
Drop(c) ==
  /\ Back(c, places[c])
  /\ link' = [link EXCEPT ![c] = Closed]
  /\ UNCHANGED stopping

(* poll_quiet ends what is due; shutdown ends what waits for a request.    *)
Cut(c) == Due(c) /\ link[c].at \in {"waiting", "reading", "handling", "sending"} /\ Drop(c)

EndConnection(c) == (Doing(c, "closing") \/ (Doing(c, "waiting") /\ stopping)) /\ Drop(c)

(* The client is gone, at any point of its request.                        *)
Leave(c) == ~Doing(c, "closed") /\ Drop(c)

Shutdown ==
  /\ ~stopping
  /\ stopping' = TRUE
  /\ UNCHANGED <<open, link, places>>

(* What the server does by itself, with the deadline of a body, and the    *)
(* clock of the connection.                                                *)
Serve(c) == TooSlow(c) \/ Build(c) \/ Send(c) \/ Answered(c) \/ EndConnection(c)

Clocked(c) == Tick(c) \/ Cut(c)

GatesNext ==
  \/ \E c \in Connection :
       \/ Accept(c) \/ Arrives(c) \/ Part(c) \/ BodyRead(c) \/ Reserve(c) \/ Piece(c)
       \/ Chatter(c) \/ Leave(c) \/ Serve(c) \/ Clocked(c)
  \/ Shutdown

GatesSpec == GatesInit /\ [][GatesNext]_gateVars

-----------------------------------------------------------------------------
(* A gate counts exactly what the permits that are out hold, under each    *)
(* caller and in all, and never more than its caps; what still waits to be *)
(* taken is counted (take, give_back, settle, Drop for Permit).            *)
GatesBalanced ==
  /\ \A g \in Gate :
       LET Held(cs) == MapThenSumSet(LAMBDA c : places[c][g], cs) IN
       /\ open[g].total = Held(Connection) /\ Within(Total[g], open[g].total)
       /\ \A a \in Address :
            /\ open[g].by[a] = Held({c \in Connection : CallerAt(g, link[c]) = a})
            /\ Within(PerCaller[g], open[g].by[a])
  /\ \A c \in Connection : link[c].unsent <= places[c]["responses"]

(* Room that a body or an answer holds is given back, however slowly the   *)
(* client sends or takes, and a server that stops comes to its end         *)
(* (CappedStream, Paced, serve_with).                                      *)
RoomComesBack ==
  /\ \A c \in Connection : []<>(places[c]["bodies"] = 0 /\ places[c]["responses"] = 0)
  /\ []<>(stopping => \A c \in Connection : Doing(c, "closed"))
=============================================================================
