----------------------------- MODULE RoomFrames -----------------------------
(***************************************************************************)
(* What the sockets of one live room are told (hub.rs).  Every operation   *)
(* holds the hub's lock; a frame goes into the queue of each socket it is  *)
(* for, and the socket's task sends one after the other.  A socket whose   *)
(* queue is over its limit is removed by whoever meets it.                 *)
(***************************************************************************)
EXTENDS Naturals, Sequences, FiniteSets, FiniteSetsExt

CONSTANTS
  Socket,     \* sockets that join the room, each once: ids are never reused
  Owner,      \* the account of each
  MaxQueued,  \* MAX_QUEUED_BYTES, in frames
  MaxNews     \* bound: relays and changes of access

ASSUME FramesAssumption == IsFiniteSet(Socket) /\ {MaxQueued, MaxNews} \subseteq Nat

VARIABLES
  hub,     \* who is in the room, with which access, and the queue of each
  told,    \* what each client has of the frames it was sent
  news,    \* how many relays and changes of access there were
  unsaid   \* not in the code: who went as slow, who missed a change of access

frameVars == <<hub, told, news, unsaid>>

Access == {"read", "write"}

Nothing == [roster |-> {}, access |-> "read"]

FramesInit ==
  /\ hub = [peers |-> {}, new |-> Socket,
            access |-> [s \in Socket |-> "read"],
            queue |-> [s \in Socket |-> << >>],
            counted |-> [s \in Socket |-> 0]]
  /\ told = [s \in Socket |-> Nothing]
  /\ news = 0
  /\ unsaid = [slow |-> {}, missed |-> {}]

Frame(kind, who, access) == [kind |-> kind, who |-> who, access |-> access]

(* Peer::push: what is waiting is counted up by every frame; one that      *)
(* finds too much waiting is not queued.                                   *)
HasSpace(h, s) == h.counted[s] <= MaxQueued

Push(h, s, f) ==
  [h EXCEPT !.counted[s] = @ + 1,
            !.queue[s] = IF HasSpace(h, s) THEN Append(@, f) ELSE @]

Gone(h, ss) ==
  [h EXCEPT !.peers = @ \ ss,
            !.access = [s \in Socket |-> IF s \in ss THEN "read" ELSE @[s]],
            !.queue = [s \in Socket |-> IF s \in ss THEN << >> ELSE @[s]],
            !.counted = [s \in Socket |-> IF s \in ss THEN 0 ELSE @[s]]]

(* broadcast: those it cannot be pushed to are out of the room.            *)
Broadcast(h, f, to) ==
  LET sent == FoldSet(LAMBDA s, acc : Push(acc, s, f), h, to) IN
  Gone(sent, {s \in to : ~HasSpace(h, s)})

(* A step leaves the hub like h, and told the rest of the room only of the *)
(* announced that they went.                                               *)
Becomes(h, announced) ==
  /\ hub' = h
  /\ told' = [s \in Socket |-> IF s \in h.peers THEN told[s] ELSE Nothing]
  /\ unsaid' = [slow |-> unsaid.slow \cup ((hub.peers \ h.peers) \ announced),
                missed |-> unsaid.missed \cap h.peers]

(* join: the newcomer is told who is there, they are told of it, and then  *)
(* it is in the room.                                                      *)
JoinRoom(s) ==
  \E a \in Access :
    /\ s \in hub.new
    /\ LET welcomed == Push([hub EXCEPT !.new = @ \ {s}, !.access[s] = a],
                            s, Frame("welcome", hub.peers, a))
           there == Broadcast(welcomed, Frame("joined", {s}, a), hub.peers)
       IN Becomes([there EXCEPT !.peers = @ \cup {s}], {})
    /\ UNCHANGED news

(* As when the others were told only of those who go by themselves.        *)
OutQuietly(h, s) == Gone(h, {s})

(* The body of evict: each one that goes is announced to those left.       *)
Out(h, s) == Broadcast(Gone(h, {s}), Frame("left", {s}, "read"), h.peers \ {s})

(* membership_changed(None), close_sockets: an account's or a session's    *)
(* sockets go one after the other.                                         *)
Evict(gone) ==
  /\ gone # {} /\ gone \subseteq hub.peers
  /\ Becomes(FoldSet(LAMBDA s, h : Out(h, s), hub, gone), gone)
  /\ UNCHANGED news

EvictAccount == \E t \in hub.peers : Evict({s \in hub.peers : Owner[s] = Owner[t]})

EvictSession == \E s \in hub.peers : Evict({s})

(* leave, by the socket's own task.                                        *)
LeaveRoom(s) ==
  /\ s \in hub.peers
  /\ Becomes(Broadcast(Gone(hub, {s}), Frame("left", {s}, "read"), hub.peers \ {s}), {s})
  /\ UNCHANGED news

(* relay: to everybody else, or to the one a reply is for.                 *)
Relay(s) ==
  \E to \in {hub.peers \ {s}} \cup {{t} : t \in hub.peers \ {s}} :
    /\ s \in hub.peers /\ to # {}
    /\ Becomes(Broadcast(hub, Frame("data", {s}, "read"), to), {})
    /\ UNCHANGED news

(* membership_changed(Some): a frame that cannot be pushed is let go, and  *)
(* the socket stays.                                                       *)
AccessChanged ==
  \E t \in hub.peers, a \in Access :
    LET mine == {s \in hub.peers : Owner[s] = Owner[t] /\ hub.access[s] # a}
        set == [hub EXCEPT !.access = [s \in Socket |-> IF s \in mine THEN a ELSE @[s]]]
    IN
    /\ mine # {} /\ news < MaxNews
    /\ hub' = FoldSet(LAMBDA s, h : Push(h, s, Frame("access", {}, a)), set, mine)
    /\ unsaid' = [unsaid EXCEPT !.missed = @ \cup {s \in mine : ~HasSpace(hub, s)}]
    /\ news' = news + 1
    /\ UNCHANGED told

(* What a client makes of a frame.                                         *)
Told(v, f) ==
  CASE f.kind = "welcome" -> [roster |-> f.who, access |-> f.access]
    [] f.kind = "joined" -> [v EXCEPT !.roster = @ \cup f.who]
    [] f.kind = "left" -> [v EXCEPT !.roster = @ \ f.who]
    [] f.kind = "access" -> [v EXCEPT !.access = f.access]
    [] OTHER -> v

(* The socket's task takes the next frame.                                 *)
Deliver(s) ==
  /\ s \in hub.peers /\ hub.queue[s] # << >>
  /\ hub' = [hub EXCEPT !.queue[s] = Tail(@), !.counted[s] = @ - 1]
  /\ told' = [told EXCEPT ![s] = Told(@, Head(hub.queue[s]))]
  /\ UNCHANGED <<news, unsaid>>

FramesNext ==
  \/ \E s \in Socket : JoinRoom(s) \/ LeaveRoom(s) \/ Relay(s) \/ Deliver(s)
  \/ EvictAccount \/ EvictSession \/ AccessChanged

FramesSpec == FramesInit /\ [][FramesNext]_frameVars

-----------------------------------------------------------------------------
(* Once its queue is sent, every client in the room knows exactly who is   *)
(* there and its own access, but for two kinds of news the hub does not    *)
(* send: that somebody was removed as slow, and a change of access that    *)
(* met a full queue (broadcast, evict, membership_changed). No queue grows *)
(* past its limit.                                                         *)
RosterTold ==
  \A s \in hub.peers :
    LET Seen[n \in 0 .. Len(hub.queue[s])] ==
          IF n = 0 THEN told[s] ELSE Told(Seen[n - 1], hub.queue[s][n])
        v == Seen[Len(hub.queue[s])]
    IN
    /\ hub.peers \ {s} \subseteq v.roster
    /\ v.roster \subseteq hub.peers \cup unsaid.slow
    /\ v.access = hub.access[s] \/ s \in unsaid.missed
    /\ Len(hub.queue[s]) <= MaxQueued + 1
=============================================================================
