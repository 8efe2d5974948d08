---------------------------- MODULE SharingProofs ---------------------------
(***************************************************************************)
(* What is proved of what is shared: of the folders a device receives      *)
(* (ReceivedFolders), of the images of notes that go between the vault and *)
(* a shared folder (NoteImages), and of the rooms of the sync server       *)
(* (RoomAccess).                                                           *)
(***************************************************************************)
EXTENDS ReceivedFolders, NoteImages, RoomAccess, FoldTheorems, SequenceTheorems
-----------------------------------------------------------------------------
(***************************************************************************)
(* HoldsWhatItShares, for any number of folders.                           *)
(*                                                                         *)
(* The account's cursor says how far the list of the last complete sync    *)
(* went.  The invariant says what that is worth: every folder that has not *)
(* changed since is settled, unless it went astray (OldAreSettled).  While *)
(* a sync runs, every folder its list passed is settled, or still to be    *)
(* fetched, applied or purged, or the sync is marked incomplete            *)
(* (ListedAreComing); and what was fetched is the folder as it is, or the  *)
(* folder has moved past the list meanwhile (RunIsSound).                  *)
(***************************************************************************)
Walking == {"list", "visit", "work"}
RunState ==
  [at : Walking \cup {"idle", "push"}, full : BOOLEAN, next : Nat,
   live : SUBSET Folder, gone : SUBSET Folder, todo : Seq(Folder), open : SUBSET Folder,
   folder : Folder \cup {NoFolder}, upTo : Nat, fresh : BOOLEAN, complete : BOOLEAN]

(* The server's numbers: a folder has one of its own, and its loss has the   *)
(* folder's.                                                                 *)
ServerNumbers ==
  /\ now \in Nat
  /\ share \in [Folder -> [in : BOOLEAN, at : Nat, lost : Nat]]
  /\ \A f \in Folder : 1 <= share[f].at /\ share[f].at <= now
                        /\ share[f].lost = IF share[f].in THEN 0 ELSE share[f].at
  /\ \A f, g \in Folder : share[f].at = share[g].at => f = g

FoldersTypeOK ==
  /\ ServerNumbers
  /\ copy \in [Folder -> [rows : {"none", "part", "whole"}, upTo : Nat]]
  /\ cursor \in Nat /\ cursor <= now
  /\ run \in RunState
  /\ leaving.at # "idle" => leaving.folder \in Folder

(* What was fetched is the folder as it is, or it moved past the list.       *)
RunIsSound ==
  /\ run.at = "idle" => run = AtRest
  /\ run.at # "idle" => cursor <= run.next /\ run.next <= now /\ (run.full <=> cursor = 0)
  /\ run.at = "list" => run.live = Range(run.todo) /\ run.complete
  /\ run.folder # NoFolder =>
       /\ run.at \in {"visit", "work"}
       /\ 0 < run.upTo /\ run.upTo <= share[run.folder].at
       /\ run.upTo = share[run.folder].at => share[run.folder].in
       /\ run.upTo < share[run.folder].at => run.next < share[run.folder].at
       /\ run.folder \notin astray /\ ~run.fresh => copy[run.folder].rows = "whole"

CopiesAreWhole == \A f \in Folder \ astray : copy[f].upTo # 0 => copy[f].rows = "whole"

Settled(f) ==
  IF share[f].in THEN copy[f].rows = "whole" /\ copy[f].upTo = share[f].at
  ELSE copy[f].rows = "none" \/ f \notin rooted

(* What the list named and is still to be done.                              *)
Coming(f) ==
  \/ Settled(f)
  \/ share[f].in /\ (f \in Range(run.todo) \/ run.folder = f)
  \/ ~share[f].in /\ IF run.full THEN f \in Range(run.todo) \/ f \notin run.live ELSE f \in run.gone

OldAreSettled == \A f \in Folder \ astray : share[f].at <= cursor => Settled(f)
ListedAreComing ==
  run.complete => \A f \in Folder \ astray :
    cursor < share[f].at /\ share[f].at <= run.next =>
      /\ run.at \in Walking => Coming(f)
      /\ run.at = "push" => Settled(f)

FoldersInv == FoldersTypeOK /\ RunIsSound /\ CopiesAreWhole /\ OldAreSettled /\ ListedAreComing

-----------------------------------------------------------------------------
LEMMA GreatestOne ==
  ASSUME NEW S \in SUBSET Nat, S # {}, NEW n \in Nat, \A x \in S : x <= n
  PROVE  Max(S) \in S /\ \A x \in S : x <= Max(S)
<1>1. PICK d \in {n - x : x \in S} : \A e \in {n - x : x \in S} : d <= e
  <2>1. PICK y : y \in S
    OBVIOUS
  <2>2. \A x \in S : n - x \in Nat
    OBVIOUS
  <2>3. n - y \in {n - x : x \in S}
    BY <2>1
  <2>4. {n - x : x \in S} \in SUBSET Nat /\ {n - x : x \in S} # {}
    BY <2>2, <2>3
  <2> QED BY <2>4, LeastOne
<1>2. PICK m \in S : d = n - m
  BY <1>1
<1>3. \A x \in S : m >= x
  BY <1>1, <1>2
<1>4. Max(S) \in S /\ \A x \in S : Max(S) >= x
  BY <1>2, <1>3 DEF Max
<1>5. Max(S) \in Nat
  BY <1>4
<1> QED BY <1>4, <1>5

LEMMA SetInSeq ==
  ASSUME NEW S, IsFiniteSet(S)
  PROVE  /\ SetToSeq(S) \in Seq(S) /\ Range(SetToSeq(S)) = S
         /\ Len(SetToSeq(S)) = Cardinality(S)
         /\ \A i, j \in 1 .. Cardinality(S) : SetToSeq(S)[i] = SetToSeq(S)[j] => i = j
<1> DEFINE n == Cardinality(S)
           q == SetToSeq(S)
<1>1. n \in Nat /\ \E f \in [1 .. n -> S] : IsInjective(f)
  BY FS_CardinalityType DEF ExistsBijection, Bijection, Injection, IsInjective
<1>2. q \in [1 .. n -> S] /\ IsInjective(q)
  BY <1>1 DEF SetToSeq
<1>3. q \in Injection(1 .. n, S)
  BY <1>2 DEF Injection
<1>4. IsFiniteSet(1 .. n) /\ Cardinality(1 .. n) = n
  BY <1>1, FS_Interval
<1>5. q \in Surjection(1 .. n, S)
  BY <1>3, <1>4, FS_Injection
<1>6. q \in Seq(S) /\ Len(q) = n /\ DOMAIN q = 1 .. n
  BY <1>1, <1>2
<1>7. Range(q) = S
  BY <1>2, <1>5, <1>6 DEF Range, Surjection
<1> QED BY <1>2, <1>6, <1>7 DEF IsInjective

LEMMA OldestOne ==
  ASSUME FoldersTypeOK, NEW listed \in SUBSET Folder, listed # {}
  PROVE  \E f \in listed : Oldest(listed) = {f} /\ \A g \in listed : share[f].at <= share[g].at
<1>1. PICK m \in {share[g].at : g \in listed} : \A k \in {share[g].at : g \in listed} : m <= k
  <2>1. PICK g : g \in listed
    OBVIOUS
  <2>2. share[g].at \in {share[h].at : h \in listed}
    BY <2>1
  <2>3. {share[h].at : h \in listed} \in SUBSET Nat /\ {share[h].at : h \in listed} # {}
    BY <2>2 DEF FoldersTypeOK, ServerNumbers
  <2> QED BY <2>3, LeastOne
<1>2. \E f \in listed : \A g \in listed : share[f].at <= share[g].at
  BY <1>1
<1> QED BY <1>2 DEF Oldest

(* What the server does to folder f while the sync is at whatever step.      *)
ServerMay ==
  \/ \E f \in Folder, in \in BOOLEAN : (share[f].in \/ in) /\ Moved(f, in)
  \/ \E f \in Folder : share[f].in /\ Moved(f, FALSE)
  \/ UNCHANGED serverVars
SyncGoesOn ==
  \/ run' = run
  \/ \E f \in Folder : run.at = "push" /\ run' = [run EXCEPT !.open = @ \ {f}]

LEMMA ServerStep ==
  ASSUME FoldersInv, ServerMay, SyncGoesOn, UNCHANGED <<copy, rooted, cursor, astray>>,
         leaving'.at # "idle" => leaving'.folder \in Folder
  PROVE  FoldersInv'
<1>1. run \in RunState /\ ServerNumbers
  BY DEF FoldersInv, FoldersTypeOK
<1>2. /\ run' \in RunState
      /\ run'.at = run.at /\ run'.full = run.full /\ run'.next = run.next /\ run'.live = run.live
      /\ run'.gone = run.gone /\ run'.todo = run.todo /\ run'.folder = run.folder
      /\ run'.upTo = run.upTo /\ run'.fresh = run.fresh /\ run'.complete = run.complete
      /\ run' = run \/ run.at = "push"
  BY <1>1 DEF SyncGoesOn, RunState
<1>3. /\ now' \in Nat /\ now <= now' /\ ServerNumbers'
      /\ \A f \in Folder : share'[f] = share[f] \/ share'[f].at > now
  <2>1. CASE UNCHANGED serverVars
    BY <1>1, <2>1 DEF serverVars, ServerNumbers
  <2>2. CASE \E f \in Folder, in \in BOOLEAN : Moved(f, in)
    <3>1. PICK f \in Folder, in \in BOOLEAN : Moved(f, in)
      BY <2>2
    <3>2. now' = now + 1 /\ share' = [share EXCEPT ![f] = [in |-> in, at |-> now + 1, lost |-> IF in THEN 0 ELSE now + 1]]
      BY <3>1 DEF Moved
    <3>3. share' \in [Folder -> [in : BOOLEAN, at : Nat, lost : Nat]]
      BY <1>1, <3>2 DEF ServerNumbers
    <3>4. share'[f].at = now + 1 /\ share'[f].lost = IF share'[f].in THEN 0 ELSE now + 1
      BY <1>1, <3>2 DEF ServerNumbers
    <3>5. \A g \in Folder : g # f => share'[g] = share[g]
      BY <1>1, <3>2 DEF ServerNumbers
    <3>6. now \in Nat /\ \A g \in Folder : share[g].at \in Nat /\ 1 <= share[g].at /\ share[g].at <= now
                        /\ share[g].lost = IF share[g].in THEN 0 ELSE share[g].at
      BY <1>1 DEF ServerNumbers
    <3>7. \A g \in Folder : 1 <= share'[g].at /\ share'[g].at <= now'
                        /\ share'[g].lost = IF share'[g].in THEN 0 ELSE share'[g].at
      BY <3>2, <3>4, <3>5, <3>6
    <3>8. \A g, h \in Folder : share'[g].at = share'[h].at => g = h
      BY <1>1, <3>4, <3>5, <3>6 DEF ServerNumbers
    <3> QED BY <3>2, <3>3, <3>4, <3>5, <3>6, <3>7, <3>8 DEF ServerNumbers
  <2> QED BY <2>1, <2>2 DEF ServerMay
<1>4. FoldersTypeOK'
  <2>1. cursor \in Nat /\ cursor <= now /\ now \in Nat /\ cursor <= now'
    BY <1>1, <1>3 DEF FoldersInv, FoldersTypeOK, ServerNumbers
  <2> QED BY <1>2, <1>3, <2>1 DEF FoldersInv, FoldersTypeOK
<1>5. now \in Nat /\ cursor <= now /\ cursor \in Nat /\ (run.at # "idle" => run.next <= now) /\ run.next \in Nat
  BY <1>1 DEF FoldersInv, FoldersTypeOK, RunIsSound, RunState, ServerNumbers
<1>6. \A f \in Folder : share'[f].at \in Nat /\ share[f].at \in Nat /\ share[f].at <= now
  BY <1>1, <1>3 DEF ServerNumbers
<1>7. RunIsSound'
  <2>1. ASSUME run.folder # NoFolder
        PROVE  /\ run.upTo \in Nat /\ run.folder \in Folder /\ run.upTo <= share'[run.folder].at
               /\ run.upTo = share'[run.folder].at => share'[run.folder].in
               /\ run.upTo < share'[run.folder].at => run.next < share'[run.folder].at
    <3>1. run.folder \in Folder /\ run.upTo \in Nat
      BY <1>1, <2>1 DEF RunState
    <3>2. /\ run.at # "idle" /\ run.upTo <= share[run.folder].at
          /\ run.upTo = share[run.folder].at => share[run.folder].in
          /\ run.upTo < share[run.folder].at => run.next < share[run.folder].at
      BY <2>1 DEF FoldersInv, RunIsSound
    <3> QED BY <1>3, <1>5, <1>6, <3>1, <3>2
  <2> QED BY <1>2, <1>3, <1>5, <2>1 DEF FoldersInv, RunIsSound
<1>8. \A f \in Folder : share'[f].at <= cursor \/ (run.at # "idle" /\ share'[f].at <= run.next)
        => share'[f] = share[f]
  BY <1>3, <1>5, <1>6
<1>9. \A f \in Folder : share'[f] = share[f] => (Settled(f) => Settled(f)') /\ (Coming(f) => Coming(f)')
  BY <1>2 DEF Settled, Coming
<1>10. OldAreSettled'
  BY <1>8, <1>9 DEF FoldersInv, OldAreSettled
<1>11. ListedAreComing'
  <2> SUFFICES ASSUME run.complete, NEW f \in Folder \ astray, cursor < share'[f].at, share'[f].at <= run.next
               PROVE  (run.at \in Walking => Coming(f)') /\ (run.at = "push" => Settled(f)')
    BY <1>2 DEF ListedAreComing
  <2>1. CASE run.at \in Walking \cup {"push"}
    <3>1. share'[f] = share[f]
      BY <1>8, <2>1 DEF Walking
    <3> QED BY <1>9, <3>1 DEF FoldersInv, ListedAreComing
  <2>2. CASE run.at \notin Walking \cup {"push"}
    BY <2>2
  <2> QED BY <2>1, <2>2
<1>12. CopiesAreWhole'
  BY DEF FoldersInv, CopiesAreWhole
<1> QED BY <1>4, <1>7, <1>10, <1>11, <1>12 DEF FoldersInv

LEMMA RangeOfJoin ==
  ASSUME NEW T, NEW p \in Seq(T), NEW q \in Seq(T)
  PROVE  p \o q \in Seq(T) /\ Range(p \o q) = Range(p) \cup Range(q)
<1>1. p \o q \in Seq(T) /\ Len(p \o q) = Len(p) + Len(q)
  OBVIOUS
<1>2. \A i \in 1 .. Len(p) : (p \o q)[i] = p[i]
  OBVIOUS
<1>3. \A i \in 1 .. Len(q) : (p \o q)[Len(p) + i] = q[i] /\ Len(p) + i \in 1 .. Len(p \o q)
  OBVIOUS
<1>4. \A i \in 1 .. Len(p \o q) :
        i \in 1 .. Len(p) \/ (i - Len(p) \in 1 .. Len(q) /\ (p \o q)[i] = q[i - Len(p)])
  OBVIOUS
<1>5. DOMAIN p = 1 .. Len(p) /\ DOMAIN q = 1 .. Len(q) /\ DOMAIN (p \o q) = 1 .. Len(p \o q)
  BY <1>1
<1>6. Range(p \o q) \subseteq Range(p) \cup Range(q)
  BY <1>2, <1>4, <1>5 DEF Range
<1>7. Range(p) \subseteq Range(p \o q)
  <2>1. \A i \in 1 .. Len(p) : i \in 1 .. Len(p \o q)
    BY <1>1
  <2> QED BY <1>2, <1>5, <2>1 DEF Range
<1>8. Range(q) \subseteq Range(p \o q)
  BY <1>3, <1>5 DEF Range
<1> QED BY <1>1, <1>6, <1>7, <1>8

LEMMA RangeOfRest ==
  ASSUME NEW T, NEW q \in Seq(T), q # << >>
  PROVE  /\ Tail(q) \in Seq(T) /\ Head(q) \in T
         /\ Range(Tail(q)) \subseteq Range(q) /\ Range(q) \subseteq {Head(q)} \cup Range(Tail(q))
<1>1. Len(q) > 0 /\ Len(Tail(q)) = Len(q) - 1 /\ Tail(q) \in Seq(T) /\ Head(q) = q[1] /\ Head(q) \in T
  OBVIOUS
<1>2. \A i \in 1 .. Len(q) - 1 : Tail(q)[i] = q[i + 1]
  OBVIOUS
<1>3. DOMAIN q = 1 .. Len(q) /\ DOMAIN Tail(q) = 1 .. Len(q) - 1
  BY <1>1
<1>4. Range(Tail(q)) \subseteq Range(q)
  <2>1. \A i \in 1 .. Len(q) - 1 : i + 1 \in 1 .. Len(q)
    OBVIOUS
  <2> QED BY <1>2, <1>3, <2>1 DEF Range
<1>5. \A i \in 1 .. Len(q) : q[i] = Head(q) \/ (i - 1 \in 1 .. Len(q) - 1 /\ q[i] = Tail(q)[i - 1])
  <2> TAKE i \in 1 .. Len(q)
  <2>1. CASE i = 1
    BY <1>1, <2>1
  <2>2. CASE i # 1
    <3>1. i - 1 \in 1 .. Len(q) - 1 /\ (i - 1) + 1 = i
      BY <2>2
    <3> QED BY <1>2, <3>1
  <2> QED BY <2>1, <2>2
<1>6. Range(q) \subseteq {Head(q)} \cup Range(Tail(q))
  BY <1>3, <1>5 DEF Range
<1> QED BY <1>1, <1>4, <1>6

(* A page names every folder the next cursor passes.                         *)
LEMMA PageNamesAll ==
  ASSUME FoldersTypeOK, NEW from \in Nat, from <= now, NEW page, NEW done,
         page = (IF Listed(from) = {} THEN {} ELSE Oldest(Listed(from))),
         done = (Listed(from) = page)
  PROVE  /\ page \in SUBSET Folder
         /\ NextCursor(page, done, from) \in Nat
         /\ from <= NextCursor(page, done, from) /\ NextCursor(page, done, from) <= now
         /\ \A f \in Folder : from < share[f].at /\ share[f].at <= NextCursor(page, done, from) =>
              /\ share[f].in => f \in page
              /\ ~share[f].in /\ from > 0 => f \in Lost(from)
<1> DEFINE S == {from} \cup {share[f].at : f \in page} \cup (IF done THEN {share[f].lost : f \in Lost(from)} ELSE {})
           nx == NextCursor(page, done, from)
<1>1. now \in Nat /\ \A f \in Folder : /\ share[f].at \in Nat /\ share[f].at <= now
                                       /\ share[f].lost \in Nat /\ share[f].lost <= now
                                       /\ share[f].lost = IF share[f].in THEN 0 ELSE share[f].at
  BY DEF FoldersTypeOK, ServerNumbers
<1>2. Listed(from) \in SUBSET Folder /\ Lost(from) \in SUBSET Folder
  BY DEF Listed, Lost
<1>3. \/ page = {} /\ Listed(from) = {}
      \/ \E g \in Listed(from) : page = {g} /\ \A f \in Listed(from) : share[g].at <= share[f].at
  BY <1>2, OldestOne
<1>4. page \in SUBSET Folder
  BY <1>2, <1>3
<1>5. S \in SUBSET Nat /\ from \in S /\ \A x \in S : x <= now
  BY <1>1, <1>2, <1>4
<1>6. nx \in S /\ (\A x \in S : x <= nx)
  BY <1>1, <1>5, GreatestOne DEF NextCursor
<1>7. nx \in Nat /\ from <= nx /\ nx <= now
  BY <1>5, <1>6
<1>8. ASSUME NEW f \in Folder, from < share[f].at, share[f].at <= nx, share[f].in
      PROVE  f \in page
  <2>1. f \in Listed(from)
    BY <1>8 DEF Listed
  <2>2. PICK g \in Listed(from) : page = {g} /\ share[g].at <= share[f].at
    BY <1>3, <2>1
  <2>3. CASE done
    BY <2>1, <2>3
  <2>4. CASE ~done
    <3>1. nx \in {from, share[g].at}
      BY <1>6, <2>2, <2>4
    <3>2. share[g].at = share[f].at
      BY <1>1, <1>2, <1>8, <2>2, <3>1
    <3> QED BY <1>2, <2>2, <3>2 DEF FoldersTypeOK, ServerNumbers
  <2> QED BY <2>3, <2>4
<1>9. \A f \in Folder : from < share[f].at /\ ~share[f].in /\ from > 0 => f \in Lost(from)
  BY <1>1 DEF Lost
<1> QED BY <1>4, <1>7, <1>8, <1>9

(* What the rows and cursors have to do with a sync's own steps.             *)
LEMMA FolderFacts ==
  ASSUME FoldersInv
  PROVE  /\ run \in RunState /\ now \in Nat /\ cursor \in Nat /\ cursor <= now
         /\ \A f \in Folder : /\ share[f].at \in Nat /\ 0 < share[f].at /\ share[f].at <= now
                               /\ copy[f] \in [rows : {"none", "part", "whole"}, upTo : Nat]
         /\ run.next \in Nat /\ run.todo \in Seq(Folder)
         /\ run.folder # NoFolder => run.folder \in Folder /\ run.upTo \in Nat
<1>1. run \in RunState /\ ServerNumbers /\ copy \in [Folder -> [rows : {"none", "part", "whole"}, upTo : Nat]]
      /\ cursor \in Nat /\ cursor <= now
  BY DEF FoldersInv, FoldersTypeOK
<1>2. run.next \in Nat /\ run.todo \in Seq(Folder) /\ run.folder \in Folder \cup {NoFolder} /\ run.upTo \in Nat
  BY <1>1 DEF RunState
<1> QED BY <1>1, <1>2 DEF ServerNumbers

LEMMA ListPageStep ==
  ASSUME FoldersInv, ListPage
  PROVE  FoldersInv'
<1> DEFINE from == Asking.next
           page == IF Listed(from) = {} THEN {} ELSE Oldest(Listed(from))
           done == Listed(from) = page
           nx == NextCursor(page, done, from)
<1>1. /\ run.at \in {"idle", "list"} /\ UNCHANGED <<share, now, copy, rooted, cursor, leaving, astray>>
      /\ run' = [Asking EXCEPT
          !.next = nx, !.live = @ \cup page, !.todo = @ \o SetToSeq(page), !.gone = @ \cup Lost(from),
          !.at = IF done THEN "visit" ELSE "list"]
  BY DEF ListPage, serverVars
<1>2. /\ Asking \in RunState
      /\ cursor <= from /\ from <= now /\ (Asking.full <=> cursor = 0)
      /\ Asking.live = Range(Asking.todo) /\ Asking.complete /\ Asking.folder = NoFolder
  <2>1. CASE run.at = "idle"
    <3>1. Asking = [AtRest EXCEPT !.at = "list", !.full = (cursor = 0), !.next = cursor]
      BY <2>1 DEF Asking
    <3>2. << >> \in Seq(Folder) /\ Range(<< >>) = {}
      BY DEF Range
    <3>3. /\ Asking.at = "list" /\ Asking.full = (cursor = 0) /\ Asking.next = cursor /\ Asking.live = {}
          /\ Asking.todo = << >> /\ Asking.complete /\ Asking.folder = NoFolder
      BY <3>1 DEF AtRest
    <3>4. Asking \in RunState
      <4>1. (cursor = 0) \in BOOLEAN /\ cursor \in Nat
        BY FolderFacts
      <4>2. AtRest \in RunState
        BY <3>2 DEF AtRest, RunState, Walking
      <4> QED BY <3>1, <4>1, <4>2 DEF RunState, Walking
    <3>5. cursor <= Asking.next /\ Asking.next <= now
      BY <3>3, FolderFacts
    <3>6. Asking.full <=> cursor = 0
      BY <3>3
    <3>7. Asking.live = Range(Asking.todo)
      BY <3>2, <3>3
    <3> QED BY <3>3, <3>4, <3>5, <3>6, <3>7
  <2>2. CASE run.at = "list"
    <3>1. Asking = run
      BY <2>2 DEF Asking
    <3> QED BY <2>2, <3>1, FolderFacts DEF FoldersInv, RunIsSound
  <2> QED BY <1>1, <2>1, <2>2
<1>3. \A f \in Folder \ astray : cursor < share[f].at /\ share[f].at <= from =>
        /\ share[f].in => f \in Range(Asking.todo) \/ Settled(f)
        /\ ~share[f].in /\ ~Asking.full => f \in Asking.gone \/ Settled(f)
  <2>1. CASE run.at = "idle"
    <3>1. from = cursor
      BY <2>1 DEF Asking, AtRest
    <3> QED BY <3>1, FolderFacts
  <2>2. CASE run.at = "list"
    <3>1. Asking = run /\ run.at \in Walking /\ run.complete /\ run.folder = NoFolder
      BY <2>2 DEF Asking, Walking, FoldersInv, RunIsSound
    <3> SUFFICES ASSUME NEW f \in Folder \ astray, cursor < share[f].at, share[f].at <= from
                 PROVE  /\ share[f].in => f \in Range(run.todo) \/ Settled(f)
                        /\ ~share[f].in /\ ~run.full => f \in run.gone \/ Settled(f)
      BY <3>1
    <3>2. Coming(f)
      BY <3>1 DEF FoldersInv, ListedAreComing
    <3>3. f # NoFolder
      BY ReceivedFoldersAssumption
    <3> QED BY <3>1, <3>2, <3>3 DEF Coming
  <2> QED BY <1>1, <2>1, <2>2
<1>4. from \in Nat /\ now \in Nat /\ cursor \in Nat /\ Asking.todo \in Seq(Folder)
      /\ Asking.live \in SUBSET Folder /\ Asking.gone \in SUBSET Folder
  BY <1>2, FolderFacts DEF RunState
<1>5. /\ page \in SUBSET Folder /\ nx \in Nat /\ from <= nx /\ nx <= now
      /\ \A f \in Folder : from < share[f].at /\ share[f].at <= nx =>
              /\ share[f].in => f \in page
              /\ ~share[f].in /\ from > 0 => f \in Lost(from)
  BY <1>2, <1>4, PageNamesAll DEF FoldersInv
<1> HIDE DEF from, nx, page, done
<1>6. /\ Asking.todo \o SetToSeq(page) \in Seq(Folder)
      /\ Range(Asking.todo \o SetToSeq(page)) = Range(Asking.todo) \cup page
  <2>1. IsFiniteSet(page)
    BY <1>5, ReceivedFoldersAssumption, FS_Subset
  <2>2. SetToSeq(page) \in Seq(page) /\ Range(SetToSeq(page)) = page
    BY <2>1, SetInSeq
  <2>3. SetToSeq(page) \in Seq(Folder)
    BY <1>5, <2>2
  <2> QED BY <1>4, <2>2, <2>3, RangeOfJoin
<1>7. /\ run' \in RunState
      /\ run'.at = (IF done THEN "visit" ELSE "list")
      /\ run'.next = nx /\ run'.live = Asking.live \cup page /\ run'.gone = Asking.gone \cup Lost(from)
      /\ Range(run'.todo) = Range(Asking.todo) \cup page
      /\ run'.full = Asking.full /\ run'.complete /\ run'.folder = NoFolder
  <2>1. Lost(from) \in SUBSET Folder
    BY DEF Lost
  <2> QED BY <1>1, <1>2, <1>4, <1>5, <1>6, <2>1 DEF RunState, Walking
<1>8. FoldersTypeOK'
  BY <1>1, <1>7 DEF FoldersInv, FoldersTypeOK, ServerNumbers
<1>9. RunIsSound'
  BY <1>1, <1>2, <1>4, <1>5, <1>7 DEF RunIsSound
<1>10. CopiesAreWhole' /\ OldAreSettled'
  BY <1>1 DEF FoldersInv, CopiesAreWhole, OldAreSettled, Settled
<1>11. ListedAreComing'
  <2> SUFFICES ASSUME NEW f \in Folder \ astray, cursor < share[f].at, share[f].at <= nx
               PROVE  Coming(f)'
    BY <1>1, <1>7 DEF ListedAreComing
  <2>1. Settled(f) => Settled(f)'
    BY <1>1 DEF Settled
  <2>2. share[f].at <= from \/ from < share[f].at
    BY <1>4, FolderFacts
  <2>3. ~Asking.full => from > 0
    BY <1>2, <1>4
  <2>4. share[f].in => f \in Range(run'.todo) \/ Settled(f)
    BY <1>3, <1>5, <1>7, <2>2
  <2>5. ~share[f].in /\ ~Asking.full => f \in run'.gone \/ Settled(f)
    BY <1>3, <1>5, <1>7, <2>2, <2>3
  <2>6. run'.live = Range(run'.todo)
    BY <1>2, <1>7
  <2> QED BY <1>1, <1>7, <2>1, <2>4, <2>5, <2>6 DEF Coming
<1> QED BY <1>8, <1>9, <1>10, <1>11 DEF FoldersInv

LEMMA SyncEndsStep ==
  ASSUME FoldersInv, NoAnswer \/ Reopened
  PROVE  FoldersInv'
<1>1. /\ run' = AtRest /\ UNCHANGED <<share, now, copy, rooted, astray>>
      /\ cursor' \in {0, cursor} /\ (leaving'.at # "idle" => leaving'.folder \in Folder)
  BY DEF NoAnswer, Reopened, serverVars, FoldersInv, FoldersTypeOK
<1>2. AtRest \in RunState /\ AtRest.at = "idle" /\ AtRest.folder = NoFolder
  BY DEF AtRest, RunState, Walking
<1>3. FoldersTypeOK'
  BY <1>1, <1>2, FolderFacts DEF FoldersInv, FoldersTypeOK, ServerNumbers
<1>4. RunIsSound'
  BY <1>1, <1>2 DEF RunIsSound
<1>5. CopiesAreWhole'
  BY <1>1 DEF FoldersInv, CopiesAreWhole
<1>6. OldAreSettled'
  BY <1>1, FolderFacts DEF FoldersInv, OldAreSettled, Settled
<1>7. ListedAreComing'
  BY <1>1, <1>2 DEF ListedAreComing, Walking
<1> QED BY <1>3, <1>4, <1>5, <1>6, <1>7 DEF FoldersInv

LEMMA AddWorkStep ==
  ASSUME FoldersInv, AddWork, work \subseteq Folder
  PROVE  FoldersInv'
<1>1. /\ run.at = "visit" /\ ~run.full /\ run.todo = << >> /\ run.folder = NoFolder
      /\ run' = [run EXCEPT !.at = "work", !.todo = SetToSeq(work \ (run.live \cup run.gone))]
      /\ UNCHANGED <<share, now, copy, rooted, cursor, leaving, astray>>
  BY DEF AddWork, serverVars
<1>2. SetToSeq(work \ (run.live \cup run.gone)) \in Seq(Folder)
  <2>1. work \ (run.live \cup run.gone) \in SUBSET Folder
    OBVIOUS
  <2>2. IsFiniteSet(work \ (run.live \cup run.gone))
    BY <2>1, ReceivedFoldersAssumption, FS_Subset
  <2> QED BY <2>1, <2>2, SetInSeq
<1>3. /\ run' \in RunState /\ run'.at = "work" /\ run'.full = run.full /\ run'.next = run.next
      /\ run'.live = run.live /\ run'.gone = run.gone /\ run'.folder = NoFolder /\ run'.complete = run.complete
  BY <1>1, <1>2, FolderFacts DEF RunState, Walking
<1>4. FoldersTypeOK'
  BY <1>1, <1>3 DEF FoldersInv, FoldersTypeOK, ServerNumbers
<1>5. RunIsSound'
  BY <1>1, <1>3 DEF FoldersInv, RunIsSound
<1>6. CopiesAreWhole' /\ OldAreSettled'
  BY <1>1 DEF FoldersInv, CopiesAreWhole, OldAreSettled, Settled
<1>7. ListedAreComing'
  <2> SUFFICES ASSUME run.complete, NEW f \in Folder \ astray, cursor < share[f].at, share[f].at <= run.next
               PROVE  Coming(f)'
    BY <1>1, <1>3 DEF ListedAreComing
  <2>1. Coming(f)
    BY <1>1 DEF FoldersInv, ListedAreComing, Walking
  <2>2. f \notin Range(run.todo) /\ f # NoFolder
    BY <1>1, ReceivedFoldersAssumption DEF Range
  <2> QED BY <1>1, <1>3, <2>1, <2>2 DEF Coming, Settled
<1> QED BY <1>4, <1>5, <1>6, <1>7 DEF FoldersInv

LEMMA FetchFolderStep ==
  ASSUME FoldersInv, FetchFolder
  PROVE  FoldersInv'
<1> DEFINE f == Head(run.todo)
<1>1. /\ run.todo # << >> /\ run.at \in {"visit", "work"} /\ run.folder = NoFolder
      /\ UNCHANGED <<share, now, copy, rooted, cursor, leaving, astray>>
      /\ \/ /\ share[f].in
            /\ run' = [run EXCEPT !.todo = Tail(@), !.folder = f, !.upTo = share[f].at,
                                  !.fresh = (copy[f].upTo = 0)]
         \/ run' = [run EXCEPT !.todo = Tail(@), !.complete = FALSE]
  BY FolderFacts DEF FetchFolder, serverVars, RunState
<1>2. /\ Tail(run.todo) \in Seq(Folder) /\ f \in Folder
      /\ Range(Tail(run.todo)) \subseteq Range(run.todo) /\ Range(run.todo) \subseteq {f} \cup Range(Tail(run.todo))
  BY <1>1, FolderFacts, RangeOfRest
<1> HIDE DEF f
<1>3. /\ run' \in RunState /\ run'.at = run.at /\ run'.full = run.full /\ run'.next = run.next
      /\ run'.live = run.live /\ run'.gone = run.gone /\ run'.todo = Tail(run.todo)
      /\ \/ /\ share[f].in /\ run'.folder = f /\ run'.upTo = share[f].at /\ run'.complete = run.complete
            /\ run'.fresh = (copy[f].upTo = 0)
         \/ run'.folder = NoFolder /\ ~run'.complete
  BY <1>1, <1>2, FolderFacts DEF RunState
<1>4. FoldersTypeOK'
  BY <1>1, <1>3 DEF FoldersInv, FoldersTypeOK, ServerNumbers
<1>5. RunIsSound'
  <2>1. run'.at \in {"visit", "work"} /\ run'.at # "idle" /\ run'.at # "list"
    BY <1>1, <1>3
  <2>2. cursor <= run.next /\ run.next <= now /\ (run.full <=> cursor = 0)
    BY <1>1 DEF FoldersInv, RunIsSound
  <2>3. ASSUME run'.folder # NoFolder
        PROVE  /\ 0 < run'.upTo /\ run'.folder \in Folder /\ run'.upTo = share[run'.folder].at
               /\ share[run'.folder].in
               /\ run'.folder \notin astray /\ ~run'.fresh => copy[run'.folder].rows = "whole"
    BY <1>2, <1>3, <2>3, FolderFacts DEF FoldersInv, CopiesAreWhole
  <2> QED BY <1>1, <1>3, <2>1, <2>2, <2>3, FolderFacts DEF RunIsSound
<1>6. CopiesAreWhole' /\ OldAreSettled'
  BY <1>1 DEF FoldersInv, CopiesAreWhole, OldAreSettled, Settled
<1>7. ListedAreComing'
  <2> SUFFICES ASSUME run'.complete, NEW g \in Folder \ astray, cursor < share[g].at, share[g].at <= run.next
               PROVE  Coming(g)'
    BY <1>1, <1>3 DEF ListedAreComing
  <2>1. run'.folder = f /\ share[f].in /\ run.complete
    BY <1>3
  <2>2. Coming(g)
    BY <1>1, <2>1 DEF FoldersInv, ListedAreComing, Walking
  <2>3. g # NoFolder
    BY ReceivedFoldersAssumption
  <2> QED BY <1>1, <1>2, <1>3, <2>1, <2>2, <2>3 DEF Coming, Settled
<1> QED BY <1>4, <1>5, <1>6, <1>7 DEF FoldersInv

(* The folder that was fetched is applied, or its pull breaks off.           *)
LEMMA ConcludedRun ==
  ASSUME FoldersInv, run.folder # NoFolder, NEW o \in SUBSET Folder, NEW c \in BOOLEAN,
         run' = [Concluded EXCEPT !.open = o, !.complete = c]
  PROVE  /\ run' \in RunState /\ run'.at = run.at /\ run'.full = run.full /\ run'.next = run.next
         /\ run'.live = run.live /\ run'.gone = run.gone /\ run'.todo = run.todo
         /\ run'.folder = NoFolder /\ run'.complete = c
         /\ run.at \in {"visit", "work"} /\ run.folder \in Folder
<1>1. run \in RunState /\ run.at \in {"visit", "work"} /\ run.folder \in Folder
  BY FolderFacts DEF FoldersInv, RunIsSound
<1>2. run' = [run EXCEPT !.folder = NoFolder, !.upTo = 0, !.fresh = FALSE, !.open = o, !.complete = c]
  BY DEF Concluded
<1>3. /\ run'.at = run.at /\ run'.full = run.full /\ run'.next = run.next
      /\ run'.live = run.live /\ run'.gone = run.gone /\ run'.todo = run.todo
      /\ run'.folder = NoFolder /\ run'.complete = c
  BY <1>1, <1>2 DEF RunState
<1>4. run' \in RunState
  <2>1. [run EXCEPT !.folder = NoFolder, !.upTo = 0, !.fresh = FALSE] \in RunState
    BY <1>1 DEF RunState
  <2>2. PICK r \in RunState : r = [run EXCEPT !.folder = NoFolder, !.upTo = 0, !.fresh = FALSE]
    BY <2>1
  <2>3. run' = [r EXCEPT !.open = o, !.complete = c]
    BY <2>2 DEF Concluded
  <2> QED BY <2>3 DEF RunState
<1> QED BY <1>1, <1>3, <1>4

LEMMA ApplyFolderStep ==
  ASSUME FoldersInv, ApplyFolder
  PROVE  FoldersInv'
<1>0. PICK f : f = run.folder
  OBVIOUS
<1> DEFINE whole == run.fresh \/ copy[f].rows = "whole"
           pulled == [rows |-> IF whole THEN "whole" ELSE "part", upTo |-> run.upTo]
<1>1. /\ f # NoFolder /\ copy' = [copy EXCEPT ![f] = pulled]
      /\ rooted' = rooted \cup {f} \/ rooted' = rooted
      /\ astray' = IF run.fresh THEN astray \ {f} ELSE astray
      /\ run' = [Concluded EXCEPT !.open = @ \cup {f}]
      /\ UNCHANGED <<share, now, cursor, leaving>>
  BY <1>0 DEF ApplyFolder, serverVars
<1>2. /\ run' \in RunState /\ run'.at = run.at /\ run'.full = run.full /\ run'.next = run.next
      /\ run'.live = run.live /\ run'.gone = run.gone /\ run'.todo = run.todo
      /\ run'.folder = NoFolder /\ run'.complete = run.complete
      /\ run.at \in {"visit", "work"} /\ f \in Folder
  <2>1. run \in RunState /\ f \in Folder
    BY <1>0, <1>1, FolderFacts
  <2>2. run.open \cup {f} \in SUBSET Folder /\ run.complete \in BOOLEAN
    BY <2>1 DEF RunState
  <2>3. run' = [Concluded EXCEPT !.open = run.open \cup {f}, !.complete = run.complete]
    BY <1>1, <2>1 DEF Concluded, RunState
  <2> QED BY <1>0, <1>1, <2>2, <2>3, ConcludedRun
<1>3. /\ pulled \in [rows : {"none", "part", "whole"}, upTo : Nat] /\ pulled.upTo = run.upTo
      /\ whole => pulled.rows = "whole"
  BY <1>0, <1>1, FolderFacts
<1>4. /\ copy \in [Folder -> [rows : {"none", "part", "whole"}, upTo : Nat]]
      /\ copy' \in [Folder -> [rows : {"none", "part", "whole"}, upTo : Nat]]
      /\ copy'[f] = pulled /\ \A g \in Folder : g # f => copy'[g] = copy[g]
  BY <1>1, <1>2, <1>3 DEF FoldersInv, FoldersTypeOK
<1>5. /\ run.upTo \in Nat /\ run.upTo <= share[f].at
      /\ run.upTo = share[f].at => share[f].in
      /\ run.upTo < share[f].at => run.next < share[f].at
      /\ f \notin astray /\ ~run.fresh => copy[f].rows = "whole"
      /\ cursor <= run.next
  BY <1>0, <1>1, FolderFacts DEF FoldersInv, RunIsSound
<1>6. f \notin astray' => whole
  BY <1>1, <1>5
<1> HIDE DEF whole, pulled
<1>7. f \notin astray' /\ share[f].at <= run.next => Settled(f)'
  <2> HAVE f \notin astray' /\ share[f].at <= run.next
  <2>1. run.upTo = share[f].at /\ share[f].in
    BY <1>2, <1>5, FolderFacts
  <2> QED BY <1>1, <1>3, <1>4, <1>6, <2>1 DEF Settled
<1>8. \A g \in Folder : g # f => (g \in astray' <=> g \in astray) /\ (Settled(g) => Settled(g)')
  BY <1>1, <1>4 DEF Settled
<1>9. FoldersTypeOK'
  BY <1>1, <1>2, <1>4 DEF FoldersInv, FoldersTypeOK, ServerNumbers
<1>10. RunIsSound'
  BY <1>1, <1>2 DEF FoldersInv, RunIsSound
<1>11. CopiesAreWhole'
  BY <1>3, <1>4, <1>6, <1>8 DEF FoldersInv, CopiesAreWhole
<1>12. OldAreSettled'
  <2> SUFFICES ASSUME NEW g \in Folder, g \notin astray', share[g].at <= cursor
               PROVE  Settled(g)'
    BY <1>1 DEF OldAreSettled
  <2>1. share[g].at <= run.next
    BY <1>5, FolderFacts
  <2> QED BY <1>7, <1>8, <2>1 DEF FoldersInv, OldAreSettled
<1>13. ListedAreComing'
  <2> SUFFICES ASSUME run.complete, NEW g \in Folder, g \notin astray', cursor < share[g].at, share[g].at <= run.next
               PROVE  Coming(g)'
    BY <1>1, <1>2 DEF ListedAreComing
  <2>1. CASE g = f
    <3>1. share[f].in
      BY <1>2, <1>5, <2>1, FolderFacts
    <3> QED BY <1>1, <1>7, <2>1, <3>1 DEF Coming
  <2>2. CASE g # f
    <3>1. Coming(g)
      BY <1>2, <1>8, <2>2 DEF FoldersInv, ListedAreComing, Walking
    <3> QED BY <1>0, <1>1, <1>2, <1>8, <2>2, <3>1 DEF Coming
  <2> QED BY <2>1, <2>2
<1> QED BY <1>9, <1>10, <1>11, <1>12, <1>13 DEF FoldersInv

LEMMA PullBreaksStep ==
  ASSUME FoldersInv, PullBreaks
  PROVE  FoldersInv'
<1>0. PICK f : f = run.folder
  OBVIOUS
<1> DEFINE kept == IF copy[f].rows = "none" THEN "part" ELSE copy[f].rows
<1>1. /\ f # NoFolder /\ copy' = [copy EXCEPT ![f].rows = kept]
      /\ run' = [Concluded EXCEPT !.complete = FALSE]
      /\ UNCHANGED <<share, now, rooted, cursor, leaving, astray>>
  BY <1>0 DEF PullBreaks, serverVars
<1>2. /\ run' \in RunState /\ run'.at = run.at /\ run'.full = run.full /\ run'.next = run.next
      /\ run'.live = run.live /\ run'.gone = run.gone /\ run'.todo = run.todo
      /\ run'.folder = NoFolder /\ ~run'.complete
      /\ run.at \in {"visit", "work"} /\ f \in Folder
  <2>1. run \in RunState /\ f \in Folder
    BY <1>0, <1>1, FolderFacts
  <2>2. run.open \in SUBSET Folder
    BY <2>1 DEF RunState
  <2>3. run' = [Concluded EXCEPT !.open = run.open, !.complete = FALSE]
    BY <1>1, <2>1 DEF Concluded, RunState
  <2> QED BY <1>0, <1>1, <2>2, <2>3, ConcludedRun
<1>3. copy[f] \in [rows : {"none", "part", "whole"}, upTo : Nat]
      /\ copy \in [Folder -> [rows : {"none", "part", "whole"}, upTo : Nat]]
  BY <1>2 DEF FoldersInv, FoldersTypeOK
<1>4. kept \in {"part", "whole"} /\ (copy[f].rows = "whole" => kept = "whole")
      /\ (copy[f].rows = "none" <=> kept # copy[f].rows)
  BY <1>3
<1> HIDE DEF kept
<1>5. /\ copy' \in [Folder -> [rows : {"none", "part", "whole"}, upTo : Nat]]
      /\ copy'[f].rows = kept /\ copy'[f].upTo = copy[f].upTo
      /\ \A g \in Folder : g # f => copy'[g] = copy[g]
  BY <1>1, <1>2, <1>3, <1>4
<1>6. run.upTo <= share[f].at /\ (run.upTo = share[f].at => share[f].in) /\ run.upTo \in Nat
      /\ (run.upTo < share[f].at => run.next < share[f].at) /\ cursor <= run.next
  BY <1>0, <1>1, FolderFacts DEF FoldersInv, RunIsSound
<1>7. FoldersTypeOK'
  BY <1>1, <1>2, <1>5 DEF FoldersInv, FoldersTypeOK, ServerNumbers
<1>8. RunIsSound'
  BY <1>1, <1>2 DEF FoldersInv, RunIsSound
<1>9. CopiesAreWhole'
  BY <1>1, <1>4, <1>5 DEF FoldersInv, CopiesAreWhole
<1>10. OldAreSettled'
  <2> SUFFICES ASSUME NEW g \in Folder \ astray, share[g].at <= cursor
               PROVE  Settled(g)'
    BY <1>1 DEF OldAreSettled
  <2>1. Settled(g)
    BY DEF FoldersInv, OldAreSettled
  <2>2. CASE g = f
    <3>1. share[f].in
      BY <1>2, <1>6, <2>2, FolderFacts
    <3> QED BY <1>1, <1>4, <1>5, <2>1, <2>2, <3>1 DEF Settled
  <2>3. CASE g # f
    BY <1>1, <1>5, <2>1, <2>3 DEF Settled
  <2> QED BY <2>2, <2>3
<1>11. ListedAreComing'
  BY <1>2 DEF ListedAreComing
<1> QED BY <1>7, <1>8, <1>9, <1>10, <1>11 DEF FoldersInv

(* Folders whose rows are dropped.                                           *)
LEMMA PurgedRows ==
  ASSUME FoldersTypeOK, NEW gone, Purged(gone)
  PROVE  /\ copy' \in [Folder -> [rows : {"none", "part", "whole"}, upTo : Nat]]
         /\ \A f \in Folder : f \in gone => copy'[f] = Nothing /\ f \notin rooted'
         /\ \A f \in Folder : f \notin gone => copy'[f] = copy[f] /\ (f \in rooted' <=> f \in rooted)
BY DEF FoldersTypeOK, Purged, Nothing

LEMMA PurgeLostStep ==
  ASSUME FoldersInv, PurgeLost
  PROVE  FoldersInv'
<1> DEFINE shed == IF run.full THEN rooted \ run.live ELSE rooted \cap run.gone
<1>1. /\ run.at = (IF run.full THEN "visit" ELSE "work") /\ run.todo = << >> /\ run.folder = NoFolder
      /\ Purged(shed) /\ run' = [run EXCEPT !.at = "push"]
      /\ astray' = (astray \ shed) \cup {f \in shed : share[f].in /\ share[f].at <= run.next}
      /\ UNCHANGED <<share, now, cursor, leaving>>
  BY DEF PurgeLost, serverVars
<1>2. /\ run' \in RunState /\ run'.at = "push" /\ run'.full = run.full /\ run'.next = run.next
      /\ run'.folder = NoFolder /\ run'.complete = run.complete /\ run.at \in Walking
      /\ run.at # "idle" /\ run.at # "list"
  BY <1>1, FolderFacts DEF RunState, Walking
<1>3. /\ cursor <= run.next /\ run.next <= now /\ (run.full <=> cursor = 0)
      /\ cursor \in Nat /\ run.next \in Nat
  BY <1>2, FolderFacts DEF FoldersInv, RunIsSound
<1>4. /\ copy' \in [Folder -> [rows : {"none", "part", "whole"}, upTo : Nat]]
      /\ \A f \in Folder : f \in shed => copy'[f] = Nothing /\ f \notin rooted'
      /\ \A f \in Folder : f \notin shed => copy'[f] = copy[f] /\ (f \in rooted' <=> f \in rooted)
  BY <1>1, PurgedRows DEF FoldersInv
<1>5. ASSUME NEW f \in Folder, f \notin astray', share[f].at <= run.next, f \in astray \/ f \in shed \/ Settled(f)
      PROVE  Settled(f)'
  <2>1. CASE f \in shed
    <3>1. ~share[f].in
      BY <1>1, <1>5, <2>1
    <3> QED BY <1>1, <1>4, <2>1, <3>1 DEF Settled
  <2>2. CASE f \notin shed
    <3>1. f \notin astray
      BY <1>1, <1>5, <2>2
    <3> QED BY <1>1, <1>4, <1>5, <2>2, <3>1 DEF Settled
  <2> QED BY <2>1, <2>2
<1>6. ASSUME run.complete, NEW f \in Folder \ astray, cursor < share[f].at, share[f].at <= run.next
      PROVE  f \in shed \/ Settled(f)
  <2>1. Coming(f)
    BY <1>2, <1>6 DEF FoldersInv, ListedAreComing
  <2>2. f \notin Range(run.todo) /\ f # NoFolder
    BY <1>1, ReceivedFoldersAssumption DEF Range
  <2>3. CASE share[f].in
    BY <1>1, <2>1, <2>2, <2>3 DEF Coming
  <2>4. CASE ~share[f].in
    BY <2>1, <2>2, <2>4 DEF Coming, Settled
  <2> QED BY <2>3, <2>4
<1>7. \A f \in Folder : f \notin astray' /\ f \notin shed => f \notin astray
  BY <1>1
<1> HIDE DEF shed
<1>8. FoldersTypeOK'
  BY <1>1, <1>2, <1>4 DEF FoldersInv, FoldersTypeOK, ServerNumbers
<1>9. RunIsSound'
  BY <1>1, <1>2, <1>3 DEF RunIsSound
<1>10. CopiesAreWhole'
  BY <1>4, <1>7 DEF FoldersInv, CopiesAreWhole, Nothing
<1>11. OldAreSettled'
  <2> SUFFICES ASSUME NEW f \in Folder, f \notin astray', share[f].at <= cursor
               PROVE  Settled(f)'
    BY <1>1 DEF OldAreSettled
  <2>1. share[f].at <= run.next
    BY <1>3, FolderFacts
  <2>2. f \in astray \/ Settled(f)
    BY DEF FoldersInv, OldAreSettled
  <2> QED BY <1>5, <2>1, <2>2
<1>12. ListedAreComing'
  <2> SUFFICES ASSUME run.complete, NEW f \in Folder, f \notin astray', cursor < share[f].at, share[f].at <= run.next
               PROVE  Settled(f)'
    BY <1>1, <1>2 DEF ListedAreComing, Walking
  <2> QED BY <1>5, <1>6
<1> QED BY <1>8, <1>9, <1>10, <1>11, <1>12 DEF FoldersInv

LEMMA EndSyncStep ==
  ASSUME FoldersInv, EndSync
  PROVE  FoldersInv'
<1>1. /\ run.at = "push" /\ cursor' = (IF run.complete THEN run.next ELSE cursor) /\ run' = AtRest
      /\ UNCHANGED <<share, now, copy, rooted, leaving, astray>>
  BY DEF EndSync, Kept, serverVars
<1>2. AtRest \in RunState /\ AtRest.at = "idle" /\ AtRest.folder = NoFolder
  BY DEF AtRest, RunState, Walking
<1>3. cursor' \in Nat /\ cursor' <= now
  BY <1>1, FolderFacts DEF FoldersInv, RunIsSound
<1>4. FoldersTypeOK'
  BY <1>1, <1>2, <1>3 DEF FoldersInv, FoldersTypeOK, ServerNumbers
<1>5. RunIsSound'
  BY <1>1, <1>2 DEF RunIsSound
<1>6. CopiesAreWhole'
  BY <1>1 DEF FoldersInv, CopiesAreWhole
<1>7. OldAreSettled'
  <2> SUFFICES ASSUME NEW f \in Folder \ astray, share[f].at <= cursor'
               PROVE  Settled(f)
    BY <1>1 DEF OldAreSettled, Settled
  <2>1. CASE share[f].at <= cursor
    BY <2>1 DEF FoldersInv, OldAreSettled
  <2>2. CASE ~(share[f].at <= cursor)
    <3>1. run.complete /\ cursor' = run.next
      BY <1>1, <2>2
    <3>2. cursor < share[f].at
      BY <2>2, FolderFacts
    <3> QED BY <1>1, <3>1, <3>2 DEF FoldersInv, ListedAreComing
  <2> QED BY <2>1, <2>2
<1>8. ListedAreComing'
  BY <1>1, <1>2 DEF ListedAreComing, Walking
<1> QED BY <1>4, <1>5, <1>6, <1>7, <1>8 DEF FoldersInv

LEMMA PurgeLeftStep ==
  ASSUME FoldersInv, PurgeLeft
  PROVE  FoldersInv'
<1>1. PICK f \in Folder : f = leaving.folder /\ leaving.at = "purge"
  BY DEF PurgeLeft, FoldersInv, FoldersTypeOK
<1>2. /\ Purged({f}) /\ leaving'.at = "idle" /\ UNCHANGED <<share, now, cursor, run>>
      /\ astray' = IF share[f].in \/ run.folder = f THEN astray \cup {f} ELSE astray \ {f}
  BY <1>1 DEF PurgeLeft, serverVars
<1>3. /\ copy' \in [Folder -> [rows : {"none", "part", "whole"}, upTo : Nat]]
      /\ copy'[f] = Nothing /\ f \notin rooted'
      /\ \A g \in Folder : g # f => copy'[g] = copy[g] /\ (g \in rooted' <=> g \in rooted)
  BY <1>2, PurgedRows DEF FoldersInv
<1>4. /\ f \notin astray' => ~share[f].in /\ run.folder # f
      /\ \A g \in Folder : g # f => (g \in astray' <=> g \in astray)
  BY <1>2
<1>5. /\ f \notin astray' => Settled(f)'
      /\ \A g \in Folder : g # f /\ Settled(g) => Settled(g)'
  BY <1>2, <1>3, <1>4 DEF Settled
<1>6. FoldersTypeOK'
  BY <1>2, <1>3 DEF FoldersInv, FoldersTypeOK, ServerNumbers
<1>7. RunIsSound'
  <2>1. run.folder # NoFolder => run.folder \in Folder
    BY FolderFacts
  <2>2. run.folder # NoFolder /\ run.folder \notin astray' /\ ~run.fresh => copy'[run.folder].rows = "whole"
    BY <1>3, <1>4, <2>1 DEF FoldersInv, RunIsSound
  <2> QED BY <1>2, <2>2 DEF FoldersInv, RunIsSound
<1>8. CopiesAreWhole'
  BY <1>3, <1>4 DEF FoldersInv, CopiesAreWhole, Nothing
<1>9. OldAreSettled'
  BY <1>2, <1>4, <1>5 DEF FoldersInv, OldAreSettled
<1>10. ListedAreComing'
  <2> SUFFICES ASSUME run.complete, NEW g \in Folder, g \notin astray', cursor < share[g].at, share[g].at <= run.next
               PROVE  (run.at \in Walking => Coming(g)') /\ (run.at = "push" => Settled(g)')
    BY <1>2 DEF ListedAreComing
  <2>1. CASE g # f
    BY <1>2, <1>4, <1>5, <2>1 DEF FoldersInv, ListedAreComing, Coming
  <2>2. CASE g = f
    <3>1. ~share[f].in /\ Settled(f)'
      BY <1>4, <1>5, <2>2
    <3> QED BY <2>2, <3>1 DEF Coming
  <2> QED BY <2>1, <2>2
<1> QED BY <1>6, <1>7, <1>8, <1>9, <1>10 DEF FoldersInv

LEMMA NumberedFolders ==
  /\ Len(Order) \in Nat
  /\ \A f \in Folder : Number(f) \in Nat /\ 0 < Number(f) /\ Number(f) <= Len(Order)
  /\ \A f, g \in Folder : Number(f) = Number(g) => f = g
<1>1. Order \in Seq(Folder) /\ Range(Order) = Folder
  BY SetInSeq, ReceivedFoldersAssumption DEF Order
<1>2. Len(Order) \in Nat /\ DOMAIN Order = 1 .. Len(Order)
  BY <1>1
<1>3. \A f \in Folder : Number(f) \in DOMAIN Order /\ Order[Number(f)] = f
  <2> TAKE f \in Folder
  <2>1. \E i \in DOMAIN Order : Order[i] = f
    BY <1>1 DEF Range
  <2> QED BY <2>1 DEF Number
<1> QED BY <1>2, <1>3

LEMMA FoldersBegin ==
  ASSUME FoldersInit
  PROVE  FoldersInv /\ work \subseteq Folder
<1>1. /\ share = [f \in Folder |-> [in |-> TRUE, at |-> Number(f), lost |-> 0]]
      /\ now = Len(Order) /\ cursor \in 0 .. now
      /\ copy = [f \in Folder |-> IF Number(f) <= cursor
                                THEN [rows |-> "whole", upTo |-> Number(f)] ELSE Nothing]
      /\ run = AtRest /\ leaving.at = "idle" /\ work = {}
  BY DEF FoldersInit
<1>2. cursor \in Nat /\ cursor <= now /\ now \in Nat
  BY <1>1, NumberedFolders
<1>3. ServerNumbers
  BY <1>1, <1>2, NumberedFolders DEF ServerNumbers
<1>4. AtRest \in RunState /\ AtRest.at = "idle" /\ AtRest.folder = NoFolder
  BY DEF AtRest, RunState, Walking
<1>5. copy \in [Folder -> [rows : {"none", "part", "whole"}, upTo : Nat]]
  BY <1>1, NumberedFolders DEF Nothing
<1>6. FoldersTypeOK
  BY <1>1, <1>2, <1>3, <1>4, <1>5 DEF FoldersTypeOK
<1>7. RunIsSound
  BY <1>1, <1>4 DEF RunIsSound
<1>8. CopiesAreWhole
  BY <1>1 DEF CopiesAreWhole, Nothing
<1>9. OldAreSettled
  BY <1>1 DEF OldAreSettled, Settled
<1>10. ListedAreComing
  BY <1>1, <1>4 DEF ListedAreComing, Walking
<1> QED BY <1>1, <1>6, <1>7, <1>8, <1>9, <1>10 DEF FoldersInv

LEMMA FoldersGoOn ==
  ASSUME FoldersInv, work \subseteq Folder, [FoldersNext]_folderVars
  PROVE  FoldersInv' /\ work' \subseteq Folder
<1>1. ASSUME NEW f \in Folder, OthersAct(f)
      PROVE  FoldersInv' /\ work' \subseteq Folder
  <2>1. \E in \in BOOLEAN : (share[f].in \/ in) /\ Moved(f, in)
    BY <1>1 DEF OthersAct
  <2>2. UNCHANGED <<copy, rooted, work, cursor, run, leaving, astray>>
    BY <1>1 DEF OthersAct
  <2>3. FoldersInv'
    BY <2>1, <2>2, ServerStep DEF ServerMay, SyncGoesOn, FoldersInv, FoldersTypeOK
  <2> QED BY <2>2, <2>3
<1>2. ASSUME NEW f \in Folder, PushFolder(f)
      PROVE  FoldersInv' /\ work' \subseteq Folder
  <2>1. /\ (share[f].in /\ Moved(f, TRUE)) \/ UNCHANGED serverVars
        /\ work' \in {work, work \ {f}}
        /\ run.at = "push" /\ run' = [run EXCEPT !.open = @ \ {f}]
        /\ UNCHANGED <<copy, rooted, cursor, leaving, astray>>
    BY <1>2 DEF PushFolder
  <2>2. FoldersInv'
    BY <2>1, ServerStep DEF ServerMay, SyncGoesOn, FoldersInv, FoldersTypeOK
  <2> QED BY <2>1, <2>2
<1>3. ASSUME NEW f \in Folder, EditFolder(f)
      PROVE  FoldersInv' /\ work' \subseteq Folder
  <2>1. work' = work \cup {f} /\ UNCHANGED <<serverVars, copy, rooted, cursor, run, leaving, astray>>
    BY <1>3 DEF EditFolder
  <2>2. FoldersInv'
    BY <2>1, ServerStep DEF ServerMay, SyncGoesOn, FoldersInv, FoldersTypeOK
  <2> QED BY <2>1, <2>2
<1>4. ASSUME NEW f \in Folder, BeginLeave(f)
      PROVE  FoldersInv' /\ work' \subseteq Folder
  <2>1. /\ (share[f].in /\ Moved(f, FALSE)) \/ UNCHANGED serverVars
        /\ leaving' = [at |-> "purge", folder |-> f]
        /\ UNCHANGED <<copy, rooted, work, cursor, run, astray>>
    BY <1>4 DEF BeginLeave
  <2>2. FoldersInv'
    BY <2>1, ServerStep DEF ServerMay, SyncGoesOn
  <2> QED BY <2>1, <2>2
<1>5. CASE ListPage
  BY <1>5, ListPageStep DEF ListPage
<1>6. CASE NoAnswer \/ Reopened
  BY <1>6, SyncEndsStep DEF NoAnswer, Reopened
<1>7. CASE AddWork
  BY <1>7, AddWorkStep DEF AddWork
<1>8. CASE FetchFolder
  BY <1>8, FetchFolderStep DEF FetchFolder
<1>9. CASE ApplyFolder
  BY <1>9, ApplyFolderStep DEF ApplyFolder
<1>10. CASE PullBreaks
  BY <1>10, PullBreaksStep DEF PullBreaks
<1>11. CASE PurgeLost
  BY <1>11, PurgeLostStep DEF PurgeLost, Purged
<1>12. CASE EndSync
  BY <1>12, EndSyncStep DEF EndSync
<1>13. CASE PurgeLeft
  BY <1>13, PurgeLeftStep DEF PurgeLeft, Purged
<1>14. CASE UNCHANGED folderVars
  <2>1. UNCHANGED <<serverVars, copy, rooted, work, cursor, run, leaving, astray>>
    BY <1>14 DEF folderVars, serverVars
  <2>2. FoldersInv'
    BY <2>1, ServerStep DEF ServerMay, SyncGoesOn, FoldersInv, FoldersTypeOK
  <2> QED BY <2>1, <2>2
<1> QED BY <1>1, <1>2, <1>3, <1>4, <1>5, <1>6, <1>7, <1>8, <1>9, <1>10, <1>11, <1>12, <1>13, <1>14 DEF FoldersNext

(* A device that has heard of everything holds what it shares, and nothing   *)
(* of what it lost, for any number of folders, pages and broken syncs.       *)
THEOREM DeviceHoldsWhatItShares == FoldersSpec => []HoldsWhatItShares
<1>1. FoldersInv => HoldsWhatItShares
  <2> SUFFICES ASSUME FoldersInv, HeardEverything, NEW f \in Folder \ astray
               PROVE  Settled(f)
    BY DEF HoldsWhatItShares, Settled
  <2>1. share[f].at \in Nat /\ cursor \in Nat /\ cursor > 0
        /\ share[f].lost = IF share[f].in THEN 0 ELSE share[f].at
    BY DEF FoldersInv, FoldersTypeOK, ServerNumbers, HeardEverything
  <2>2. share[f].at <= cursor
    BY <2>1 DEF HeardEverything, Listed, Lost
  <2> QED BY <2>2 DEF FoldersInv, OldAreSettled
<1>2. FoldersInit => FoldersInv /\ work \subseteq Folder
  BY FoldersBegin
<1>3. FoldersInv /\ work \subseteq Folder /\ [FoldersNext]_folderVars => (FoldersInv /\ work \subseteq Folder)'
  BY FoldersGoOn
<1> QED BY <1>1, <1>2, <1>3, PTL DEF FoldersSpec

-----------------------------------------------------------------------------
(***************************************************************************)
(* ImagesStay, for any notes, images and commands.                         *)
(*                                                                         *)
(* A command is a fold over images or notes, and what such a fold does is  *)
(* said by a relation of the tables before and after it: images go that    *)
(* nobody who stays refers to (Loses), nothing goes (Still), something     *)
(* comes (Grown), or notes go to another space with their images           *)
(* (MovedSoFar).  One lemma per relation says that it keeps the invariant, *)
(* and one per command that its steps stand in one of them.                *)
(***************************************************************************)
Space == {"vault", "shared"}
NoteRec == [there : BOOLEAN, space : Space, body : SUBSET Ids, past : SUBSET Ids, open : (SUBSET Ids) \cup {Closed}]
ImageRec == [there : BOOLEAN, made : BOOLEAN, owner : Picture \cup {Unowned}, space : Space, item : Nat, dirty : BOOLEAN]
TableSet == [note : [Picture -> NoteRec], image : [Ids -> ImageRec], refs : SUBSET (Ids \X Picture),
             remaps : SUBSET (Picture \X Ids \X Ids), queued : SUBSET Nat]

(* Ids are numbers, finitely many; 0 stands for no editor.                  *)
LEMMA IdsAreNumbers == Ids \in SUBSET Nat /\ 0 \notin Ids /\ Closed \cap Ids = {} /\ IsFiniteSet(Ids)
<1>1. MaxImages \in Nat
  BY ImagesAssumption
<1>2. IsFiniteSet(1 .. MaxImages)
  BY <1>1, FS_Interval
<1> QED BY <1>1, <1>2 DEF Ids, Closed

(* An image that is not there has no item and no owner.                     *)
LEMMA GoneIs == /\ NoImage \in ImageRec /\ Gone \in ImageRec
                /\ ~Gone.there /\ Gone.made /\ Gone.item = 0 /\ Gone.owner = Unowned
                /\ ~NoImage.there /\ NoImage.item = 0
BY DEF NoImage, Gone, ImageRec, Space

(* What a row of an image taken out leaves.                                  *)
LEMMA DropImageIs ==
  ASSUME NEW t \in TableSet, NEW i \in Ids
  PROVE  /\ DropImage(t, i) \in TableSet
         /\ DropImage(t, i).note = t.note
         /\ DropImage(t, i).image = [t.image EXCEPT ![i] = Gone]
         /\ DropImage(t, i).refs = {r \in t.refs : r[1] # i}
         /\ DropImage(t, i).remaps = {m \in t.remaps : m[3] # i}
         /\ DropImage(t, i).queued = t.queued
BY GoneIs DEF DropImage, TableSet

(* More items are queued.                                                    *)
LEMMA RequeuedIs ==
  ASSUME NEW d \in TableSet, NEW q \in SUBSET Nat
  PROVE  /\ [d EXCEPT !.queued = q] \in TableSet
         /\ [d EXCEPT !.queued = q].note = d.note /\ [d EXCEPT !.queued = q].image = d.image
         /\ [d EXCEPT !.queued = q].refs = d.refs /\ [d EXCEPT !.queued = q].remaps = d.remaps
         /\ [d EXCEPT !.queued = q].queued = q
<1>1. [d EXCEPT !.queued = q] \in TableSet
  BY DEF TableSet
<1>2. /\ [d EXCEPT !.queued = q].note = d.note /\ [d EXCEPT !.queued = q].image = d.image
      /\ [d EXCEPT !.queued = q].refs = d.refs /\ [d EXCEPT !.queued = q].remaps = d.remaps
      /\ [d EXCEPT !.queued = q].queued = q
  BY DEF TableSet
<1> QED BY <1>1, <1>2

(* delete_asset queues the image's item too.                                *)
LEMMA DeleteImageIs ==
  ASSUME NEW t \in TableSet, NEW i \in Ids
  PROVE  /\ DeleteImage(t, i) \in TableSet
         /\ DeleteImage(t, i).note = t.note
         /\ DeleteImage(t, i).image = [t.image EXCEPT ![i] = Gone]
         /\ DeleteImage(t, i).refs = {r \in t.refs : r[1] # i}
         /\ DeleteImage(t, i).remaps = {m \in t.remaps : m[3] # i}
         /\ DeleteImage(t, i).queued = t.queued \cup ({t.image[i].item} \ {0})
<1>1. t.image[i].item \in Nat /\ t.queued \in SUBSET Nat
  BY DEF TableSet, ImageRec
<1>2. PICK d \in TableSet : d = DropImage(t, i)
  BY DropImageIs
<1>3. PICK q \in SUBSET Nat : q = t.queued \cup ({t.image[i].item} \ {0})
  BY <1>1
<1>4. DeleteImage(t, i) = [d EXCEPT !.queued = q]
  <2>1. d.queued = t.queued
    BY <1>2, DropImageIs
  <2>2. (IF t.image[i].item = 0 THEN d.queued ELSE d.queued \cup {t.image[i].item}) = q
    BY <1>3, <2>1
  <2> QED BY <1>2, <2>2 DEF DeleteImage
<1>5. /\ [d EXCEPT !.queued = q] \in TableSet
      /\ [d EXCEPT !.queued = q].note = d.note /\ [d EXCEPT !.queued = q].image = d.image
      /\ [d EXCEPT !.queued = q].refs = d.refs /\ [d EXCEPT !.queued = q].remaps = d.remaps
      /\ [d EXCEPT !.queued = q].queued = q
  BY RequeuedIs
<1>6. /\ d.note = t.note /\ d.image = [t.image EXCEPT ![i] = Gone]
      /\ d.refs = {r \in t.refs : r[1] # i} /\ d.remaps = {m \in t.remaps : m[3] # i}
  BY <1>2, DropImageIs
<1> QED BY ONLY <1>3, <1>4, <1>5, <1>6

(* What a note taken out leaves: its references and redirects go with it,   *)
(* the images made for it stay without an owner.                            *)
LEMMA DropNoteIs ==
  ASSUME NEW t \in TableSet, NEW n \in Picture
  PROVE  /\ DropNote(t, n) \in TableSet
         /\ \A m \in Picture : m # n => DropNote(t, n).note[m] = t.note[m]
         /\ DropNote(t, n).note[n] =
              [there |-> FALSE, space |-> t.note[n].space, body |-> {}, past |-> {}, open |-> Closed]
         /\ \A i \in Ids : DropNote(t, n).image[i] =
              IF t.image[i].owner = n THEN [t.image[i] EXCEPT !.owner = Unowned] ELSE t.image[i]
         /\ DropNote(t, n).refs = {r \in t.refs : r[2] # n}
         /\ DropNote(t, n).remaps = {m \in t.remaps : m[1] # n}
         /\ DropNote(t, n).queued = t.queued
<1>1. t.note[n] \in NoteRec /\ t.note \in [Picture -> NoteRec] /\ t.image \in [Ids -> ImageRec]
  BY DEF TableSet
<1>2. PICK g \in NoteRec : g = [t.note[n] EXCEPT !.there = FALSE, !.body = {}, !.past = {}, !.open = Closed]
  BY <1>1 DEF NoteRec
<1>3. g = [there |-> FALSE, space |-> t.note[n].space, body |-> {}, past |-> {}, open |-> Closed]
  BY <1>1, <1>2 DEF NoteRec
<1>4. PICK img \in [Ids -> ImageRec] :
        img = [i \in Ids |-> IF t.image[i].owner = n THEN [t.image[i] EXCEPT !.owner = Unowned] ELSE t.image[i]]
  <2>1. \A i \in Ids : [t.image[i] EXCEPT !.owner = Unowned] \in ImageRec
    BY <1>1 DEF ImageRec
  <2> QED BY <1>1, <2>1
<1>5. DropNote(t, n) = [t EXCEPT !.note = [t.note EXCEPT ![n] = g], !.refs = {r \in t.refs : r[2] # n},
                                 !.remaps = {m \in t.remaps : m[1] # n}, !.image = img]
  BY <1>1, <1>2, <1>4 DEF DropNote, TableSet
<1>6. PICK nt \in [Picture -> NoteRec] : nt = [t.note EXCEPT ![n] = g]
  BY <1>1, <1>2
<1>7. PICK rf \in SUBSET (Ids \X Picture) : rf = {r \in t.refs : r[2] # n}
  BY DEF TableSet
<1>8. PICK rm \in SUBSET (Picture \X Ids \X Ids) : rm = {m \in t.remaps : m[1] # n}
  BY DEF TableSet
<1>9. PICK d : d = [t EXCEPT !.note = nt, !.refs = rf, !.remaps = rm, !.image = img]
  OBVIOUS
<1>10. d \in TableSet /\ d.note = nt /\ d.image = img /\ d.refs = rf /\ d.remaps = rm /\ d.queued = t.queued
  BY <1>9 DEF TableSet
<1>11. DropNote(t, n) = d
  BY <1>5, <1>6, <1>7, <1>8, <1>9
<1>12. \A i \in Ids : img[i] = IF t.image[i].owner = n THEN [t.image[i] EXCEPT !.owner = Unowned] ELSE t.image[i]
  BY <1>4
<1>13. nt[n] = g /\ \A m \in Picture : m # n => nt[m] = t.note[m]
  BY <1>1, <1>6
<1> QED BY <1>3, <1>7, <1>8, <1>10, <1>11, <1>12, <1>13

-----------------------------------------------------------------------------
(***************************************************************************)
(* The invariant.  ImagesStay does not keep itself.  A release or a sweep   *)
(* asks asset_refs who else has an image, so every note that names one has  *)
(* to be in there (NamedCount).  A late save stores what the redirects make *)
(* of an old text, so these lead to images of the note's space              *)
(* (RedirectsLead, EditorsLead).  A deletion that is pulled takes the image *)
(* its item is of, so no image in use has an item on its way out            *)
(* (DoomedAreLost), which takes one image to an item (ItemsSound).          *)
(***************************************************************************)

(* What the rows of the tables refer to is there.                            *)
RowsThere(t) ==
  /\ \A i \in Ids, n \in Picture : <<i, n>> \in t.refs => t.image[i].there /\ t.note[n].there
  /\ \A n \in Picture, o \in Ids, i \in Ids :
       <<n, o, i>> \in t.remaps => t.image[i].there /\ t.note[n].there
  /\ \A n \in Picture : ~t.note[n].there => Counted(t, n) = {} /\ t.note[n].open = Closed
  /\ \A i \in Ids : t.image[i].there => t.image[i].made
  /\ \A i \in Ids : t.image[i].owner = Unowned \/ t.note[t.image[i].owner].there

(* An image that is there, in the space of the note.                         *)
With(t, n, i) == t.image[i].there /\ t.image[i].space = t.note[n].space

Redirected(t, n, i) == \E j \in Ids : <<n, i, j>> \in t.remaps

(* No two images have one item, and none has an item that is still to come. *)
ItemsSound(t, up) ==
  /\ \A i \in Ids : t.image[i].item <= up
  /\ \A i, j \in Ids : t.image[i].item = t.image[j].item /\ t.image[i].item # 0 => i = j

(* The tables hold what their columns can, and only items that were made    *)
(* are deleted.                                                             *)
ImagesTypeOK ==
  /\ Tables \in TableSet /\ lost \in SUBSET Ids /\ uploads \in Nat
  /\ queued \cup deleted \subseteq 1 .. uploads

(* What ImagesStay says, of the tables t and the images `gone` set aside.   *)
NamedStay(t, gone) == \A n \in Picture : \A i \in Counted(t, n) : i \in gone \/ With(t, n, i)
(* An image a note names is in asset_refs for it: a release or a sweep that *)
(* asks whether others refer to an image sees every note that names it.     *)
NamedCount(t, gone) == \A n \in Picture : \A i \in Counted(t, n) : i \in gone \/ <<i, n>> \in t.refs
(* An image whose item is to be deleted, or is, was set aside: no pull      *)
(* takes another one from the device.                                       *)
DoomedAreLost(t, out, gone) == \A i \in Ids : t.image[i].there /\ t.image[i].item \in out => i \in gone
(* A redirect of a note leads to an image of its space.                     *)
RedirectsLead(t, gone) ==
  \A n \in Picture, o \in Ids, i \in Ids : <<n, o, i>> \in t.remaps => i \in gone \/ With(t, n, i)
(* An id in an editor is redirected, or is an image of the note's space:    *)
(* what a late save makes of it is the note's.                              *)
EditorsLead(t, gone) ==
  \A n \in Picture : \A i \in t.note[n].open \ Closed : Redirected(t, n, i) \/ i \in gone \/ With(t, n, i)

ImagesInv ==
  /\ ImagesTypeOK /\ RowsThere(Tables) /\ ItemsSound(Tables, uploads)
  /\ NamedStay(Tables, lost) /\ NamedCount(Tables, lost)
  /\ DoomedAreLost(Tables, queued \cup deleted, lost)
  /\ RedirectsLead(Tables, lost) /\ EditorsLead(Tables, lost)

(* The tables are the variables.                                            *)
LEMMA TablesAre ==
  /\ Tables.note = note /\ Tables.image = image /\ Tables.refs = refs
  /\ Tables.remaps = remaps /\ Tables.queued = queued
  /\ Tables.note' = note' /\ Tables.image' = image' /\ Tables.refs' = refs'
  /\ Tables.remaps' = remaps' /\ Tables.queued' = queued'
BY DEF Tables

(* A step says what the tables become.                                       *)
LEMMA BecomeIs ==
  ASSUME NEW t \in TableSet, Become(t)
  PROVE  Tables' = t
BY DEF Become, Tables, TableSet

(* The invariant is stronger than ImagesStay.                               *)
LEMMA ImagesStaysBy == ImagesInv => ImagesStay
<1> SUFFICES ASSUME ImagesInv, NEW n \in Picture, note[n].there, NEW i \in note[n].body \cup note[n].past
             PROVE  i \in lost \/ InPlace(n, i)
  BY DEF ImagesStay
<1>1. i \in Counted(Tables, n)
  BY TablesAre DEF Counted
<1> QED BY <1>1, TablesAre DEF ImagesInv, NamedStay, With, InPlace

-----------------------------------------------------------------------------
(* What a step takes from an editor is lost.                                 *)

FromEditors(t, u, gone) ==
  \A n \in Picture : u.note[n].there =>
    /\ \A i \in Ids \ Counted(t, n) :
         /\ i \in t.note[n].open \/ \E o \in Ids : <<n, o, i>> \in t.remaps
         /\ With(t, n, i) /\ ~With(u, n, i)
         => i \in gone
    /\ \A i \in t.note[n].open \cap Ids, j \in Ids :
         <<n, i, j>> \in t.remaps /\ ~u.image[j].there /\ ~With(u, n, i) => i \in gone

(* Targets, by the redirects.                                               *)
LEMMA TargetsAre ==
  ASSUME NEW ms \in SUBSET (Picture \X Ids \X Ids), NEW n \in Picture, NEW ids \in SUBSET Ids
  PROVE  /\ Targets(ms, n, ids) \in SUBSET Ids
         /\ \A i \in Ids : i \in Targets(ms, n, ids) <=> \E o \in ids : <<n, o, i>> \in ms
<1>1. \A m \in ms : /\ m[1] \in Picture /\ m[2] \in Ids /\ m[3] \in Ids /\ m = <<m[1], m[2], m[3]>>
  OBVIOUS
<1>2. \A i \in Ids, o \in ids : <<n, o, i>>[1] = n /\ <<n, o, i>>[2] = o /\ <<n, o, i>>[3] = i
  OBVIOUS
<1>3. ASSUME NEW i \in Ids, NEW o \in ids, <<n, o, i>> \in ms PROVE i \in Targets(ms, n, ids)
  BY <1>2, <1>3 DEF Targets
<1>4. ASSUME NEW i \in Targets(ms, n, ids) PROVE i \in Ids /\ \E o \in ids : <<n, o, i>> \in ms
  <2>1. PICK m \in ms : m[1] = n /\ m[2] \in ids /\ m[3] = i
    BY <1>4 DEF Targets
  <2> QED BY <2>1, <1>1
<1> QED BY <1>3, <1>4

(* Same sets aside what Taken names: an image only an editor or a redirect  *)
(* still had is lost when it goes or parts with the note.                   *)
LEMMA TakenIs ==
  ASSUME ImagesTypeOK, NEW u \in TableSet, Tables' = u, Same
  PROVE  lost \subseteq lost' /\ lost' \in SUBSET Ids /\ FromEditors(Tables, u, lost')
<1>1. /\ note \in [Picture -> NoteRec] /\ remaps \in SUBSET (Picture \X Ids \X Ids)
      /\ image \in [Ids -> ImageRec] /\ lost \in SUBSET Ids
      /\ note' = u.note /\ image' = u.image
  BY TablesAre DEF ImagesTypeOK, TableSet
<1>2. \A n \in Picture : note[n].open \ Closed = note[n].open \cap Ids
  BY <1>1, IdsAreNumbers DEF NoteRec, Closed
<1>3. \A n \in Picture, i \in Ids : /\ InPlace(n, i) <=> With(Tables, n, i)
                                    /\ InPlace(n, i)' <=> With(u, n, i)
  BY <1>1, TablesAre DEF InPlace, With
<1>4. \A n \in Picture : /\ Edited(n) \in SUBSET Ids
                         /\ \A i \in Ids : i \in Edited(n) <=>
                              /\ i \notin Counted(Tables, n)
                              /\ i \in note[n].open \/ \E o \in Ids : <<n, o, i>> \in remaps
  <2> SUFFICES ASSUME NEW n \in Picture
               PROVE  /\ Edited(n) \in SUBSET Ids
                      /\ \A i \in Ids : i \in Edited(n) <=>
                              /\ i \notin Counted(Tables, n)
                              /\ i \in note[n].open \/ \E o \in Ids : <<n, o, i>> \in remaps
    OBVIOUS
  <2>1. /\ Targets(remaps, n, Ids) \in SUBSET Ids
        /\ \A i \in Ids : i \in Targets(remaps, n, Ids) <=> \E o \in Ids : <<n, o, i>> \in remaps
    BY <1>1, TargetsAre
  <2>2. Counted(Tables, n) = note[n].body \cup note[n].past
    BY TablesAre DEF Counted
  <2>3. Edited(n) = ((note[n].open \cap Ids) \cup Targets(remaps, n, Ids)) \ Counted(Tables, n)
    BY <1>2, <2>2 DEF Edited
  <2> QED BY <2>1, <2>3
<1>5. \A n \in Picture, i \in Ids : \A j \in Ids : j \in Targets(remaps, n, {i}) <=> <<n, i, j>> \in remaps
  <2> SUFFICES ASSUME NEW n \in Picture, NEW i \in Ids, NEW j \in Ids
               PROVE  j \in Targets(remaps, n, {i}) <=> <<n, i, j>> \in remaps
    OBVIOUS
  <2>1. {i} \in SUBSET Ids /\ remaps \in SUBSET (Picture \X Ids \X Ids)
    BY <1>1
  <2>2. \A k \in Ids : k \in Targets(remaps, n, {i}) <=> \E o \in {i} : <<n, o, k>> \in remaps
    BY ONLY <2>1, TargetsAre, n \in Picture
  <2> QED BY <2>2
<1>6. \A n \in Picture, i \in Ids : Targets(remaps, n, {i}) \in SUBSET Ids
  BY <1>1, TargetsAre
<1> DEFINE Of(n) == {i \in Edited(n) : InPlace(n, i) /\ ~InPlace(n, i)'}
                      \cup {i \in note[n].open \ Closed : /\ ~InPlace(n, i)'
                              /\ \E j \in Targets(remaps, n, {i}) : ~image'[j].there}
<1>7. Taken = UNION {Of(n) : n \in {m \in Picture : note'[m].there}}
  BY DEF Taken
<1>8. \A n \in Picture : /\ Of(n) \in SUBSET Ids
                         /\ \A i \in Edited(n) : InPlace(n, i) /\ ~InPlace(n, i)' => i \in Of(n)
                         /\ \A i \in note[n].open \cap Ids :
                              /\ ~InPlace(n, i)' /\ (\E j \in Targets(remaps, n, {i}) : ~image'[j].there)
                              => i \in Of(n)
  BY <1>2, <1>4
<1> HIDE DEF Of
<1>13. /\ \A n \in Picture : note'[n].there => Of(n) \subseteq Taken
       /\ Taken \in SUBSET Ids
  <2>1. ASSUME NEW n \in Picture, note'[n].there PROVE Of(n) \subseteq Taken
    BY <1>7, <2>1
  <2>2. Taken \in SUBSET Ids
    BY <1>7, <1>8
  <2> QED BY <2>1, <2>2
<1>9. lost' = lost \cup Taken
  BY DEF Same
<1>10. ASSUME NEW n \in Picture, u.note[n].there, NEW i \in Ids \ Counted(Tables, n),
              i \in Tables.note[n].open \/ \E o \in Ids : <<n, o, i>> \in Tables.remaps,
              With(Tables, n, i), ~With(u, n, i)
       PROVE  i \in lost'
  BY <1>1, <1>3, <1>4, <1>8, <1>13, <1>9, <1>10, TablesAre
<1>11. ASSUME NEW n \in Picture, u.note[n].there, NEW i \in Tables.note[n].open \cap Ids, NEW j \in Ids,
              <<n, i, j>> \in Tables.remaps, ~u.image[j].there, ~With(u, n, i)
       PROVE  i \in lost'
  <2>1. i \in note[n].open \ Closed /\ j \in Targets(remaps, n, {i}) /\ ~image'[j].there /\ ~InPlace(n, i)'
    BY <1>1, <1>2, <1>3, <1>5, <1>11, TablesAre
  <2> QED BY <1>1, <1>8, <1>13, <1>9, <1>11, <2>1
<1>12. FromEditors(Tables, u, lost')
  BY <1>10, <1>11 DEF FromEditors
<1> QED BY <1>1, <1>13, <1>9, <1>12

(* What it takes for the editors and the redirects to lead somewhere after a *)
(* step that leaves the editors as they are, or closes them.                 *)
EditorsStay(t, u) ==
  \A n \in Picture : u.note[n].there => t.note[n].there /\ u.note[n].open \in {t.note[n].open, Closed}
NamedLead(t, u, gone) ==
  \A n \in Picture : u.note[n].there =>
    \A i \in Counted(t, n) : i \in gone \/ With(u, n, i) \/ Redirected(u, n, i)
RedirectsStay(t, u) ==
  \A n \in Picture, o \in Ids, i \in Ids :
    <<n, o, i>> \in t.remaps /\ u.note[n].there /\ u.image[i].there => Redirected(u, n, o)
NewLead(t, u, gone) ==
  \A n \in Picture, o \in Ids, i \in Ids :
    <<n, o, i>> \in u.remaps =>
      i \in gone \/ With(u, n, i) \/ (i \notin Counted(t, n) /\ \E p \in Ids : <<n, p, i>> \in t.remaps)

(* Then they do lead somewhere, but for what is lost.                       *)
LEMMA EditorsKeep ==
  ASSUME NEW t \in TableSet, NEW u \in TableSet, NEW before, NEW after, before \subseteq after,
         NamedStay(t, before), RedirectsLead(t, before), EditorsLead(t, before),
         RowsThere(u), FromEditors(t, u, after),
         EditorsStay(t, u), NamedLead(t, u, after), RedirectsStay(t, u), NewLead(t, u, after)
  PROVE  RedirectsLead(u, after) /\ EditorsLead(u, after)
<1>1. ASSUME NEW n \in Picture, NEW o \in Ids, NEW i \in Ids, <<n, o, i>> \in u.remaps,
             i \notin after, ~With(u, n, i)
      PROVE  FALSE
  <2>1. i \notin Counted(t, n) /\ \E p \in Ids : <<n, p, i>> \in t.remaps
    BY <1>1 DEF NewLead
  <2>2. With(t, n, i)
    BY <1>1, <2>1 DEF RedirectsLead
  <2>3. u.note[n].there
    BY <1>1 DEF RowsThere
  <2> QED BY <1>1, <2>1, <2>2, <2>3 DEF FromEditors
<1>2. ASSUME NEW n \in Picture, NEW i \in u.note[n].open \ Closed,
             i \notin after, ~With(u, n, i), ~Redirected(u, n, i)
      PROVE  FALSE
  <2>1. u.note[n].there /\ u.note[n].open # Closed
    <3>1. u.note[n].open # Closed
      BY <1>2
    <3> QED BY <3>1 DEF RowsThere
  <2>2. t.note[n].there /\ i \in t.note[n].open \ Closed /\ i \in Ids
    <3>1. t.note[n].open \in (SUBSET Ids) \cup {Closed}
      BY DEF TableSet, NoteRec
    <3> QED BY <1>2, <2>1, <3>1 DEF EditorsStay
  <2>3. i \in before \/ With(t, n, i) \/ Redirected(t, n, i)
    BY <2>2 DEF EditorsLead
  <2>4. ~Redirected(t, n, i)
    <3> SUFFICES ASSUME NEW j \in Ids, <<n, i, j>> \in t.remaps PROVE FALSE
      BY DEF Redirected
    <3>1. ~u.image[j].there
      BY <1>2, <2>1, <2>2 DEF RedirectsStay
    <3> QED BY <1>2, <2>1, <2>2, <3>1 DEF FromEditors
  <2>5. With(t, n, i)
    BY <1>2, <2>3, <2>4
  <2>6. i \in Counted(t, n)
    BY <1>2, <2>1, <2>2, <2>5 DEF FromEditors
  <2> QED BY <1>2, <2>1, <2>6 DEF NamedLead
<1> QED BY <1>1, <1>2 DEF RedirectsLead, EditorsLead

-----------------------------------------------------------------------------
(* Steps by which images go, and perhaps notes: what is left is as it was,   *)
(* and no image of which a note that stays has a reference went.  The notes  *)
(* that may go are q, and the images set aside are those in gone.            *)

LeftAlone(t, u) ==
  \A i \in Ids :
    \/ ~u.image[i].there /\ u.image[i].item = 0
    \/ /\ u.image[i].there = t.image[i].there /\ u.image[i].space = t.image[i].space
       /\ u.image[i].item = t.image[i].item
NotesLeft(t, u, q) ==
  \A n \in Picture : u.note[n] = t.note[n] \/ (n \in q /\ ~u.note[n].there)
RedirectsLeft(t, u) ==
  \A n \in Picture, o \in Ids, i \in Ids :
    <<n, o, i>> \in u.remaps <=> <<n, o, i>> \in t.remaps /\ u.image[i].there /\ u.note[n].there
QueuedGone(t, u, gone) ==
  \A x \in u.queued : x \in t.queued \/
    \E i \in Ids : x = t.image[i].item /\ x # 0 /\ (~u.image[i].there \/ i \in gone)
RefsLeft(t, u, q, gone) ==
  \A n \in Picture \ q : \A i \in Counted(t, n) : <<i, n>> \in t.refs => <<i, n>> \in u.refs \/ i \in gone

Loses(t, u, q, gone) ==
  /\ u \in TableSet /\ RowsThere(u)
  /\ LeftAlone(t, u) /\ NotesLeft(t, u, q) /\ RedirectsLeft(t, u)
  /\ QueuedGone(t, u, gone) /\ RefsLeft(t, u, q, gone)

(* Doing nothing is such a step, and so are two of them in a row.           *)
LEMMA NothingLost ==
  ASSUME NEW t \in TableSet, RowsThere(t), NEW q, NEW gone
  PROVE  Loses(t, t, q, gone)
BY DEF Loses, LeftAlone, NotesLeft, RedirectsLeft, QueuedGone, RefsLeft, RowsThere

LEMMA LosesOn ==
  ASSUME NEW t \in TableSet, NEW u, NEW v, NEW q, NEW gone,
         Loses(t, u, q, gone), Loses(u, v, q, gone)
  PROVE  Loses(t, v, q, gone)
<1>1. LeftAlone(t, v)
  BY DEF Loses, LeftAlone
<1>2. NotesLeft(t, v, q)
  BY DEF Loses, NotesLeft
<1>3. \A i \in Ids : v.image[i].there => u.image[i].there
  BY DEF Loses, LeftAlone
<1>4. \A n \in Picture : v.note[n].there => u.note[n].there
  BY DEF Loses, NotesLeft
<1>5. RedirectsLeft(t, v)
  BY <1>3, <1>4 DEF Loses, RedirectsLeft
<1>6. QueuedGone(t, v, gone)
  <2> SUFFICES ASSUME NEW x \in v.queued, x \notin t.queued
               PROVE  \E i \in Ids : x = t.image[i].item /\ x # 0 /\ (~v.image[i].there \/ i \in gone)
    BY DEF QueuedGone
  <2>1. CASE x \in u.queued
    BY <1>3, <2>1 DEF Loses, QueuedGone
  <2>2. CASE \E i \in Ids : x = u.image[i].item /\ x # 0 /\ (~v.image[i].there \/ i \in gone)
    BY <2>2 DEF Loses, LeftAlone
  <2> QED BY <2>1, <2>2 DEF Loses, QueuedGone
<1>7. RefsLeft(t, v, q, gone)
  <2> SUFFICES ASSUME NEW n \in Picture \ q, NEW i \in Counted(t, n), <<i, n>> \in t.refs
               PROVE  <<i, n>> \in v.refs \/ i \in gone
    BY DEF RefsLeft
  <2>1. u.note[n] = t.note[n]
    BY DEF Loses, NotesLeft
  <2>2. Counted(u, n) = Counted(t, n)
    BY <2>1 DEF Counted
  <2> QED BY <2>2 DEF Loses, RefsLeft
<1> QED BY <1>1, <1>2, <1>5, <1>6, <1>7 DEF Loses

(* Such a step keeps what the invariant says of the tables.                 *)
LEMMA LossKeeps ==
  ASSUME ImagesInv, NEW u, NEW q, Loses(Tables, u, q, lost'), \A n \in q \cap Picture : ~u.note[n].there,
         Tables' = u, lost \subseteq lost', lost' \in SUBSET Ids, FromEditors(Tables, u, lost'),
         UNCHANGED <<deleted, uploads>>
  PROVE  ImagesInv'
<1> PICK t \in TableSet : t = Tables
  BY DEF ImagesInv, ImagesTypeOK
<1>1. /\ u \in TableSet /\ RowsThere(u) /\ RowsThere(t)
      /\ LeftAlone(t, u) /\ NotesLeft(t, u, q) /\ RedirectsLeft(t, u)
      /\ QueuedGone(t, u, lost') /\ RefsLeft(t, u, q, lost')
  BY DEF Loses, ImagesInv
<1>2. /\ t.queued = queued /\ u.queued = queued' /\ ItemsSound(t, uploads) /\ uploads \in Nat
      /\ queued \cup deleted \subseteq 1 .. uploads /\ DoomedAreLost(t, queued \cup deleted, lost)
      /\ NamedStay(t, lost) /\ NamedCount(t, lost) /\ RedirectsLead(t, lost) /\ EditorsLead(t, lost)
  BY TablesAre DEF ImagesInv, ImagesTypeOK
<1>3. \A i \in Ids : t.image[i].item \in Nat /\ u.image[i].item \in Nat
  BY <1>1 DEF TableSet, ImageRec
<1>4. queued' \cup deleted' \subseteq 1 .. uploads'
  <2> SUFFICES ASSUME NEW x \in queued' PROVE x \in 1 .. uploads
    BY <1>2
  <2>1. CASE x \in queued
    BY <1>2, <2>1
  <2>2. CASE \E i \in Ids : x = t.image[i].item /\ x # 0
    BY <1>2, <1>3, <2>2 DEF ItemsSound
  <2> QED BY <1>1, <1>2, <2>1, <2>2 DEF QueuedGone
<1>5. ImagesTypeOK'
  BY <1>1, <1>2, <1>4 DEF ImagesTypeOK
<1>6. ItemsSound(u, uploads')
  BY <1>1, <1>2, <1>3 DEF ItemsSound, LeftAlone
<1>7. DoomedAreLost(u, queued' \cup deleted', lost')
  <2> SUFFICES ASSUME NEW i \in Ids, u.image[i].there, u.image[i].item \in queued' \cup deleted'
               PROVE  i \in lost'
    BY DEF DoomedAreLost
  <2>1. t.image[i].there /\ u.image[i].item = t.image[i].item
    BY <1>1 DEF LeftAlone
  <2>2. CASE t.image[i].item \in queued \cup deleted
    BY <1>2, <2>1, <2>2 DEF DoomedAreLost
  <2>3. CASE t.image[i].item \notin queued \cup deleted
    <3>1. t.image[i].item \in u.queued /\ t.image[i].item \notin t.queued
      BY <1>2, <2>1, <2>3
    <3>2. PICK j \in Ids : /\ t.image[i].item = t.image[j].item /\ t.image[i].item # 0
                           /\ ~u.image[j].there \/ j \in lost'
      BY <1>1, <3>1 DEF QueuedGone
    <3>3. i = j
      BY <1>2, <3>2 DEF ItemsSound
    <3> QED BY <3>2, <3>3
  <2> QED BY <2>2, <2>3
<1>8. \A n \in Picture : Counted(u, n) # {} => n \notin q /\ u.note[n] = t.note[n] /\ Counted(u, n) = Counted(t, n)
  <2> SUFFICES ASSUME NEW n \in Picture, Counted(u, n) # {}
               PROVE  n \notin q /\ u.note[n] = t.note[n] /\ Counted(u, n) = Counted(t, n)
    OBVIOUS
  <2>1. u.note[n].there
    BY <1>1 DEF RowsThere
  <2> QED BY <1>1, <2>1 DEF NotesLeft, Counted
<1>9. NamedCount(u, lost')
  BY <1>1, <1>2, <1>8 DEF NamedCount, RefsLeft
<1>10. \A n \in Picture : Counted(u, n) \in SUBSET Ids
  BY <1>1 DEF TableSet, NoteRec, Counted
<1>11. NamedStay(u, lost')
  <2> SUFFICES ASSUME NEW n \in Picture, NEW i \in Counted(u, n), i \notin lost' PROVE With(u, n, i)
    BY DEF NamedStay
  <2>1. i \in Ids /\ <<i, n>> \in u.refs
    BY <1>9, <1>10 DEF NamedCount
  <2>2. u.image[i].there
    BY <1>1, <2>1 DEF RowsThere
  <2>3. With(t, n, i) /\ u.note[n] = t.note[n]
    BY <1>2, <1>8 DEF NamedStay
  <2> QED BY <1>1, <2>1, <2>2, <2>3 DEF LeftAlone, With
<1>12. RedirectsLead(u, lost') /\ EditorsLead(u, lost')
  <2>1. EditorsStay(t, u)
    BY <1>1 DEF EditorsStay, NotesLeft
  <2>2. \A n \in Picture : u.note[n].there => Counted(u, n) = Counted(t, n)
    BY <1>1 DEF NotesLeft, Counted
  <2>3. NamedLead(t, u, lost')
    BY <1>11, <2>2 DEF NamedStay, NamedLead
  <2>4. RedirectsStay(t, u)
    BY <1>1 DEF RedirectsLeft, RedirectsStay, Redirected
  <2>5. NewLead(t, u, lost')
    <3> SUFFICES ASSUME NEW n \in Picture, NEW o \in Ids, NEW i \in Ids, <<n, o, i>> \in u.remaps,
                        i \in Counted(t, n), i \notin lost'
                 PROVE  With(u, n, i)
      BY <1>1 DEF RedirectsLeft, NewLead
    <3>1. u.note[n].there
      BY <1>1 DEF RedirectsLeft
    <3> QED BY <1>11, <2>2, <3>1 DEF NamedStay
  <2> QED BY <1>1, <1>2, <2>1, <2>3, <2>4, <2>5, EditorsKeep
<1> QED BY <1>1, <1>5, <1>6, <1>7, <1>9, <1>11, <1>12, TablesAre DEF ImagesInv

-----------------------------------------------------------------------------
(* One image, one note, other references, another owner.                     *)

(* An image goes that no note which stays refers to.                        *)
LEMMA LoseImage ==
  ASSUME NEW t \in TableSet, RowsThere(t), NEW i \in Ids, NEW q, NEW gone,
         \A n \in Picture \ q : i \in Counted(t, n) /\ <<i, n>> \in t.refs => i \in gone
  PROVE  Loses(t, DropImage(t, i), q, gone) /\ Loses(t, DeleteImage(t, i), q, gone)
<1>1. ASSUME NEW u \in TableSet, u.note = t.note, u.image = [t.image EXCEPT ![i] = Gone],
             u.refs = {r \in t.refs : r[1] # i}, u.remaps = {m \in t.remaps : m[3] # i},
             u.queued \subseteq t.queued \cup ({t.image[i].item} \ {0})
      PROVE  Loses(t, u, q, gone)
  <2>1. /\ ~u.image[i].there /\ u.image[i].item = 0 /\ u.image[i].owner = Unowned
        /\ \A j \in Ids : j # i => u.image[j] = t.image[j]
    BY <1>1, GoneIs DEF TableSet
  <2>2. \A n \in Picture, j \in Ids : <<j, n>> \in u.refs <=> <<j, n>> \in t.refs /\ j # i
    BY <1>1
  <2>3. \A n \in Picture, o \in Ids, j \in Ids : <<n, o, j>> \in u.remaps <=> <<n, o, j>> \in t.remaps /\ j # i
    BY <1>1
  <2>4. \A n \in Picture : Counted(u, n) = Counted(t, n)
    BY <1>1 DEF Counted
  <2>5. RowsThere(u)
    BY <1>1, <2>1, <2>2, <2>3, <2>4 DEF RowsThere
  <2>6. LeftAlone(t, u) /\ NotesLeft(t, u, q)
    BY <1>1, <2>1 DEF LeftAlone, NotesLeft
  <2>7. RedirectsLeft(t, u)
    <3> SUFFICES ASSUME NEW n \in Picture, NEW o \in Ids, NEW j \in Ids
                 PROVE  <<n, o, j>> \in u.remaps <=>
                          <<n, o, j>> \in t.remaps /\ u.image[j].there /\ u.note[n].there
      BY DEF RedirectsLeft
    <3>1. <<n, o, j>> \in t.remaps => t.image[j].there /\ t.note[n].there
      BY DEF RowsThere
    <3>2. <<n, o, j>> \in u.remaps <=> <<n, o, j>> \in t.remaps /\ j # i
      BY <2>3
    <3>3. u.image[j].there <=> t.image[j].there /\ j # i
      BY <2>1
    <3> QED BY <1>1, <3>1, <3>2, <3>3
  <2>8. QueuedGone(t, u, gone)
    BY <1>1, <2>1 DEF QueuedGone
  <2>9. RefsLeft(t, u, q, gone)
    <3>1. \A n \in Picture : Counted(t, n) \in SUBSET Ids
      BY DEF TableSet, NoteRec, Counted
    <3> QED BY <2>2, <3>1 DEF RefsLeft
  <2> QED BY <2>5, <2>6, <2>7, <2>8, <2>9 DEF Loses
<1> QED BY <1>1, DropImageIs, DeleteImageIs

(* A note goes.                                                             *)
LEMMA LoseNote ==
  ASSUME NEW t \in TableSet, RowsThere(t), NEW n \in Picture, NEW q, n \in q, NEW gone
  PROVE  /\ Loses(t, DropNote(t, n), q, gone)
         /\ DropNote(t, n) \in TableSet /\ ~DropNote(t, n).note[n].there
         /\ DropNote(t, n).queued = t.queued
         /\ \A m \in Picture : m # n => DropNote(t, n).note[m] = t.note[m]
         /\ \A i \in Ids : /\ DropNote(t, n).image[i].there = t.image[i].there
                           /\ DropNote(t, n).image[i].space = t.image[i].space
<1> PICK u : u = DropNote(t, n)
  OBVIOUS
<1>1. /\ u \in TableSet
      /\ \A m \in Picture : m # n => u.note[m] = t.note[m]
      /\ u.note[n] = [there |-> FALSE, space |-> t.note[n].space, body |-> {}, past |-> {}, open |-> Closed]
      /\ \A i \in Ids : u.image[i] =
           IF t.image[i].owner = n THEN [t.image[i] EXCEPT !.owner = Unowned] ELSE t.image[i]
      /\ u.refs = {r \in t.refs : r[2] # n}
      /\ u.remaps = {m \in t.remaps : m[1] # n}
      /\ u.queued = t.queued
  BY DropNoteIs
<1>2. ~u.note[n].there /\ Counted(u, n) = {} /\ u.note[n].open = Closed
  BY <1>1 DEF Counted
<1>3. \A m \in Picture : m # n => Counted(u, m) = Counted(t, m)
  BY <1>1 DEF Counted
<1>4. \A i \in Ids : /\ u.image[i].there = t.image[i].there /\ u.image[i].made = t.image[i].made
                     /\ u.image[i].space = t.image[i].space /\ u.image[i].item = t.image[i].item
                     /\ u.image[i].owner = IF t.image[i].owner = n THEN Unowned ELSE t.image[i].owner
  <2> SUFFICES ASSUME NEW i \in Ids
               PROVE  /\ u.image[i].there = t.image[i].there /\ u.image[i].made = t.image[i].made
                      /\ u.image[i].space = t.image[i].space /\ u.image[i].item = t.image[i].item
                      /\ u.image[i].owner = IF t.image[i].owner = n THEN Unowned ELSE t.image[i].owner
    OBVIOUS
  <2>1. t.image[i] \in ImageRec
    BY DEF TableSet
  <2> QED BY <1>1, <2>1 DEF ImageRec
<1>5. \A m \in Picture, i \in Ids : <<i, m>> \in u.refs <=> <<i, m>> \in t.refs /\ m # n
  BY <1>1
<1>6. \A m \in Picture, o \in Ids, i \in Ids : <<m, o, i>> \in u.remaps <=> <<m, o, i>> \in t.remaps /\ m # n
  BY <1>1
<1>7. \A i \in Ids : t.image[i].owner \in Picture \cup {Unowned}
  BY DEF TableSet, ImageRec
<1>8. RowsThere(u)
  <2>1. \A i \in Ids : u.image[i].owner = Unowned \/ u.note[u.image[i].owner].there
    BY <1>1, <1>4, <1>7 DEF RowsThere
  <2>2. \A i \in Ids, m \in Picture : <<i, m>> \in u.refs => u.image[i].there /\ u.note[m].there
    BY <1>1, <1>4, <1>5 DEF RowsThere
  <2>3. \A m \in Picture, o \in Ids, i \in Ids : <<m, o, i>> \in u.remaps => u.image[i].there /\ u.note[m].there
    BY <1>1, <1>4, <1>6 DEF RowsThere
  <2>4. \A m \in Picture : ~u.note[m].there => Counted(u, m) = {} /\ u.note[m].open = Closed
    BY <1>1, <1>2, <1>3 DEF RowsThere
  <2> QED BY <1>4, <2>1, <2>2, <2>3, <2>4 DEF RowsThere
<1>9. LeftAlone(t, u) /\ NotesLeft(t, u, q)
  <2>1. LeftAlone(t, u)
    BY ONLY <1>4 DEF LeftAlone
  <2>2. NotesLeft(t, u, q)
    BY <1>1, <1>2 DEF NotesLeft
  <2> QED BY <2>1, <2>2
<1>10. RedirectsLeft(t, u)
  <2> SUFFICES ASSUME NEW m \in Picture, NEW o \in Ids, NEW i \in Ids
               PROVE  <<m, o, i>> \in u.remaps <=>
                        <<m, o, i>> \in t.remaps /\ u.image[i].there /\ u.note[m].there
    BY DEF RedirectsLeft
  <2>1. <<m, o, i>> \in t.remaps => t.image[i].there /\ t.note[m].there
    BY DEF RowsThere
  <2>2. u.image[i].there = t.image[i].there
    BY <1>4
  <2>3. CASE m = n
    BY <1>2, <1>6, <2>3
  <2>4. CASE m # n
    <3>1. u.note[m] = t.note[m]
      BY <1>1, <2>4
    <3> QED BY <1>6, <2>1, <2>2, <2>4, <3>1
  <2> QED BY <2>3, <2>4
<1>11. QueuedGone(t, u, gone)
  BY <1>1 DEF QueuedGone
<1>12. RefsLeft(t, u, q, gone)
  <2>1. \A m \in Picture : Counted(t, m) \in SUBSET Ids
    BY DEF TableSet, NoteRec, Counted
  <2> QED BY <1>5, <2>1 DEF RefsLeft
<1> QED BY <1>1, <1>2, <1>4, <1>8, <1>9, <1>10, <1>11, <1>12 DEF Loses

(* References go that no text or version counts.                            *)
LEMMA LoseRefs ==
  ASSUME NEW t \in TableSet, RowsThere(t), NEW rf \in SUBSET (Ids \X Picture), NEW q, NEW gone,
         \A i \in Ids, n \in Picture : <<i, n>> \in rf => t.image[i].there /\ t.note[n].there,
         \A n \in Picture \ q : \A i \in Counted(t, n) : <<i, n>> \in t.refs => <<i, n>> \in rf
  PROVE  Loses(t, [t EXCEPT !.refs = rf], q, gone) /\ [t EXCEPT !.refs = rf].refs = rf
<1> PICK u : u = [t EXCEPT !.refs = rf]
  OBVIOUS
<1>1. /\ u \in TableSet /\ u.note = t.note /\ u.image = t.image /\ u.refs = rf /\ u.remaps = t.remaps
      /\ u.queued = t.queued
  BY DEF TableSet
<1>2. \A n \in Picture : Counted(u, n) = Counted(t, n)
  BY <1>1 DEF Counted
<1>3. RowsThere(u)
  BY <1>1, <1>2 DEF RowsThere
<1>4. LeftAlone(t, u) /\ NotesLeft(t, u, q) /\ RedirectsLeft(t, u) /\ QueuedGone(t, u, gone) /\ RefsLeft(t, u, q, gone)
  BY <1>1 DEF LeftAlone, NotesLeft, RedirectsLeft, QueuedGone, RefsLeft, RowsThere
<1> QED BY <1>1, <1>3, <1>4 DEF Loses

(* An image is given to another note.                                       *)
LEMMA LoseOwner ==
  ASSUME NEW t \in TableSet, RowsThere(t), NEW i \in Ids, NEW m \in Picture, t.note[m].there, NEW q, NEW gone
  PROVE  Loses(t, [t EXCEPT !.image[i] = [@ EXCEPT !.owner = m, !.dirty = TRUE]], q, gone)
<1>1. t.image \in [Ids -> ImageRec] /\ t.image[i] \in ImageRec
  BY DEF TableSet
<1> PICK r \in ImageRec : r = [t.image[i] EXCEPT !.owner = m, !.dirty = TRUE]
  BY <1>1 DEF ImageRec
<1>2. r.there = t.image[i].there /\ r.made = t.image[i].made /\ r.space = t.image[i].space
      /\ r.item = t.image[i].item /\ r.owner = m
  BY <1>1 DEF ImageRec
<1> PICK u : u = [t EXCEPT !.image = [t.image EXCEPT ![i] = r]]
  OBVIOUS
<1>3. u = [t EXCEPT !.image[i] = [@ EXCEPT !.owner = m, !.dirty = TRUE]]
  BY DEF TableSet
<1>4. /\ u \in TableSet /\ u.note = t.note /\ u.refs = t.refs /\ u.remaps = t.remaps
      /\ u.queued = t.queued /\ u.image = [t.image EXCEPT ![i] = r]
  BY <1>1 DEF TableSet
<1>5. u.image[i] = r /\ \A j \in Ids : j # i => u.image[j] = t.image[j]
  BY <1>1, <1>4
<1>6. \A n \in Picture : Counted(u, n) = Counted(t, n)
  BY <1>4 DEF Counted
<1>7. RowsThere(u)
  BY <1>2, <1>4, <1>5, <1>6 DEF RowsThere
<1>8. LeftAlone(t, u) /\ NotesLeft(t, u, q) /\ RedirectsLeft(t, u) /\ QueuedGone(t, u, gone) /\ RefsLeft(t, u, q, gone)
  BY <1>2, <1>4, <1>5 DEF LeftAlone, NotesLeft, RedirectsLeft, QueuedGone, RefsLeft, RowsThere
<1> QED BY <1>3, <1>4, <1>7, <1>8 DEF Loses

-----------------------------------------------------------------------------
(* What a note releases, and what a sweep takes.                             *)

(* Referrers and the images of a note, by the references.                   *)
LEMMA ReferrersAre ==
  ASSUME NEW t \in TableSet, NEW i \in Ids
  PROVE  /\ Referrers(t, i) \in SUBSET Picture
         /\ \A n \in Picture : n \in Referrers(t, i) <=> <<i, n>> \in t.refs
         /\ Referrers(t, i) # {} => Pick(Referrers(t, i)) \in Referrers(t, i)
BY PickIn DEF Referrers

LEMMA ImagesOfAre ==
  ASSUME NEW t \in TableSet, NEW moving \in SUBSET Picture
  PROVE  /\ ImagesOf(t, moving) \in SUBSET Ids /\ IsFiniteSet(ImagesOf(t, moving))
         /\ \A i \in ImagesOf(t, moving) : t.image[i].there
<1>1. ImagesOf(t, moving) \in SUBSET Ids /\ \A i \in ImagesOf(t, moving) : t.image[i].there
  BY DEF ImagesOf, Stored
<1> QED BY <1>1, IdsAreNumbers, FS_Subset

(* release_note_assets, image by image and for all of them: it takes away   *)
(* none that another note refers to.                                        *)
LEMMA ReleasedOneIs ==
  ASSUME NEW t \in TableSet, NEW i \in Ids, NEW n \in Picture, NEW q, NEW gone
  PROVE  /\ ReleasedOne(t, i, n) \in TableSet
         /\ RowsThere(t) => Loses(t, ReleasedOne(t, i, n), q, gone)
<1>1. CASE Referrers(t, i) = {}
  <2>1. ReleasedOne(t, i, n) = DeleteImage(t, i)
    BY <1>1 DEF ReleasedOne
  <2>2. \A m \in Picture : <<i, m>> \notin t.refs
    BY <1>1, ReferrersAre
  <2>3. RowsThere(t) => Loses(t, DeleteImage(t, i), q, gone)
    BY <2>2, LoseImage
  <2> QED BY <2>1, <2>3, DeleteImageIs
<1>2. CASE Referrers(t, i) # {} /\ t.image[i].owner = n
  <2>1. PICK m \in Picture : m = (CHOOSE x \in Referrers(t, i) : TRUE) /\ m \in Referrers(t, i)
    BY <1>2, ReferrersAre DEF Pick
  <2>2. ReleasedOne(t, i, n) = [t EXCEPT !.image[i] = [@ EXCEPT !.owner = m, !.dirty = TRUE]]
    BY <1>2, <2>1 DEF ReleasedOne
  <2>3. [t EXCEPT !.image[i] = [@ EXCEPT !.owner = m, !.dirty = TRUE]] \in TableSet
    <3>1. t.image \in [Ids -> ImageRec] /\ t.image[i] \in ImageRec
      BY DEF TableSet
    <3> PICK g \in ImageRec : g = [t.image[i] EXCEPT !.owner = m, !.dirty = TRUE]
      BY <3>1 DEF ImageRec
    <3> PICK img \in [Ids -> ImageRec] : img = [t.image EXCEPT ![i] = g]
      BY <3>1
    <3>2. [t EXCEPT !.image[i] = [@ EXCEPT !.owner = m, !.dirty = TRUE]] = [t EXCEPT !.image = img]
      BY DEF TableSet
    <3>3. [t EXCEPT !.image = img] \in TableSet
      BY DEF TableSet
    <3> QED BY <3>2, <3>3
  <2>4. RowsThere(t) => t.note[m].there
    BY <2>1, ReferrersAre DEF RowsThere
  <2>5. RowsThere(t) => Loses(t, [t EXCEPT !.image[i] = [@ EXCEPT !.owner = m, !.dirty = TRUE]], q, gone)
    BY <2>4, LoseOwner
  <2> QED BY <2>2, <2>3, <2>5
<1>3. CASE Referrers(t, i) # {} /\ t.image[i].owner # n
  BY <1>3, NothingLost DEF ReleasedOne
<1> QED BY <1>1, <1>2, <1>3

LEMMA ReleasedLoses ==
  ASSUME NEW t \in TableSet, RowsThere(t), NEW n \in Picture, NEW gone
  PROVE  Loses(t, Released(t, n), {n}, gone)
<1> DEFINE rf == {r \in t.refs : r[2] # n}
           freed == [t EXCEPT !.refs = rf]
           S == ImagesOf(t, {n})
           G == [p \in S \X TableSet |-> ReleasedOne(p[2], p[1], n)]
           Runs(j) == j = [x \in SUBSET S |-> IF x = {} THEN freed ELSE ReleasedOne(j[x \ {Pick(x)}], Pick(x), n)]
<1>1. Loses(t, freed, {n}, gone)
  <2>1. rf \in SUBSET (Ids \X Picture)
    BY DEF TableSet
  <2>2. \A i \in Ids, m \in Picture : <<i, m>> \in rf => t.image[i].there /\ t.note[m].there
    BY DEF RowsThere
  <2>3. \A m \in Picture \ {n} : \A i \in Counted(t, m) : <<i, m>> \in t.refs => <<i, m>> \in rf
    OBVIOUS
  <2> QED BY <2>1, <2>2, <2>3, LoseRefs
<1>2. freed \in TableSet /\ S \in SUBSET Ids /\ IsFiniteSet(S)
  BY <1>1, ImagesOfAre DEF Loses
<1>3. Released(t, n) = FoldSet(LAMBDA i, u : ReleasedOne(u, i, n), freed, S)
  BY DEF Released
<1> HIDE DEF freed, S
<1>4. G \in [S \X TableSet -> TableSet]
  BY <1>2, ReleasedOneIs
<1>5. \A i \in S, u \in TableSet : G[<<i, u>>] = ReleasedOne(u, i, n)
  OBVIOUS
<1> HIDE DEF G
<1>6. PICK it \in [SUBSET S -> TableSet] : IsFold(it, freed, G, S)
  BY <1>2, <1>4, FoldExists
<1>7. \A x \in SUBSET S : x # {} => Pick(x) \in x /\ Pick(x) \in S /\ x \ {Pick(x)} \in SUBSET S
  BY PickIn
<1>8. Runs(it)
  BY <1>5, <1>6, <1>7 DEF IsFold
<1>9. \E j : Runs(j)
  BY <1>8
<1>10. PICK j : Runs(j) /\ FoldSet(LAMBDA i, u : ReleasedOne(u, i, n), freed, S) = j[S]
  BY <1>9 DEF FoldSet, MapThenFoldSet, Pick
<1> DEFINE Q == {x \in SUBSET S : Loses(t, j[x], {n}, gone)}
<1>11. {} \in Q
  BY <1>1, <1>10
<1>12. ASSUME NEW x \in SUBSET S, x # {}, x \ {Pick(x)} \in Q PROVE x \in Q
  <2>1. PICK i \in S : i = Pick(x)
    BY <1>7, <1>12
  <2>2. PICK u : u = j[x \ {i}]
    OBVIOUS
  <2>3. j[x] = ReleasedOne(u, i, n) /\ Loses(t, u, {n}, gone)
    BY <1>10, <1>12, <2>1, <2>2
  <2>4. u \in TableSet /\ RowsThere(u) /\ i \in Ids
    BY <1>2, <2>3 DEF Loses
  <2>5. Loses(u, ReleasedOne(u, i, n), {n}, gone)
    BY <2>4, ReleasedOneIs
  <2> QED BY <2>3, <2>5, LosesOn
<1>13. Q = SUBSET S
  <2>1. Q \in SUBSET (SUBSET S)
    OBVIOUS
  <2> HIDE DEF Q
  <2> QED BY <2>1, <1>2, <1>11, <1>12, FoldInduction
<1> QED BY <1>3, <1>10, <1>13

(* Images nobody refers to are deleted one after the other.                  *)
LEMMA DeletedLose ==
  ASSUME NEW t \in TableSet, RowsThere(t), NEW S \in SUBSET Ids, \A i \in S : Referrers(t, i) = {},
         NEW q, NEW gone
  PROVE  Loses(t, FoldSet(LAMBDA i, u : DeleteImage(u, i), t, S), q, gone)
<1> DEFINE V == {u \in TableSet : Loses(t, u, q, gone) /\ u.refs \subseteq t.refs}
           G == [p \in S \X V |-> DeleteImage(p[2], p[1])]
           Runs(j) == j = [x \in SUBSET S |-> IF x = {} THEN t ELSE DeleteImage(j[x \ {Pick(x)}], Pick(x))]
<1>1. t \in V
  BY NothingLost
<1>2. \A i \in S, u \in V : DeleteImage(u, i) \in V
  <2> SUFFICES ASSUME NEW i \in S, NEW u \in V PROVE DeleteImage(u, i) \in V
    OBVIOUS
  <2>1. i \in Ids /\ u \in TableSet /\ Loses(t, u, q, gone) /\ u.refs \subseteq t.refs /\ RowsThere(u)
    BY DEF Loses
  <2>2. \A n \in Picture : <<i, n>> \notin u.refs
    BY <2>1, ReferrersAre
  <2>3. Loses(u, DeleteImage(u, i), q, gone)
    <3>1. \A n \in Picture \ q : i \in Counted(u, n) /\ <<i, n>> \in u.refs => i \in gone
      BY <2>2
    <3> QED BY <2>1, <3>1, LoseImage
  <2>4. DeleteImage(u, i) \in TableSet /\ DeleteImage(u, i).refs \subseteq u.refs
    <3>1. DeleteImage(u, i) \in TableSet /\ DeleteImage(u, i).refs = {r \in u.refs : r[1] # i}
      BY <2>1, DeleteImageIs
    <3> QED BY <3>1
  <2>5. Loses(t, DeleteImage(u, i), q, gone)
    BY <2>1, <2>3, LosesOn
  <2> QED BY <2>1, <2>4, <2>5
<1>3. IsFiniteSet(S)
  BY IdsAreNumbers, FS_Subset
<1> HIDE DEF V
<1>4. G \in [S \X V -> V]
  BY <1>2
<1>5. \A i \in S, u \in V : G[<<i, u>>] = DeleteImage(u, i)
  OBVIOUS
<1> HIDE DEF G
<1>6. PICK it \in [SUBSET S -> V] : IsFold(it, t, G, S)
  BY <1>1, <1>3, <1>4, FoldExists
<1>7. \A x \in SUBSET S : x # {} => Pick(x) \in x /\ Pick(x) \in S /\ x \ {Pick(x)} \in SUBSET S
  BY PickIn
<1>8. Runs(it)
  BY <1>5, <1>6, <1>7 DEF IsFold
<1>9. \E j : Runs(j)
  BY <1>8
<1>10. PICK j : Runs(j) /\ FoldSet(LAMBDA i, u : DeleteImage(u, i), t, S) = j[S]
  BY <1>9 DEF FoldSet, MapThenFoldSet, Pick
<1> DEFINE Q == {x \in SUBSET S : j[x] \in V}
<1>11. {} \in Q
  BY <1>1, <1>10
<1>12. ASSUME NEW x \in SUBSET S, x # {}, x \ {Pick(x)} \in Q PROVE x \in Q
  <2>1. PICK i \in S : i = Pick(x)
    BY <1>7, <1>12
  <2>2. j[x] = DeleteImage(j[x \ {i}], i) /\ j[x \ {i}] \in V
    BY <1>10, <1>12, <2>1
  <2> QED BY <1>2, <2>2
<1>13. Q = SUBSET S
  <2>1. Q \in SUBSET (SUBSET S)
    OBVIOUS
  <2> HIDE DEF Q
  <2> QED BY <2>1, <1>3, <1>11, <1>12, FoldInduction
<1> QED BY <1>10, <1>13 DEF V

(* The sweep, note by note and for all of them: it takes away none that a   *)
(* text or a version names.                                                 *)
LEMMA SweptNoteLoses ==
  ASSUME NEW t \in TableSet, RowsThere(t), NEW n \in Picture, t.note[n].there, NEW gone
  PROVE  Loses(t, SweptNote(t, n), {}, gone)
<1> DEFINE rf == {r \in t.refs : r[2] # n} \cup {<<i, n>> : i \in Counted(t, n) \cap Stored(t.image)}
           counted == [t EXCEPT !.refs = rf]
           S == {i \in ImagesOf(t, {n}) \ Counted(t, n) : Referrers(counted, i) = {}}
<1>1. Loses(t, counted, {}, gone)
  <2>1. /\ Counted(t, n) \cap Stored(t.image) \in SUBSET Ids
        /\ \A i \in Ids : i \in Stored(t.image) <=> t.image[i].there
    BY DEF Stored
  <2>2. rf \in SUBSET (Ids \X Picture)
    BY <2>1 DEF TableSet
  <2>3. \A i \in Ids, m \in Picture : <<i, m>> \in rf => t.image[i].there /\ t.note[m].there
    <3> SUFFICES ASSUME NEW i \in Ids, NEW m \in Picture, <<i, m>> \in rf
                 PROVE  t.image[i].there /\ t.note[m].there
      OBVIOUS
    <3>1. <<i, m>> \in t.refs \/ (m = n /\ i \in Stored(t.image))
      OBVIOUS
    <3> QED BY <2>1, <3>1 DEF RowsThere
  <2>4. \A m \in Picture \ {} : \A i \in Counted(t, m) : <<i, m>> \in t.refs => <<i, m>> \in rf
    <3> SUFFICES ASSUME NEW m \in Picture, NEW i \in Counted(t, m), <<i, m>> \in t.refs PROVE <<i, m>> \in rf
      OBVIOUS
    <3>1. i \in Ids
      BY DEF TableSet
    <3>2. t.image[i].there
      BY <3>1 DEF RowsThere
    <3>3. CASE m = n
      BY <2>1, <3>1, <3>2, <3>3
    <3>4. CASE m # n
      BY <3>4
    <3> QED BY <3>3, <3>4
  <2> QED BY <2>2, <2>3, <2>4, LoseRefs
<1>2. S \in SUBSET Ids /\ \A i \in S : Referrers(counted, i) = {}
  <2>1. ImagesOf(t, {n}) \in SUBSET Ids
    BY ImagesOfAre
  <2> QED BY <2>1
<1>3. SweptNote(t, n) = FoldSet(LAMBDA i, u : DeleteImage(u, i), counted, S)
  BY DEF SweptNote
<1> HIDE DEF counted, S
<1>4. counted \in TableSet /\ RowsThere(counted)
  BY <1>1 DEF Loses
<1>5. Loses(counted, SweptNote(t, n), {}, gone)
  BY <1>2, <1>3, <1>4, DeletedLose
<1> QED BY <1>1, <1>5, LosesOn

LEMMA SweptLoses ==
  ASSUME NEW t \in TableSet, RowsThere(t), NEW gone
  PROVE  Loses(t, Swept(t), {}, gone)
<1> DEFINE S == {n \in Picture : t.note[n].there}
           V == {u \in TableSet : Loses(t, u, {}, gone)}
           G == [p \in S \X V |-> SweptNote(p[2], p[1])]
           Runs(j) == j = [x \in SUBSET S |-> IF x = {} THEN t ELSE SweptNote(j[x \ {Pick(x)}], Pick(x))]
           each == FoldSet(LAMBDA n, u : SweptNote(u, n), t, S)
           orphans == {i \in Stored(each.image) : each.image[i].owner = Unowned /\ Referrers(each, i) = {}}
<1>1. t \in V
  BY NothingLost
<1>2. \A n \in S, u \in V : SweptNote(u, n) \in V
  <2> SUFFICES ASSUME NEW n \in S, NEW u \in V PROVE SweptNote(u, n) \in V
    OBVIOUS
  <2>1. u \in TableSet /\ Loses(t, u, {}, gone) /\ RowsThere(u) /\ n \in Picture /\ u.note[n].there
    BY DEF Loses, NotesLeft
  <2>2. Loses(u, SweptNote(u, n), {}, gone)
    BY <2>1, SweptNoteLoses
  <2> QED BY <2>1, <2>2, LosesOn DEF Loses
<1>3. IsFiniteSet(S)
  BY ImagesAssumption, FS_Subset
<1>4. Swept(t) = FoldSet(LAMBDA i, u : DeleteImage(u, i), each, orphans)
  BY DEF Swept
<1> HIDE DEF V, each
<1>5. G \in [S \X V -> V]
  BY <1>2
<1>6. \A n \in S, u \in V : G[<<n, u>>] = SweptNote(u, n)
  OBVIOUS
<1> HIDE DEF G, S
<1>7. PICK it \in [SUBSET S -> V] : IsFold(it, t, G, S)
  BY <1>1, <1>3, <1>5, FoldExists
<1>8. \A x \in SUBSET S : x # {} => Pick(x) \in x /\ Pick(x) \in S /\ x \ {Pick(x)} \in SUBSET S
  BY PickIn
<1>9. Runs(it)
  BY <1>6, <1>7, <1>8 DEF IsFold
<1>10. \E j : Runs(j)
  BY <1>9
<1>11. PICK j : Runs(j) /\ each = j[S]
  BY <1>10 DEF FoldSet, MapThenFoldSet, Pick, each
<1> DEFINE Q == {x \in SUBSET S : j[x] \in V}
<1>12. {} \in Q
  BY <1>1, <1>11
<1>13. ASSUME NEW x \in SUBSET S, x # {}, x \ {Pick(x)} \in Q PROVE x \in Q
  <2>1. PICK n \in S : n = Pick(x)
    BY <1>8, <1>13
  <2>2. j[x] = SweptNote(j[x \ {n}], n) /\ j[x \ {n}] \in V
    BY <1>11, <1>13, <2>1
  <2> QED BY <1>2, <2>2
<1>14. Q = SUBSET S
  <2>1. Q \in SUBSET (SUBSET S)
    OBVIOUS
  <2> HIDE DEF Q
  <2> QED BY <2>1, <1>3, <1>12, <1>13, FoldInduction
<1>15. each \in TableSet /\ RowsThere(each) /\ Loses(t, each, {}, gone)
  BY <1>11, <1>14 DEF V, Loses
<1>16. orphans \in SUBSET Ids /\ \A i \in orphans : Referrers(each, i) = {}
  BY DEF Stored
<1> HIDE DEF orphans
<1>17. Loses(each, Swept(t), {}, gone)
  <2>1. Loses(each, FoldSet(LAMBDA i, u : DeleteImage(u, i), each, orphans), {}, gone)
    BY <1>15, <1>16, DeletedLose
  <2> QED BY <1>4, <2>1
<1> QED BY <1>15, <1>17, LosesOn

-----------------------------------------------------------------------------
(* The steps by which images go.                                             *)

(* The tables as a record.                                                  *)
LEMMA TablesSound ==
  ASSUME ImagesInv
  PROVE  ImagesTypeOK /\ Tables \in TableSet /\ RowsThere(Tables) /\ lost \in SUBSET Ids
BY DEF ImagesInv, ImagesTypeOK

(* The commands that take away keep the invariant.                          *)
LEMMA LossBy ==
  ASSUME ImagesInv, NEW u, NEW q, Loses(Tables, u, q, lost'), \A n \in q \cap Picture : ~u.note[n].there,
         Become(u), Same
  PROVE  ImagesInv'
<1>1. u \in TableSet
  BY DEF Loses
<1>2. Tables' = u
  BY <1>1, BecomeIs
<1>3. lost \subseteq lost' /\ lost' \in SUBSET Ids /\ FromEditors(Tables, u, lost')
  BY <1>1, <1>2, TablesSound, TakenIs
<1>4. UNCHANGED <<deleted, uploads>>
  BY DEF Same
<1> QED BY <1>2, <1>3, <1>4, LossKeeps

LEMMA SweepKeeps == ASSUME ImagesInv, SweepImages PROVE ImagesInv'
<1>1. Become(Swept(Tables)) /\ Same
  BY DEF SweepImages
<1>2. Loses(Tables, Swept(Tables), {}, lost')
  BY TablesSound, SweptLoses
<1> QED BY <1>1, <1>2, LossBy

LEMMA PurgeNoteKeeps == ASSUME ImagesInv, NEW n \in Picture, PurgeNote(n) PROVE ImagesInv'
<1> PICK r : r = Released(Tables, n)
  OBVIOUS
<1>1. Loses(Tables, r, {n}, lost')
  BY TablesSound, ReleasedLoses
<1>2. r \in TableSet /\ RowsThere(r)
  BY <1>1 DEF Loses
<1>3. Loses(r, DropNote(r, n), {n}, lost')
  BY <1>2, LoseNote
<1>4. Loses(Tables, DropNote(r, n), {n}, lost')
  BY <1>1, <1>3, TablesSound, LosesOn
<1>5. ~DropNote(r, n).note[n].there
  BY <1>2, LoseNote
<1>6. Become(DropNote(r, n)) /\ Same
  BY DEF PurgeNote
<1> QED BY <1>4, <1>5, <1>6, LossBy

LEMMA DeleteFolderOfKeeps == ASSUME ImagesInv, NEW n \in Picture, DeleteFolderOf(n) PROVE ImagesInv'
<1>1. Loses(Tables, DropNote(Tables, n), {n}, lost')
  BY TablesSound, LoseNote
<1>2. ~DropNote(Tables, n).note[n].there
  BY TablesSound, LoseNote
<1>3. Become(DropNote(Tables, n)) /\ Same
  BY DEF DeleteFolderOf
<1> QED BY <1>1, <1>2, <1>3, LossBy

LEMMA EmptyTrashOfKeeps == ASSUME ImagesInv, NEW n \in Picture, EmptyTrashOf(n) PROVE ImagesInv'
<1> DEFINE made == {i \in Stored(image) : image[i].owner = n}
<1>1. /\ made \in SUBSET Ids /\ Tables \in TableSet /\ image \in [Ids -> ImageRec]
      /\ RowsThere(Tables) /\ lost \in SUBSET Ids
  BY TablesSound, TablesAre DEF Stored, TableSet
<1>2. lost' = lost \cup {i \in made : image[i].item # 0} /\ UNCHANGED <<deleted, uploads>>
  BY DEF EmptyTrashOf
<1> PICK d : d = DropNote(Tables, n)
  OBVIOUS
<1>3. /\ Loses(Tables, d, {n}, lost') /\ d \in TableSet /\ ~d.note[n].there
      /\ d.queued = Tables.queued /\ Tables.queued = queued /\ Tables.image = image
      /\ \A m \in Picture : m # n => d.note[m] = Tables.note[m]
      /\ \A i \in Ids : d.image[i].there = Tables.image[i].there /\ d.image[i].space = Tables.image[i].space
  <2>1. n \in {n}
    OBVIOUS
  <2> QED BY <1>1, <2>1, LoseNote, TablesAre
<1> PICK Q \in SUBSET Nat : Q = queued \cup ({image[i].item : i \in made} \ {0})
  <2>1. queued \in SUBSET Nat /\ {image[i].item : i \in made} \in SUBSET Nat
    BY <1>1, TablesAre DEF TableSet, ImageRec
  <2> QED BY <2>1
<1> PICK u : u = [d EXCEPT !.queued = Q]
  OBVIOUS
<1>4. Become(u)
  BY <1>3 DEF EmptyTrashOf
<1>5. /\ u \in TableSet /\ u.note = d.note /\ u.image = d.image /\ u.refs = d.refs
      /\ u.remaps = d.remaps /\ u.queued = Q
  BY <1>3 DEF TableSet
<1>6. Loses(Tables, u, {n}, lost')
  <2>1. RowsThere(u)
    <3>1. RowsThere(d) /\ \A m \in Picture : Counted(u, m) = Counted(d, m)
      BY <1>3, <1>5 DEF Loses, Counted
    <3> QED BY <1>5, <3>1 DEF RowsThere
  <2>2. QueuedGone(Tables, u, lost')
    <3> SUFFICES ASSUME NEW x \in Q, x \notin queued
                 PROVE  \E i \in Ids : x = image[i].item /\ x # 0 /\ i \in lost'
      BY <1>3, <1>5 DEF QueuedGone
    <3> QED BY <1>1, <1>2
  <2> QED BY <1>3, <1>5, <2>1, <2>2 DEF Loses, LeftAlone, NotesLeft, RedirectsLeft, RefsLeft
<1>7. Tables' = u
  BY <1>4, <1>5, BecomeIs
<1>8. \A m \in Picture : u.note[m].there => \A i \in Ids : With(u, m, i) <=> With(Tables, m, i)
  BY <1>3, <1>5 DEF With
<1>9. FromEditors(Tables, u, lost')
  <2>1. \A m \in Picture, o \in Ids, i \in Ids : <<m, o, i>> \in Tables.remaps => u.image[i].there
    BY <1>1, <1>3, <1>5 DEF RowsThere
  <2> QED BY <1>8, <2>1 DEF FromEditors
<1>10. lost \subseteq lost' /\ lost' \in SUBSET Ids
  BY <1>1, <1>2
<1>11. \A m \in {n} \cap Picture : ~u.note[m].there
  BY <1>3, <1>5
<1> QED BY <1>2, <1>6, <1>7, <1>9, <1>10, <1>11, LossKeeps

(* A pulled deletion of an image that was set aside.                        *)
LEMMA CleanDeleteKeeps ==
  ASSUME ImagesInv, NEW i \in Ids, PullImageDelete(i), ~image[i].dirty
  PROVE  ImagesInv'
<1>1. Become(DropImage(Tables, i)) /\ Same /\ image[i].there /\ image[i].item \in deleted
  BY DEF PullImageDelete
<1>2. i \in lost
  BY <1>1, TablesAre DEF ImagesInv, DoomedAreLost
<1>3. i \in lost'
  BY <1>1, <1>2 DEF Same
<1>4. \A n \in Picture \ {} : i \in Counted(Tables, n) /\ <<i, n>> \in Tables.refs => i \in lost'
  BY <1>3
<1>5. Loses(Tables, DropImage(Tables, i), {}, lost')
  BY <1>4, TablesSound, LoseImage
<1> QED BY <1>1, <1>5, LossBy

-----------------------------------------------------------------------------
(* Steps that leave the images where they are.                               *)

Still(t, u) ==
  /\ u.refs = t.refs /\ u.remaps = t.remaps
  /\ \A i \in Ids : /\ u.image[i].there = t.image[i].there /\ u.image[i].made = t.image[i].made
                    /\ u.image[i].space = t.image[i].space /\ u.image[i].owner = t.image[i].owner
  /\ \A n \in Picture : /\ u.note[n].there = t.note[n].there /\ u.note[n].space = t.note[n].space
                        /\ Counted(u, n) \subseteq Counted(t, n)
                        /\ ~t.note[n].there => u.note[n] = t.note[n]

(* Such a step keeps the invariant when the editors and the items are       *)
(* looked after.                                                            *)
LEMMA StillKeeps ==
  ASSUME ImagesInv, NEW u \in TableSet, Tables' = u, Still(Tables, u),
         lost \subseteq lost', lost' \in SUBSET Ids, uploads' \in Nat,
         queued' \cup deleted' \subseteq 1 .. uploads',
         ItemsSound(u, uploads'), DoomedAreLost(u, queued' \cup deleted', lost'),
         \A n \in Picture : \A i \in u.note[n].open \ Closed :
            i \in Tables.note[n].open \ Closed \/ i \in lost \/ With(Tables, n, i)
  PROVE  ImagesInv'
<1> PICK t \in TableSet : t = Tables
  BY TablesSound
<1>1. /\ RowsThere(t) /\ NamedStay(t, lost) /\ NamedCount(t, lost) /\ RedirectsLead(t, lost)
      /\ EditorsLead(t, lost) /\ Still(t, u)
  BY DEF ImagesInv
<1>2. \A i \in Ids : t.image[i].owner \in Picture \cup {Unowned}
  BY DEF TableSet, ImageRec
<1>3. \A n \in Picture : Counted(t, n) \in SUBSET Ids
  BY DEF TableSet, NoteRec, Counted
<1>4. \A n \in Picture : \A i \in Ids : With(u, n, i) <=> With(t, n, i)
  BY <1>1 DEF Still, With
<1>5. RowsThere(u)
  <2>1. \A n \in Picture : ~u.note[n].there => Counted(u, n) = {} /\ u.note[n].open = Closed
    BY <1>1 DEF RowsThere, Still, Counted
  <2>2. \A i \in Ids : u.image[i].owner = Unowned \/ u.note[u.image[i].owner].there
    BY <1>1, <1>2 DEF RowsThere, Still
  <2> QED BY <1>1, <2>1, <2>2 DEF RowsThere, Still
<1>6. NamedStay(u, lost') /\ NamedCount(u, lost') /\ RedirectsLead(u, lost')
  BY <1>1, <1>3, <1>4 DEF NamedStay, NamedCount, RedirectsLead, Still
<1>7. EditorsLead(u, lost')
  <2> SUFFICES ASSUME NEW n \in Picture, NEW i \in u.note[n].open \ Closed
               PROVE  Redirected(u, n, i) \/ i \in lost' \/ With(u, n, i)
    BY DEF EditorsLead
  <2>1. i \in Ids
    <3>1. u.note[n].open \in (SUBSET Ids) \cup {Closed}
      BY DEF TableSet, NoteRec
    <3> QED BY <3>1
  <2> QED BY <1>1, <1>4, <2>1 DEF EditorsLead, Redirected, Still
<1>8. ImagesTypeOK'
  BY DEF ImagesTypeOK
<1> QED BY <1>5, <1>6, <1>7, <1>8, TablesAre DEF ImagesInv

(* Nothing is lost by such a step.                                          *)
LEMMA SameLost ==
  ASSUME ImagesInv, Tables' \in TableSet, Same
  PROVE  /\ lost \subseteq lost' /\ lost' \in SUBSET Ids /\ uploads' \in Nat
         /\ deleted' = deleted /\ uploads' = uploads
<1>1. lost \subseteq lost' /\ lost' \in SUBSET Ids
  BY TablesSound, TakenIs
<1>2. uploads \in Nat
  BY TablesSound DEF ImagesTypeOK
<1> QED BY <1>1, <1>2 DEF Same

(* What an editor has, and what the versions name.                           *)
LEMMA NoteKeeps ==
  ASSUME ImagesInv, NEW n \in Picture, note[n].there, UNCHANGED <<image, refs, remaps, queued>>, Same,
         NEW r \in NoteRec, note' = [note EXCEPT ![n] = r],
         r.there, r.space = note[n].space, r.body \cup r.past \subseteq note[n].body \cup note[n].past,
         \A i \in r.open \ Closed : i \in note[n].open \ Closed \/ i \in lost \/ With(Tables, n, i)
  PROVE  ImagesInv'
<1> PICK u : u = Tables'
  OBVIOUS
<1>1. /\ u.note = [note EXCEPT ![n] = r] /\ u.image = image /\ u.refs = refs /\ u.remaps = remaps
      /\ u.queued = queued
  BY TablesAre
<1>2. note \in [Picture -> NoteRec] /\ Tables \in TableSet
  BY TablesSound, TablesAre DEF TableSet
<1>3. u \in TableSet
  <2>1. u.note \in [Picture -> NoteRec]
    BY <1>1, <1>2
  <2>2. u = [note |-> u.note, image |-> image, refs |-> refs, remaps |-> remaps, queued |-> queued]
    BY <1>1 DEF Tables
  <2>3. /\ image \in [Ids -> ImageRec] /\ refs \in SUBSET (Ids \X Picture)
        /\ remaps \in SUBSET (Picture \X Ids \X Ids) /\ queued \in SUBSET Nat
    BY <1>2, TablesAre DEF TableSet
  <2> QED BY <2>1, <2>2, <2>3 DEF TableSet
<1>4. u.note[n] = r /\ \A m \in Picture : m # n => u.note[m] = note[m]
  BY <1>1, <1>2
<1>5. Still(Tables, u)
  <2>1. \A m \in Picture : /\ u.note[m].there = note[m].there /\ u.note[m].space = note[m].space
                           /\ u.note[m].body \cup u.note[m].past \subseteq note[m].body \cup note[m].past
                           /\ ~note[m].there => u.note[m] = note[m]
    <3>1. r.there = TRUE /\ note[n].there = TRUE
      BY <1>2 DEF NoteRec
    <3> QED BY <1>4, <3>1
  <2> QED BY <1>1, <2>1, TablesAre DEF Still, Counted
<1>6. ItemsSound(u, uploads) /\ DoomedAreLost(u, queued \cup deleted, lost) /\ queued \cup deleted \subseteq 1 .. uploads
  BY <1>1, TablesAre DEF ImagesInv, ImagesTypeOK, ItemsSound, DoomedAreLost
<1>7. \A m \in Picture : \A i \in u.note[m].open \ Closed :
        i \in Tables.note[m].open \ Closed \/ i \in lost \/ With(Tables, m, i)
  BY <1>4, TablesAre
<1>8. lost \subseteq lost' /\ lost' \in SUBSET Ids /\ uploads' \in Nat /\ deleted' = deleted /\ uploads' = uploads
  BY <1>3, SameLost
<1>9. DoomedAreLost(u, queued \cup deleted, lost')
  BY <1>6, <1>8 DEF DoomedAreLost
<1> QED BY <1>3, <1>5, <1>6, <1>7, <1>8, <1>9, StillKeeps

(* A change in an editor alone: what it has it copied from its own note or  *)
(* from one of the same space.                                              *)
LEMMA EditKeeps ==
  ASSUME ImagesInv, NEW n \in Picture, note[n].there, UNCHANGED <<image, refs, remaps, queued>>, Same,
         NEW ids \in SUBSET Ids, note' = [note EXCEPT ![n].open = ids],
         \A i \in ids : i \in note[n].open \ Closed \/ i \in lost \/ With(Tables, n, i)
  PROVE  ImagesInv'
<1>1. note \in [Picture -> NoteRec] /\ note[n] \in NoteRec
  BY TablesSound, TablesAre DEF TableSet
<1> PICK r : r = [note[n] EXCEPT !.open = ids]
  OBVIOUS
<1>2. /\ r \in NoteRec /\ r.there /\ r.space = note[n].space /\ r.body = note[n].body /\ r.past = note[n].past
      /\ r.open = ids
  BY <1>1 DEF NoteRec
<1>3. note' = [note EXCEPT ![n] = r]
  BY <1>1
<1> QED BY <1>2, <1>3, NoteKeeps

(* What a note names is its own.                                            *)
LEMMA NamedAre ==
  ASSUME ImagesInv, NEW n \in Picture
  PROVE  /\ note[n].body \in SUBSET Ids /\ note[n].past \in SUBSET Ids
         /\ note[n].open \in (SUBSET Ids) \cup {Closed}
         /\ \A i \in note[n].body \cup note[n].past : i \in lost \/ With(Tables, n, i)
<1>1. note[n] \in NoteRec
  BY TablesSound, TablesAre DEF TableSet
<1>2. Counted(Tables, n) = note[n].body \cup note[n].past
  BY TablesAre DEF Counted
<1> QED BY <1>1, <1>2 DEF NoteRec, ImagesInv, NamedStay

LEMMA OpenKeeps == ASSUME ImagesInv, NEW n \in Picture, Open(n) PROVE ImagesInv'
<1>1. /\ note[n].there /\ note' = [note EXCEPT ![n].open = note[n].body]
      /\ UNCHANGED <<image, refs, remaps, queued>> /\ Same
  BY DEF Open
<1> QED BY <1>1, NamedAre, EditKeeps

LEMMA EditTextKeeps == ASSUME ImagesInv, NEW n \in Picture, EditText(n) PROVE ImagesInv'
<1>1. /\ note[n].there /\ note[n].open # Closed /\ UNCHANGED <<image, refs, remaps, queued>> /\ Same
  BY DEF EditText, IsOpen
<1>2. note[n].open \in SUBSET Ids /\ note[n].open \ Closed = note[n].open
  BY <1>1, NamedAre, IdsAreNumbers DEF Closed
<1>3. CASE \E m \in Picture \ {n} :
             /\ note[m].space = note[n].space
             /\ \E i \in note[m].body : note' = [note EXCEPT ![n].open = @ \cup {i}]
  <2> PICK m \in Picture : /\ note[m].space = note[n].space
                           /\ \E i \in note[m].body : note' = [note EXCEPT ![n].open = @ \cup {i}]
    BY <1>3
  <2>1. PICK i \in note[m].body :
          note[m].space = note[n].space /\ note' = [note EXCEPT ![n].open = note[n].open \cup {i}]
    OBVIOUS
  <2>2. i \in Ids /\ (i \in lost \/ With(Tables, n, i))
    BY <2>1, NamedAre, TablesAre DEF With
  <2>3. note[n].open \cup {i} \in SUBSET Ids
    BY <1>2, <2>2
  <2>4. \A j \in note[n].open \cup {i} : j \in note[n].open \ Closed \/ j \in lost \/ With(Tables, n, j)
    BY <1>2, <2>2
  <2> QED BY <1>1, <2>1, <2>3, <2>4, EditKeeps
<1>4. CASE \E i \in note[n].open : note' = [note EXCEPT ![n].open = @ \ {i}]
  <2>1. PICK i \in note[n].open : note' = [note EXCEPT ![n].open = note[n].open \ {i}]
    BY <1>4
  <2>2. note[n].open \ {i} \in SUBSET Ids
    BY <1>2
  <2> QED BY <1>1, <1>2, <2>1, <2>2, EditKeeps
<1>5. CASE note[n].past # {} /\ note' = [note EXCEPT ![n].open = note[n].past]
  BY <1>1, <1>5, NamedAre, EditKeeps
<1> QED BY <1>3, <1>4, <1>5 DEF EditText

LEMMA TakeVersionKeeps == ASSUME ImagesInv, NEW n \in Picture, TakeVersion(n) PROVE ImagesInv'
<1>1. note[n].there /\ UNCHANGED <<image, refs, remaps, queued>> /\ Same
  BY DEF TakeVersion
<1>2. note \in [Picture -> NoteRec] /\ note[n] \in NoteRec
  BY TablesSound, TablesAre DEF TableSet
<1>3. PICK p \in SUBSET Ids : p \subseteq note[n].body \cup note[n].past /\ note' = [note EXCEPT ![n].past = p]
  <2>1. CASE note' = [note EXCEPT ![n].past = @ \cup note[n].body]
    <3>1. PICK p : p = note[n].past \cup note[n].body
      OBVIOUS
    <3> QED BY <2>1, <3>1, NamedAre
  <2>2. CASE note' = [note EXCEPT ![n].past = {}]
    BY <2>2
  <2> QED BY <2>1, <2>2 DEF TakeVersion
<1> PICK r : r = [note[n] EXCEPT !.past = p]
  OBVIOUS
<1>4. /\ r \in NoteRec /\ r.there /\ r.space = note[n].space /\ r.body = note[n].body /\ r.past = p
      /\ r.open = note[n].open
  BY <1>1, <1>2 DEF NoteRec
<1>5. note' = [note EXCEPT ![n] = r]
  BY <1>2, <1>3
<1>6. r.body \cup r.past \subseteq note[n].body \cup note[n].past
  BY <1>3, <1>4
<1> QED BY <1>1, <1>4, <1>5, <1>6, NoteKeeps

(* The item of an image, and whether it has to be sent.                      *)
LEMMA ItemKeeps ==
  ASSUME ImagesInv, NEW i \in Ids, NEW r \in ImageRec, image' = [image EXCEPT ![i] = r],
         r.there = image[i].there, r.made = image[i].made, r.space = image[i].space, r.owner = image[i].owner,
         UNCHANGED <<note, refs, remaps, queued, deleted>>, lost \subseteq lost', lost' \in SUBSET Ids,
         \/ r.item \in {image[i].item, 0} /\ uploads' = uploads
         \/ r.item = uploads + 1 /\ uploads' = uploads + 1
  PROVE  ImagesInv'
<1> PICK u : u = Tables'
  OBVIOUS
<1>1. /\ u.note = note /\ u.image = [image EXCEPT ![i] = r] /\ u.refs = refs /\ u.remaps = remaps
      /\ u.queued = queued
  BY TablesAre
<1>2. image \in [Ids -> ImageRec] /\ Tables \in TableSet /\ uploads \in Nat
  BY TablesSound, TablesAre DEF TableSet, ImagesTypeOK
<1>3. u \in TableSet
  <2>1. u.image \in [Ids -> ImageRec]
    BY <1>1, <1>2
  <2>2. u = [note |-> note, image |-> u.image, refs |-> refs, remaps |-> remaps, queued |-> queued]
    BY <1>1 DEF Tables
  <2>3. /\ note \in [Picture -> NoteRec] /\ refs \in SUBSET (Ids \X Picture)
        /\ remaps \in SUBSET (Picture \X Ids \X Ids) /\ queued \in SUBSET Nat
    BY <1>2, TablesAre DEF TableSet
  <2> QED BY <2>1, <2>2, <2>3 DEF TableSet
<1>4. u.image[i] = r /\ \A j \in Ids : j # i => u.image[j] = image[j]
  BY <1>1, <1>2
<1>5. Still(Tables, u)
  BY <1>1, <1>4, TablesAre DEF Still, Counted
<1>6. /\ \A j \in Ids : image[j].item \in Nat /\ image[j].item <= uploads
      /\ \A j, k \in Ids : image[j].item = image[k].item /\ image[j].item # 0 => j = k
      /\ \A j \in Ids : image[j].there /\ image[j].item \in queued \cup deleted => j \in lost
      /\ queued \cup deleted \subseteq 1 .. uploads
  BY <1>2, TablesAre DEF ImagesInv, ImagesTypeOK, ItemsSound, DoomedAreLost, ImageRec
<1>7. uploads' \in Nat /\ uploads <= uploads' /\ queued' \cup deleted' \subseteq 1 .. uploads'
  BY <1>2, <1>6
<1>8. ItemsSound(u, uploads')
  BY <1>2, <1>4, <1>6, <1>7 DEF ItemsSound
<1>9. DoomedAreLost(u, queued' \cup deleted', lost')
  <2>1. r.item \in queued \cup deleted => r.item = image[i].item
    BY <1>2, <1>6
  <2> QED BY <1>4, <1>6, <2>1 DEF DoomedAreLost
<1>10. \A n \in Picture : \A j \in u.note[n].open \ Closed :
         j \in Tables.note[n].open \ Closed \/ j \in lost \/ With(Tables, n, j)
  BY <1>1, TablesAre
<1> QED BY <1>3, <1>5, <1>7, <1>8, <1>9, <1>10, StillKeeps

(* An upload gives an image a new item.                                     *)
LEMMA PushImageKeeps == ASSUME ImagesInv, NEW i \in Ids, PushImage(i) PROVE ImagesInv'
<1>1. image \in [Ids -> ImageRec] /\ image[i] \in ImageRec /\ uploads \in Nat /\ lost \in SUBSET Ids
  BY TablesSound, TablesAre DEF TableSet, ImagesTypeOK
<1>2. UNCHANGED <<note, refs, remaps, queued, deleted, lost>>
  BY DEF PushImage
<1>3. CASE image[i].item = 0
  <2> PICK k \in Nat : k = uploads + 1
    BY <1>1
  <2> PICK r : r = [image[i] EXCEPT !.item = k, !.dirty = FALSE]
    OBVIOUS
  <2>1. /\ r \in ImageRec /\ r.there = image[i].there /\ r.made = image[i].made
        /\ r.space = image[i].space /\ r.owner = image[i].owner /\ r.item = k
    BY <1>1 DEF ImageRec
  <2>2. image' = [image EXCEPT ![i] = r] /\ uploads' = uploads + 1
    BY <1>1, <1>3 DEF PushImage
  <2> QED BY <1>1, <1>2, <2>1, <2>2, ItemKeeps
<1>4. CASE image[i].item # 0
  <2> PICK r : r = [image[i] EXCEPT !.dirty = FALSE]
    OBVIOUS
  <2>1. /\ r \in ImageRec /\ r.there = image[i].there /\ r.made = image[i].made
        /\ r.space = image[i].space /\ r.owner = image[i].owner /\ r.item = image[i].item
    BY <1>1 DEF ImageRec
  <2>2. image' = [image EXCEPT ![i] = r] /\ uploads' = uploads
    BY <1>1, <1>4 DEF PushImage
  <2> QED BY <1>1, <1>2, <2>1, <2>2, ItemKeeps
<1> QED BY <1>3, <1>4

LEMMA PullImageDeleteKeeps == ASSUME ImagesInv, NEW i \in Ids, PullImageDelete(i) PROVE ImagesInv'
<1>1. CASE image[i].dirty
  <2>1. /\ image \in [Ids -> ImageRec] /\ image[i] \in ImageRec /\ Tables \in TableSet
        /\ Tables.image = image
    BY TablesSound, TablesAre DEF TableSet
  <2> PICK r : r = [image[i] EXCEPT !.item = 0]
    OBVIOUS
  <2>2. /\ r \in ImageRec /\ r.there = image[i].there /\ r.made = image[i].made
        /\ r.space = image[i].space /\ r.owner = image[i].owner /\ r.item = 0
    BY <2>1 DEF ImageRec
  <2> PICK u : u = [Tables EXCEPT !.image = [image EXCEPT ![i] = r]]
    OBVIOUS
  <2>3. u = [Tables EXCEPT !.image[i].item = 0]
    BY <2>1 DEF TableSet
  <2>4. /\ u \in TableSet /\ u.image = [image EXCEPT ![i] = r] /\ u.note = note /\ u.refs = refs
        /\ u.remaps = remaps /\ u.queued = queued
    BY <2>1, <2>2, TablesAre DEF TableSet
  <2>5. Become(u) /\ Same
    BY <1>1, <2>3 DEF PullImageDelete
  <2>6. Tables' = u
    BY <2>4, <2>5, BecomeIs
  <2>7. lost \subseteq lost' /\ lost' \in SUBSET Ids /\ deleted' = deleted /\ uploads' = uploads
    BY <2>4, <2>5, <2>6, SameLost
  <2>8. image' = [image EXCEPT ![i] = r] /\ UNCHANGED <<note, refs, remaps, queued, deleted>>
    BY <2>4, <2>5, <2>7 DEF Become
  <2> QED BY <2>2, <2>7, <2>8, ItemKeeps
<1> QED BY <1>1, CleanDeleteKeeps

LEMMA DrainImageKeeps == ASSUME ImagesInv, DrainImage PROVE ImagesInv'
<1>1. /\ queued' \cup deleted' = queued \cup deleted /\ queued' \subseteq queued
      /\ UNCHANGED <<note, image, refs, remaps, uploads, lost>>
  BY DEF DrainImage
<1>2. Tables \in TableSet /\ uploads \in Nat /\ lost \in SUBSET Ids /\ queued \cup deleted \subseteq 1 .. uploads
  BY TablesSound DEF ImagesTypeOK
<1> PICK u : u = Tables'
  OBVIOUS
<1>3. u.note = note /\ u.image = image /\ u.refs = refs /\ u.remaps = remaps /\ u.queued = queued'
  BY <1>1, TablesAre
<1>4. u \in TableSet
  <2>1. u = [note |-> note, image |-> image, refs |-> refs, remaps |-> remaps, queued |-> queued']
    BY <1>1 DEF Tables
  <2>2. /\ note \in [Picture -> NoteRec] /\ refs \in SUBSET (Ids \X Picture) /\ image \in [Ids -> ImageRec]
        /\ remaps \in SUBSET (Picture \X Ids \X Ids) /\ queued \in SUBSET Nat
    BY <1>2, TablesAre DEF TableSet
  <2>3. queued' \in SUBSET Nat
    BY <1>1, <2>2
  <2> QED BY <2>1, <2>2, <2>3 DEF TableSet
<1>5. Still(Tables, u)
  BY <1>3, TablesAre DEF Still, Counted
<1>6. ItemsSound(u, uploads') /\ DoomedAreLost(u, queued' \cup deleted', lost')
  BY <1>1, <1>3, TablesAre DEF ImagesInv, ItemsSound, DoomedAreLost
<1>7. \A n \in Picture : \A j \in u.note[n].open \ Closed :
         j \in Tables.note[n].open \ Closed \/ j \in lost \/ With(Tables, n, j)
  BY <1>3, TablesAre
<1> QED BY <1>1, <1>2, <1>4, <1>5, <1>6, <1>7, StillKeeps

-----------------------------------------------------------------------------
(* What an editor saves.                                                     *)

(* Of the ids of a text, those with a redirect are replaced by where the     *)
(* redirects lead.                                                           *)
LEMMA NormalIs ==
  ASSUME NEW t \in TableSet, NEW n \in Picture, NEW ids \in SUBSET Ids
  PROVE  /\ Normal(t, n, ids) \in SUBSET Ids
         /\ \A i \in Normal(t, n, ids) :
              (i \in ids /\ ~Redirected(t, n, i)) \/ \E o \in Ids : <<n, o, i>> \in t.remaps
<1> DEFINE Followed(v, k) ==
             LET to == Targets(t.remaps, n, {k} \cap v) IN IF to = {} THEN v ELSE (v \ {k}) \cup to
           V == SUBSET Ids
           q == [k \in 1 .. MaxImages |-> k]
           G == [p \in V \X Nat |-> Followed(p[1], p[2])]
           Runs(j) == j = [k \in 0 .. MaxImages |-> IF k = 0 THEN ids ELSE
                             LET to == Targets(t.remaps, n, {k} \cap j[k - 1])
                             IN IF to = {} THEN j[k - 1] ELSE (j[k - 1] \ {k}) \cup to]
<1>1. MaxImages \in Nat /\ t.remaps \in SUBSET (Picture \X Ids \X Ids)
  BY ImagesAssumption DEF TableSet
<1>2. \A v \in V, k \in Nat : /\ {k} \cap v \in SUBSET Ids
                              /\ Targets(t.remaps, n, {k} \cap v) \in SUBSET Ids
                              /\ \A i \in Ids : i \in Targets(t.remaps, n, {k} \cap v)
                                                  <=> \E o \in {k} \cap v : <<n, o, i>> \in t.remaps
  <2> SUFFICES ASSUME NEW v \in V, NEW k \in Nat
               PROVE  /\ {k} \cap v \in SUBSET Ids
                      /\ Targets(t.remaps, n, {k} \cap v) \in SUBSET Ids
                      /\ \A i \in Ids : i \in Targets(t.remaps, n, {k} \cap v)
                                          <=> \E o \in {k} \cap v : <<n, o, i>> \in t.remaps
    OBVIOUS
  <2>1. {k} \cap v \in SUBSET Ids
    OBVIOUS
  <2> QED BY <1>1, <2>1, TargetsAre
<1>3. \A v \in V, k \in Nat : Followed(v, k) \in V
  BY <1>2
<1> HIDE DEF Followed
<1>4. G \in [V \X Nat -> V] /\ \A v \in V, k \in Nat : G[<<v, k>>] = Followed(v, k)
  BY <1>3
<1>5. q \in Seq(Nat) /\ Len(q) = MaxImages /\ \A k \in 1 .. MaxImages : q[k] = k
  BY <1>1
<1> HIDE DEF G, q
<1>6. PICK it \in [0 .. Len(q) -> V] : IsRun(it, ids, G, q)
  BY <1>4, <1>5, RunExists
<1>7. it = [k \in 0 .. MaxImages |-> IF k = 0 THEN ids ELSE Followed(it[k - 1], k)]
  <2>1. \A k \in 0 .. MaxImages : k # 0 => k - 1 \in 0 .. MaxImages /\ k \in 1 .. MaxImages
    BY <1>1
  <2>2. \A k \in 0 .. MaxImages : k # 0 => G[<<it[k - 1], q[k]>>] = Followed(it[k - 1], k)
    <3> SUFFICES ASSUME NEW k \in 0 .. MaxImages, k # 0
                 PROVE  G[<<it[k - 1], q[k]>>] = Followed(it[k - 1], k)
      OBVIOUS
    <3>1. k - 1 \in 0 .. Len(q) /\ k \in 1 .. MaxImages
      BY <1>5, <2>1
    <3>2. q[k] = k /\ k \in Nat
      BY <1>1, <1>5, <3>1
    <3>3. it[k - 1] \in V
      BY <1>6, <3>1
    <3> QED BY <1>4, <3>2, <3>3
  <2> QED BY <1>5, <1>6, <2>2 DEF IsRun
<1>8. \E j : Runs(j)
  BY <1>7 DEF Followed
<1>9. PICK j : Runs(j) /\ Normal(t, n, ids) = j[MaxImages]
  BY <1>8 DEF Normal
<1>10. /\ j[0] = ids
       /\ \A k \in Nat : k + 1 <= MaxImages => j[k + 1] = Followed(j[k], k + 1)
  <2>1. 0 \in 0 .. MaxImages
    BY <1>1
  <2>2. ASSUME NEW k \in Nat, k + 1 <= MaxImages PROVE j[k + 1] = Followed(j[k], k + 1)
    <3>1. k + 1 \in 0 .. MaxImages /\ k + 1 # 0 /\ (k + 1) - 1 = k
      BY <1>1, <2>2
    <3> QED BY <1>9, <3>1 DEF Followed
  <2> QED BY <1>9, <2>1, <2>2
<1> DEFINE Led(i) == \E o \in Ids : <<n, o, i>> \in t.remaps
           Fine(k) == \A i \in j[k] : (i \in ids /\ (i <= k => ~Redirected(t, n, i))) \/ Led(i)
           Q == {k \in Nat : k <= MaxImages => j[k] \in V /\ Fine(k)}
<1>11. 0 \in Q
  <2>1. \A i \in Ids : ~(i <= 0)
    BY <1>1 DEF Ids
  <2> QED BY <1>10, <2>1
<1>12. ASSUME NEW k \in Q PROVE k + 1 \in Q
  <2> SUFFICES ASSUME k \in Nat, k + 1 <= MaxImages PROVE j[k + 1] \in V /\ Fine(k + 1)
    BY <1>12
  <2> HIDE DEF Fine
  <2>1. j[k] \in V /\ Fine(k)
    <3>1. k <= MaxImages
      BY <1>1
    <3> QED BY <1>12, <3>1
  <2> USE DEF Fine
  <2> PICK v \in V : v = j[k]
    BY <2>1
  <2> PICK m \in Nat : m = k + 1
    OBVIOUS
  <2> PICK to \in SUBSET Ids : to = Targets(t.remaps, n, {m} \cap v)
    BY <1>2
  <2>2. \A i \in to : Led(i)
    BY <1>2
  <2>3. j[m] = IF to = {} THEN v ELSE (v \ {m}) \cup to
    BY <1>10 DEF Followed
  <2>4. j[m] \in V
    BY <2>3
  <2>5. \A i \in v : i \in Ids /\ i \in Nat /\ (i <= m <=> i <= k \/ i = m)
    <3>1. \A i \in Ids : i \in Nat
      BY IdsAreNumbers
    <3> QED BY <3>1
  <2>6. \A i \in v : (i \in ids /\ (i <= k => ~Redirected(t, n, i))) \/ Led(i)
    BY <2>1
  <2>7. m \in v /\ to = {} => ~Redirected(t, n, m)
    BY <1>2 DEF Redirected
  <2>8. Fine(m)
    <3> HIDE DEF Led
    <3> SUFFICES ASSUME NEW i \in j[m] PROVE (i \in ids /\ (i <= m => ~Redirected(t, n, i))) \/ Led(i)
      OBVIOUS
    <3>1. CASE i \in to
      BY <2>2, <3>1
    <3>2. CASE i \notin to
      <4>1. i \in v /\ (i = m => to = {})
        BY <2>3, <3>2
      <4> QED BY <2>5, <2>6, <2>7, <4>1
    <3> QED BY <3>1, <3>2
  <2> QED BY <2>4, <2>8
<1>13. Q = Nat
  <2>1. Q \in SUBSET Nat
    OBVIOUS
  <2> HIDE DEF Q
  <2> QED BY <1>11, <1>12, <2>1, CountInduction
<1>14. j[MaxImages] \in V /\ Fine(MaxImages)
  <2> HIDE DEF Fine
  <2>1. MaxImages \in Q /\ MaxImages <= MaxImages
    BY <1>1, <1>13
  <2> QED BY <2>1
<1>15. \A i \in Ids : i <= MaxImages
  BY <1>1 DEF Ids
<1> QED BY <1>9, <1>14, <1>15

(* Steps that add: an image, a reference, a name of an image that is there.  *)
Grown(t, u, gone) ==
  /\ t.refs \subseteq u.refs /\ u.remaps = t.remaps /\ u.queued = t.queued
  /\ \A i \in Ids :
       /\ t.image[i].there => u.image[i].there /\ u.image[i].space = t.image[i].space
       /\ \/ u.image[i].item = 0
          \/ u.image[i].item = t.image[i].item /\ (u.image[i].there => t.image[i].there)
  /\ \A n \in Picture :
       /\ u.note[n].space = t.note[n].space
       /\ \A i \in Counted(u, n) :
            i \in Counted(t, n) \/ i \in gone \/ (With(u, n, i) /\ <<i, n>> \in u.refs)
       /\ \A i \in u.note[n].open \ Closed : i \in t.note[n].open \ Closed \/ With(u, n, i)

(* Such a step keeps the invariant.                                         *)
LEMMA GrowKeeps ==
  ASSUME ImagesInv, NEW u \in TableSet, Become(u), Same, RowsThere(u), Grown(Tables, u, lost)
  PROVE  ImagesInv'
<1> PICK t \in TableSet : t = Tables
  BY TablesSound
<1>1. /\ RowsThere(t) /\ NamedStay(t, lost) /\ NamedCount(t, lost) /\ RedirectsLead(t, lost)
      /\ EditorsLead(t, lost) /\ ItemsSound(t, uploads) /\ DoomedAreLost(t, queued \cup deleted, lost)
      /\ queued \cup deleted \subseteq 1 .. uploads /\ t.queued = queued /\ uploads \in Nat
  BY TablesAre DEF ImagesInv, ImagesTypeOK
<1>14. /\ t.refs \subseteq u.refs /\ u.remaps = t.remaps /\ u.queued = t.queued
       /\ \A i \in Ids :
            /\ t.image[i].there => u.image[i].there /\ u.image[i].space = t.image[i].space
            /\ \/ u.image[i].item = 0
               \/ u.image[i].item = t.image[i].item /\ (u.image[i].there => t.image[i].there)
       /\ \A n \in Picture : u.note[n].space = t.note[n].space
       /\ \A n \in Picture : \A i \in Counted(u, n) :
            i \in Counted(t, n) \/ i \in lost \/ (With(u, n, i) /\ <<i, n>> \in u.refs)
       /\ \A n \in Picture : \A i \in u.note[n].open \ Closed :
            i \in t.note[n].open \ Closed \/ With(u, n, i)
  BY DEF Grown
<1>2. Tables' = u
  BY BecomeIs
<1>3. lost \subseteq lost' /\ lost' \in SUBSET Ids /\ deleted' = deleted /\ uploads' = uploads
  BY <1>2, SameLost
<1>4. queued' = queued
  BY <1>1, <1>2, <1>14, TablesAre
<1>5. \A n \in Picture, i \in Ids : With(t, n, i) => With(u, n, i)
  BY <1>14 DEF With
<1>6. \A n \in Picture : Counted(t, n) \in SUBSET Ids /\ Counted(u, n) \in SUBSET Ids
  BY DEF TableSet, NoteRec, Counted
<1>7. ItemsSound(u, uploads')
  <2>1. \A i \in Ids : t.image[i].item \in Nat
    BY DEF TableSet, ImageRec
  <2> QED BY <1>1, <1>3, <1>14, <2>1 DEF ItemsSound
<1>8. DoomedAreLost(u, queued' \cup deleted', lost')
  BY <1>1, <1>3, <1>4, <1>14 DEF DoomedAreLost
<1>9. NamedStay(u, lost')
  BY <1>1, <1>3, <1>5, <1>6, <1>14 DEF NamedStay
<1>10. NamedCount(u, lost')
  BY <1>1, <1>3, <1>6, <1>14 DEF NamedCount
<1>11. RedirectsLead(u, lost')
  BY <1>1, <1>3, <1>5, <1>14 DEF RedirectsLead
<1>12. EditorsLead(u, lost')
  <2> SUFFICES ASSUME NEW n \in Picture, NEW i \in u.note[n].open \ Closed
               PROVE  Redirected(u, n, i) \/ i \in lost' \/ With(u, n, i)
    BY DEF EditorsLead
  <2>1. i \in Ids
    <3>1. u.note[n].open \in (SUBSET Ids) \cup {Closed}
      BY DEF TableSet, NoteRec
    <3> QED BY <3>1
  <2> QED BY <1>1, <1>3, <1>5, <1>14, <2>1 DEF EditorsLead, Redirected
<1>13. ImagesTypeOK'
  BY <1>1, <1>2, <1>3, <1>4 DEF ImagesTypeOK
<1> QED BY <1>2, <1>7, <1>8, <1>9, <1>10, <1>11, <1>12, <1>13, TablesAre DEF ImagesInv

(* An image the editor is given is of the note's space, and counted.        *)
LEMMA InsertKeeps == ASSUME ImagesInv, NEW n \in Picture, Insert(n) PROVE ImagesInv'
<1>1. /\ Tables \in TableSet /\ note \in [Picture -> NoteRec] /\ image \in [Ids -> ImageRec]
      /\ refs \in SUBSET (Ids \X Picture) /\ RowsThere(Tables)
  BY TablesSound, TablesAre DEF TableSet
<1>2. note[n].there /\ note[n].open # Closed /\ Same
  BY DEF Insert, IsOpen
<1>3. note[n].open \in SUBSET Ids
  BY <1>2, NamedAre
<1>4. PICK i \in Ids : /\ Become(Inserted(Tables, i, n))
                       /\ image[i].there => image[i].space = note[n].space
  <2> DEFINE same == InSpace(Tables, note[n].space)
  <2>1. PICK i \in IF same # {} THEN same ELSE Free(image) : Become(Inserted(Tables, i, n))
    BY DEF Insert
  <2>2. CASE same # {}
    BY <2>1, <2>2, TablesAre DEF InSpace, Stored
  <2>3. CASE same = {}
    <3>1. i \in Ids /\ ~image[i].made
      BY <2>1, <2>3 DEF Free
    <3> QED BY <1>1, <2>1, <3>1, TablesAre DEF RowsThere
  <2> QED BY <2>2, <2>3
<1> PICK g : g = IF image[i].there THEN image[i]
                 ELSE [Gone EXCEPT !.there = TRUE, !.owner = n, !.space = note[n].space, !.dirty = TRUE]
  OBVIOUS
<1>5. /\ g \in ImageRec /\ g.there /\ g.space = note[n].space /\ g.made
      /\ image[i].there => g = image[i]
      /\ ~image[i].there => g.item = 0 /\ g.owner = n
  <2>1. CASE image[i].there
    BY <1>1, <1>4, <2>1 DEF RowsThere, Tables
  <2>2. CASE ~image[i].there
    BY <1>1, <2>2 DEF Gone, NoImage, ImageRec, NoteRec
  <2> QED BY <2>1, <2>2
<1> PICK r : r = [note[n] EXCEPT !.open = note[n].open \cup {i}]
  OBVIOUS
<1>6. /\ r \in NoteRec /\ r.there = note[n].there /\ r.space = note[n].space /\ r.body = note[n].body
      /\ r.past = note[n].past /\ r.open = note[n].open \cup {i}
  BY <1>1, <1>3 DEF NoteRec
<1> PICK nt \in [Picture -> NoteRec] : nt = [note EXCEPT ![n] = r]
  BY <1>1, <1>6
<1> PICK img \in [Ids -> ImageRec] : img = [image EXCEPT ![i] = g]
  BY <1>1, <1>5
<1>17. <<i, n>> \in Ids \X Picture
  OBVIOUS
<1> PICK rf \in SUBSET (Ids \X Picture) : rf = refs \cup {<<i, n>>}
  BY <1>1, <1>17
<1> PICK u : u = [Tables EXCEPT !.note = nt, !.refs = rf, !.image = img]
  OBVIOUS
<1>7. /\ u \in TableSet /\ u.note = [note EXCEPT ![n] = r] /\ u.refs = refs \cup {<<i, n>>}
      /\ u.image = [image EXCEPT ![i] = g] /\ u.remaps = remaps /\ u.queued = queued
  <2>1. /\ u \in TableSet /\ u.note = nt /\ u.refs = rf /\ u.image = img
        /\ u.remaps = Tables.remaps /\ u.queued = Tables.queued
    BY <1>1 DEF TableSet
  <2> QED BY <2>1, TablesAre
<1>8. Inserted(Tables, i, n) = u
  <2>1. Inserted(Tables, i, n) = [Tables EXCEPT !.note = [Tables.note EXCEPT ![n] = r],
                                    !.refs = Tables.refs \cup {<<i, n>>},
                                    !.image = [Tables.image EXCEPT ![i] = g]]
    BY <1>1, TablesAre DEF Inserted, TableSet
  <2> QED BY <2>1, TablesAre
<1>9. /\ u.note[n] = r /\ \A m \in Picture : m # n => u.note[m] = note[m]
      /\ u.image[i] = g /\ \A j \in Ids : j # i => u.image[j] = image[j]
  BY <1>1, <1>7
<1>10. \A m \in Picture : /\ Counted(u, m) = Counted(Tables, m) /\ u.note[m].there = note[m].there
                          /\ u.note[m].space = note[m].space
  BY <1>6, <1>9, TablesAre DEF Counted
<1>11. \A j \in Ids : image[j].there => u.image[j] = image[j]
  BY <1>5, <1>9
<1>12. RowsThere(u)
  <2>1. /\ \A j \in Ids, m \in Picture : <<j, m>> \in refs => image[j].there /\ note[m].there
        /\ \A m \in Picture, o \in Ids, j \in Ids : <<m, o, j>> \in remaps => image[j].there /\ note[m].there
        /\ \A m \in Picture : ~note[m].there => Counted(Tables, m) = {} /\ note[m].open = Closed
        /\ \A j \in Ids : image[j].there => image[j].made
        /\ \A j \in Ids : image[j].owner = Unowned \/ note[image[j].owner].there
    BY <1>1, TablesAre DEF RowsThere
  <2>2. \A j \in Ids, m \in Picture : <<j, m>> \in u.refs => u.image[j].there /\ u.note[m].there
    <3>1. \A j \in Ids, m \in Picture : <<j, m>> \in u.refs => <<j, m>> \in refs \/ (j = i /\ m = n)
      BY <1>7
    <3> QED BY <1>2, <1>5, <1>9, <1>10, <1>11, <2>1, <3>1
  <2>3. \A m \in Picture, o \in Ids, j \in Ids : <<m, o, j>> \in u.remaps => u.image[j].there /\ u.note[m].there
    BY <1>7, <1>10, <1>11, <2>1
  <2>4. \A m \in Picture : ~u.note[m].there => Counted(u, m) = {} /\ u.note[m].open = Closed
    BY <1>2, <1>9, <1>10, <2>1
  <2>5. \A j \in Ids : u.image[j].there => u.image[j].made
    BY <1>5, <1>9, <2>1
  <2>6. \A j \in Ids : u.image[j].owner = Unowned \/ u.note[u.image[j].owner].there
    <3> SUFFICES ASSUME NEW j \in Ids PROVE u.image[j].owner = Unowned \/ u.note[u.image[j].owner].there
      OBVIOUS
    <3>1. u.image[j].owner \in Picture \cup {Unowned}
      BY <1>7 DEF TableSet, ImageRec
    <3>2. u.image[j].owner = image[j].owner \/ u.image[j].owner = n
      BY <1>5, <1>9
    <3> QED BY <1>2, <1>10, <2>1, <3>1, <3>2
  <2> QED BY <2>2, <2>3, <2>4, <2>5, <2>6 DEF RowsThere
<1>13. \A m \in Picture : \A j \in u.note[m].open \ Closed :
         j \in Tables.note[m].open \ Closed \/ With(u, m, j)
  <2> SUFFICES ASSUME NEW m \in Picture, NEW j \in u.note[m].open \ Closed
               PROVE  j \in Tables.note[m].open \ Closed \/ With(u, m, j)
    OBVIOUS
  <2>1. CASE m = n
    <3>1. j \in note[n].open \ Closed \/ j = i
      BY <1>6, <1>9, <2>1
    <3>2. With(u, n, i)
      BY <1>5, <1>6, <1>9 DEF With
    <3> QED BY <2>1, <3>1, <3>2, TablesAre
  <2>2. CASE m # n
    BY <1>9, <2>2, TablesAre
  <2> QED BY <2>1, <2>2
<1>14. \A j \in Ids : /\ Tables.image[j].there =>
                             u.image[j].there /\ u.image[j].space = Tables.image[j].space
                      /\ \/ u.image[j].item = 0
                         \/ /\ u.image[j].item = Tables.image[j].item
                            /\ u.image[j].there => Tables.image[j].there
  BY <1>5, <1>9, TablesAre
<1>15. Become(u)
  BY <1>4, <1>8
<1>16. /\ Tables.refs \subseteq u.refs /\ u.remaps = Tables.remaps /\ u.queued = Tables.queued
       /\ \A m \in Picture : u.note[m].space = Tables.note[m].space
       /\ \A m \in Picture : \A j \in Counted(u, m) :
            j \in Counted(Tables, m) \/ j \in lost \/ (With(u, m, j) /\ <<j, m>> \in u.refs)
  BY <1>7, <1>10, TablesAre
<1>18. Grown(Tables, u, lost)
  BY <1>13, <1>14, <1>16 DEF Grown
<1> QED BY <1>2, <1>7, <1>12, <1>15, <1>18, GrowKeeps

(* The text that an editor had, with the open text left or closed.           *)
LEMMA SavedKeeps ==
  ASSUME ImagesInv, NEW n \in Picture, IsOpen(n), Same, NEW left \in {note[n].open, Closed},
         NEW w, Become(w), w = [Saved(Tables, n) EXCEPT !.note[n].open = left]
  PROVE  ImagesInv'
<1>1. /\ Tables \in TableSet /\ note \in [Picture -> NoteRec] /\ image \in [Ids -> ImageRec]
      /\ refs \in SUBSET (Ids \X Picture) /\ RowsThere(Tables)
      /\ RedirectsLead(Tables, lost) /\ EditorsLead(Tables, lost)
  BY TablesSound, TablesAre DEF TableSet, ImagesInv
<1>2. note[n].there /\ note[n].open # Closed
  BY DEF IsOpen
<1>3. note[n].open \in SUBSET Ids /\ note[n].open \ Closed = note[n].open
  BY <1>2, NamedAre, IdsAreNumbers
<1> PICK ids : ids = Normal(Tables, n, note[n].open)
  OBVIOUS
<1>4. /\ ids \in SUBSET Ids
      /\ \A i \in ids : i \in lost \/ With(Tables, n, i)
  <2>1. /\ ids \in SUBSET Ids
        /\ \A i \in ids : (i \in note[n].open /\ ~Redirected(Tables, n, i))
                             \/ \E o \in Ids : <<n, o, i>> \in Tables.remaps
    BY <1>1, <1>3, NormalIs
  <2> QED BY <1>1, <1>3, <2>1, TablesAre DEF EditorsLead, RedirectsLead
<1> PICK more : more = {<<i, n>> : i \in ids \cap Stored(image)}
  OBVIOUS
<1>5. /\ more \in SUBSET (Ids \X Picture)
      /\ \A i \in Ids, m \in Picture : <<i, m>> \in more <=> m = n /\ i \in ids /\ image[i].there
  <2>1. more \in SUBSET (Ids \X Picture)
    BY <1>4
  <2>2. \A i \in Ids, m \in Picture : <<i, m>> \in more <=> m = n /\ i \in ids /\ image[i].there
    BY <1>4 DEF Stored
  <2> QED BY <2>1, <2>2
<1> PICK r : r = [note[n] EXCEPT !.body = ids, !.open = left]
  OBVIOUS
<1>6. /\ r \in NoteRec /\ r.there = note[n].there /\ r.space = note[n].space /\ r.body = ids
      /\ r.past = note[n].past /\ r.open = left
  BY <1>1, <1>3, <1>4 DEF NoteRec
<1> PICK nt \in [Picture -> NoteRec] : nt = [note EXCEPT ![n] = r]
  BY <1>1, <1>6
<1> PICK rf \in SUBSET (Ids \X Picture) : rf = refs \cup more
  BY <1>1, <1>5
<1> PICK u : u = [Tables EXCEPT !.note = nt, !.refs = rf]
  OBVIOUS
<1>7. /\ u \in TableSet /\ u.note = nt /\ u.refs = rf /\ u.image = image
      /\ u.remaps = remaps /\ u.queued = queued
  <2>1. /\ u \in TableSet /\ u.note = nt /\ u.refs = rf /\ u.image = Tables.image
        /\ u.remaps = Tables.remaps /\ u.queued = Tables.queued
    BY <1>1 DEF TableSet
  <2> QED BY <2>1, TablesAre
<1>8. w = u
  <2> PICK s \in NoteRec : s = [note[n] EXCEPT !.body = ids]
    BY <1>1, <1>4 DEF NoteRec
  <2> PICK mt \in [Picture -> NoteRec] : mt = [note EXCEPT ![n] = s]
    BY <1>1
  <2>1. Saved(Tables, n) = [Tables EXCEPT !.note = mt, !.refs = rf]
    BY <1>1, TablesAre DEF Saved, TableSet
  <2>2. [s EXCEPT !.open = left] = r
    BY <1>1 DEF NoteRec
  <2>3. [mt EXCEPT ![n] = r] = nt
    BY <1>1
  <2>4. mt[n] = s
    BY <1>1
  <2> PICK v : v = [Tables EXCEPT !.note = mt, !.refs = rf]
    OBVIOUS
  <2>5. v \in TableSet /\ v.note = mt
    BY <1>1 DEF TableSet
  <2>6. w = [v EXCEPT !.note = [mt EXCEPT ![n] = [s EXCEPT !.open = left]]]
    BY <2>1, <2>4, <2>5 DEF TableSet
  <2>7. w = [v EXCEPT !.note = nt]
    BY <2>2, <2>3, <2>6
  <2>8. [v EXCEPT !.note = nt] = u
    BY <1>1 DEF TableSet
  <2> QED BY <2>7, <2>8
<1>9. u.note[n] = r /\ \A m \in Picture : m # n => u.note[m] = note[m]
  BY <1>1, <1>7
<1>10. \A m \in Picture : /\ u.note[m].there = note[m].there /\ u.note[m].space = note[m].space
                          /\ u.note[m].open \in {note[m].open, Closed}
                          /\ Counted(u, m) = IF m = n THEN ids \cup note[n].past ELSE Counted(Tables, m)
  BY <1>6, <1>9, TablesAre DEF Counted
<1>11. RowsThere(u)
  <2>1. /\ \A j \in Ids, m \in Picture : <<j, m>> \in refs => image[j].there /\ note[m].there
        /\ \A m \in Picture, o \in Ids, j \in Ids : <<m, o, j>> \in remaps => image[j].there /\ note[m].there
        /\ \A m \in Picture : ~note[m].there => Counted(Tables, m) = {} /\ note[m].open = Closed
        /\ \A j \in Ids : image[j].there => image[j].made
        /\ \A j \in Ids : image[j].owner = Unowned \/ note[image[j].owner].there
    BY <1>1, TablesAre DEF RowsThere
  <2>2. ASSUME NEW j \in Ids, NEW m \in Picture, <<j, m>> \in u.refs
        PROVE  u.image[j].there /\ u.note[m].there
    <3>1. u.image = image /\ (u.note[m].there <=> note[m].there) /\ u.refs = rf
      BY <1>7, <1>10
    <3>2. <<j, m>> \in refs \/ <<j, m>> \in more
      BY <2>2, <3>1
    <3>3. CASE <<j, m>> \in refs
      BY ONLY <2>1, <3>1, <3>3, j \in Ids, m \in Picture
    <3>4. CASE <<j, m>> \in more
      <4>1. m = n /\ image[j].there
        BY <1>5, <3>4
      <4> QED BY ONLY <1>2, <3>1, <4>1
    <3> QED BY ONLY <3>2, <3>3, <3>4
  <2>3. ASSUME NEW m \in Picture, ~u.note[m].there
        PROVE  Counted(u, m) = {} /\ u.note[m].open = Closed
    <3>1. ~note[m].there /\ u.note[m].open \in {note[m].open, Closed}
      BY ONLY <1>10, <2>3, m \in Picture
    <3>2. m # n
      BY ONLY <1>2, <3>1
    <3>3. Counted(u, m) = Counted(Tables, m)
      BY ONLY <1>10, <3>2, m \in Picture
    <3>4. Counted(Tables, m) = {} /\ note[m].open = Closed
      BY ONLY <2>1, <3>1, m \in Picture
    <3> QED BY ONLY <3>1, <3>3, <3>4
  <2>4. \A j \in Ids : u.image[j].owner = Unowned \/ u.note[u.image[j].owner].there
    <3> SUFFICES ASSUME NEW j \in Ids, u.image[j].owner # Unowned
                 PROVE  u.note[u.image[j].owner].there
      OBVIOUS
    <3>1. u.image[j].owner = image[j].owner
      BY <1>7
    <3>2. PICK m \in Picture : m = image[j].owner
      BY <1>1, <3>1 DEF ImageRec
    <3>3. note[m].there
      BY <2>1, <3>1, <3>2
    <3> QED BY <1>10, <3>1, <3>2, <3>3
  <2>5. \A m \in Picture, o \in Ids, j \in Ids :
          <<m, o, j>> \in u.remaps => u.image[j].there /\ u.note[m].there
    BY ONLY <1>7, <1>10, <2>1
  <2>6. \A j \in Ids : u.image[j].there => u.image[j].made
    BY ONLY <1>7, <2>1
  <2> QED BY ONLY <2>2, <2>3, <2>4, <2>5, <2>6 DEF RowsThere
<1>12. /\ Tables.refs \subseteq u.refs /\ u.remaps = Tables.remaps /\ u.queued = Tables.queued
       /\ \A m \in Picture : u.note[m].space = Tables.note[m].space
  BY <1>7, <1>10, TablesAre
<1>13. \A i \in Ids : /\ Tables.image[i].there =>
                             u.image[i].there /\ u.image[i].space = Tables.image[i].space
                       /\ \/ u.image[i].item = 0
                          \/ /\ u.image[i].item = Tables.image[i].item
                             /\ u.image[i].there => Tables.image[i].there
  BY <1>7, TablesAre
<1>14. \A m \in Picture : \A i \in Counted(u, m) :
         i \in Counted(Tables, m) \/ i \in lost \/ (With(u, m, i) /\ <<i, m>> \in u.refs)
  <2> SUFFICES ASSUME NEW m \in Picture, NEW i \in Counted(u, m), i \notin Counted(Tables, m), i \notin lost
               PROVE  With(u, m, i) /\ <<i, m>> \in u.refs
    OBVIOUS
  <2>1. m = n /\ i \in ids
    BY <1>10, TablesAre DEF Counted
  <2>2. With(Tables, n, i)
    BY <1>4, <2>1
  <2>3. u.image = image /\ u.refs = rf /\ u.note[n].space = note[n].space /\ i \in Ids
    BY <1>4, <1>7, <1>10, <2>1
  <2>4. With(u, n, i)
    BY ONLY <2>2, <2>3, TablesAre DEF With
  <2>5. image[i].there
    BY ONLY <2>2, TablesAre DEF With
  <2>6. <<i, n>> \in more
    BY <1>5, <2>1, <2>3, <2>5
  <2> QED BY <2>1, <2>3, <2>4, <2>6
<1>15. \A m \in Picture : \A i \in u.note[m].open \ Closed :
         i \in Tables.note[m].open \ Closed \/ With(u, m, i)
  BY <1>10, TablesAre
<1>16. Become(u) /\ u \in TableSet
  BY <1>7, <1>8
<1>17. Grown(Tables, u, lost)
  <2>1. ASSUME NEW m \in Picture
        PROVE  /\ u.note[m].space = Tables.note[m].space
               /\ \A i \in Counted(u, m) :
                    i \in Counted(Tables, m) \/ i \in lost \/ (With(u, m, i) /\ <<i, m>> \in u.refs)
               /\ \A i \in u.note[m].open \ Closed : i \in Tables.note[m].open \ Closed \/ With(u, m, i)
    BY <1>12, <1>14, <1>15
  <2>2. Tables.refs \subseteq u.refs /\ u.remaps = Tables.remaps /\ u.queued = Tables.queued
    BY <1>12
  <2>3. \A i \in Ids :
          /\ Tables.image[i].there => u.image[i].there /\ u.image[i].space = Tables.image[i].space
          /\ \/ u.image[i].item = 0
             \/ u.image[i].item = Tables.image[i].item /\ (u.image[i].there => Tables.image[i].there)
    BY <1>13
  <2> HIDE DEF Tables
  <2> QED BY ONLY <2>1, <2>2, <2>3 DEF Grown
<1> QED BY <1>11, <1>16, <1>17, GrowKeeps

(* A late save: its ids are resolved by the redirects, and counted.         *)
LEMMA SaveKeeps == ASSUME ImagesInv, NEW n \in Picture, Save(n) PROVE ImagesInv'
<1>1. IsOpen(n) /\ Same /\ Become(Saved(Tables, n))
  BY DEF Save
<1>2. Tables \in TableSet /\ note[n] \in NoteRec
  BY TablesSound, TablesAre DEF TableSet
<1>3. Saved(Tables, n).note \in [Picture -> NoteRec] /\ Saved(Tables, n).note[n].open = note[n].open
  <2>1. note[n].open \in SUBSET Ids
    BY <1>1, NamedAre DEF IsOpen
  <2>2. Normal(Tables, n, note[n].open) \in SUBSET Ids
    BY <1>2, <2>1, NormalIs
  <2> QED BY <1>2, <2>2, TablesAre DEF Saved, TableSet, NoteRec
<1>4. [Saved(Tables, n) EXCEPT !.note[n].open = note[n].open] = Saved(Tables, n)
  <2> PICK ids : ids = Normal(Tables, n, note[n].open)
    OBVIOUS
  <2> PICK rf : rf = refs \cup {<<i, n>> : i \in ids \cap Stored(image)}
    OBVIOUS
  <2> PICK f : f = [note EXCEPT ![n] = [note[n] EXCEPT !.body = ids]]
    OBVIOUS
  <2> PICK v : v = [Tables EXCEPT !.note = f, !.refs = rf]
    OBVIOUS
  <2>1. Saved(Tables, n) = v
    BY <1>2, TablesAre DEF Saved, TableSet
  <2>2. f \in [Picture -> NoteRec] /\ f[n].open = note[n].open
    <3>1. v.note = f
      BY <1>2 DEF TableSet
    <3> QED BY <1>3, <2>1, <3>1
  <2>3. [f[n] EXCEPT !.open = note[n].open] = f[n]
    BY <2>2 DEF NoteRec
  <2>4. [f EXCEPT ![n].open = note[n].open] = f
    BY <2>2, <2>3
  <2>5. [v EXCEPT !.note[n].open = note[n].open] = [v EXCEPT !.note = [f EXCEPT ![n].open = note[n].open]]
    BY <1>2 DEF TableSet
  <2>6. [v EXCEPT !.note = f] = v
    BY <1>2 DEF TableSet
  <2> QED BY <2>1, <2>4, <2>5, <2>6
<1> QED BY <1>1, <1>4, SavedKeeps

LEMMA CloseEditorKeeps == ASSUME ImagesInv, NEW n \in Picture, CloseEditor(n) PROVE ImagesInv'
BY SavedKeeps DEF CloseEditor

-----------------------------------------------------------------------------
(* What a copy of an image does to the notes that take it.                   *)

RewrittenFor(t, v, D, old, new) ==
  /\ \A n \in Picture :
       /\ v.note[n].there = t.note[n].there /\ v.note[n].space = t.note[n].space
       /\ v.note[n].open = t.note[n].open
       /\ n \in D => /\ v.note[n].body = Renamed(t.note[n].body, old, new)
                     /\ v.note[n].past = Renamed(t.note[n].past, old, new)
       /\ n \notin D => v.note[n] = t.note[n]
  /\ \A n \in Picture, j \in Ids : <<j, n>> \in v.refs <=>
       \/ n \in D /\ j = new
       \/ (n \in D => j # old) /\ <<j, n>> \in t.refs
  /\ \A n \in Picture, o \in Ids, j \in Ids : <<n, o, j>> \in v.remaps <=>
       \/ n \notin D /\ <<n, o, j>> \in t.remaps
       \/ n \in D /\ o = old /\ j = new
       \/ n \in D /\ o # old /\ j # old /\ <<n, o, j>> \in t.remaps
       \/ n \in D /\ o # old /\ j = new /\ <<n, o, old>> \in t.remaps

RemappedFor(ms, rm, n, old, new) ==
  \A m \in Picture, o \in Ids, j \in Ids : <<m, o, j>> \in rm <=>
    \/ m # n /\ <<m, o, j>> \in ms
    \/ m = n /\ o = old /\ j = new
    \/ m = n /\ o # old /\ j # old /\ <<n, o, j>> \in ms
    \/ m = n /\ o # old /\ j = new /\ <<n, o, old>> \in ms

(* record_asset_remap, by the rows it leaves.                               *)
LEMMA RemappedIs ==
  ASSUME NEW ms \in SUBSET (Picture \X Ids \X Ids), NEW n \in Picture, NEW old \in Ids, NEW new \in Ids
  PROVE  /\ Remapped(ms, n, old, new) \in SUBSET (Picture \X Ids \X Ids)
         /\ RemappedFor(ms, Remapped(ms, n, old, new), n, old, new)
<1> DEFINE from == {r \in ms : <<r[1], r[2]>> # <<n, old>>}
           To == [m \in ms |-> IF m[1] = n /\ m[3] = old THEN <<n, m[2], new>> ELSE m]
<1>1. /\ \A r \in ms : r[1] \in Picture /\ r[2] \in Ids /\ r[3] \in Ids /\ r = <<r[1], r[2], r[3]>>
      /\ \A m \in Picture, o \in Ids, j \in Ids : <<m, o, j>>[1] = m /\ <<m, o, j>>[2] = o /\ <<m, o, j>>[3] = j
  OBVIOUS
<1>2. \A r \in ms : r \in from <=> r[1] # n \/ r[2] # old
  OBVIOUS
<1>3. Remapped(ms, n, old, new) = {To[m] : m \in from} \cup {<<n, old, new>>}
  BY DEF Remapped
<1>4. from \subseteq ms /\ \A r \in from : To[r] \in Picture \X Ids \X Ids
  BY <1>1
<1>5. \A m \in Picture, o \in Ids, j \in Ids : <<m, o, j>> \in ms =>
        To[<<m, o, j>>] = IF m = n /\ j = old THEN <<n, o, new>> ELSE <<m, o, j>>
  BY <1>1
<1> HIDE DEF from, To
<1>6. Remapped(ms, n, old, new) \in SUBSET (Picture \X Ids \X Ids)
  <2>1. <<n, old, new>> \in Picture \X Ids \X Ids
    OBVIOUS
  <2> QED BY <1>3, <1>4, <2>1
<1>7. ASSUME NEW m \in Picture, NEW o \in Ids, NEW j \in Ids, <<m, o, j>> \in Remapped(ms, n, old, new)
      PROVE  \/ m # n /\ <<m, o, j>> \in ms
             \/ m = n /\ o = old /\ j = new
             \/ m = n /\ o # old /\ j # old /\ <<n, o, j>> \in ms
             \/ m = n /\ o # old /\ j = new /\ <<n, o, old>> \in ms
  <2>1. CASE <<m, o, j>> = <<n, old, new>>
    BY <2>1
  <2>2. CASE <<m, o, j>> # <<n, old, new>>
    <3>1. PICK r \in from : <<m, o, j>> = To[r]
      BY <1>3, <1>7, <2>2
    <3>4. r \in ms /\ (r[1] # n \/ r[2] # old)
      BY <1>2, <1>4
    <3>5. r[1] \in Picture /\ r[2] \in Ids /\ r[3] \in Ids /\ r = <<r[1], r[2], r[3]>>
      BY <1>1, <3>4
    <3> PICK a \in Picture, b \in Ids, c \in Ids : a = r[1] /\ b = r[2] /\ c = r[3]
      BY <3>5
    <3>2. r = <<a, b, c>> /\ <<a, b, c>> \in ms /\ (a # n \/ b # old)
      BY <3>4, <3>5
    <3>3. <<m, o, j>> = IF a = n /\ c = old THEN <<n, b, new>> ELSE <<a, b, c>>
      BY <1>5, <3>1, <3>2
    <3> QED BY <3>2, <3>3
  <2> QED BY <2>1, <2>2
<1>8. ASSUME NEW m \in Picture, NEW o \in Ids, NEW j \in Ids,
             \/ m # n /\ <<m, o, j>> \in ms
             \/ m = n /\ o = old /\ j = new
             \/ m = n /\ o # old /\ j # old /\ <<n, o, j>> \in ms
             \/ m = n /\ o # old /\ j = new /\ <<n, o, old>> \in ms
      PROVE  <<m, o, j>> \in Remapped(ms, n, old, new)
  <2>1. ASSUME <<m, o, j>> \in ms, m # n \/ (o # old /\ j # old) PROVE <<m, o, j>> \in {To[r] : r \in from}
    <3>2. <<m, o, j>>[1] = m /\ <<m, o, j>>[2] = o
      OBVIOUS
    <3>1. <<m, o, j>> \in from /\ To[<<m, o, j>>] = <<m, o, j>>
      <4>1. <<m, o, j>> \in from
        BY <1>2, <2>1, <3>2
      <4>2. To[<<m, o, j>>] = IF m = n /\ j = old THEN <<n, o, new>> ELSE <<m, o, j>>
        BY <1>5, <2>1
      <4> QED BY <2>1, <4>1, <4>2
    <3> QED BY <3>1
  <2>2. ASSUME <<n, o, old>> \in ms, o # old PROVE <<n, o, new>> \in {To[r] : r \in from}
    <3>2. <<n, o, old>>[1] = n /\ <<n, o, old>>[2] = o
      OBVIOUS
    <3>1. <<n, o, old>> \in from /\ To[<<n, o, old>>] = <<n, o, new>>
      BY <1>2, <1>5, <2>2, <3>2
    <3> QED BY <3>1
  <2> QED BY <1>3, <1>8, <2>1, <2>2
<1> QED BY <1>6, <1>7, <1>8 DEF RemappedFor

LEMMA RenamedIs ==
  ASSUME NEW ids \in SUBSET Ids, NEW old \in Ids, NEW new \in Ids
  PROVE  /\ Renamed(ids, old, new) \in SUBSET Ids
         /\ \A i \in Renamed(ids, old, new) : i = new \/ (i \in ids /\ i # old)
BY DEF Renamed

(* rewrite_note_asset_id, for a note and, one after the other, for all that *)
(* take the copy.                                                           *)
LEMMA RewrittenIs ==
  ASSUME NEW t \in TableSet, NEW n \in Picture, NEW old \in Ids, NEW new \in Ids
  PROVE  /\ Rewritten(t, n, old, new) \in TableSet
         /\ Rewritten(t, n, old, new).image = t.image /\ Rewritten(t, n, old, new).queued = t.queued
         /\ RewrittenFor(t, Rewritten(t, n, old, new), {n}, old, new)
<1>1. /\ t.note \in [Picture -> NoteRec] /\ t.note[n] \in NoteRec
      /\ t.refs \in SUBSET (Ids \X Picture) /\ t.remaps \in SUBSET (Picture \X Ids \X Ids)
  BY DEF TableSet
<1>2. t.note[n].body \in SUBSET Ids /\ t.note[n].past \in SUBSET Ids
  BY <1>1 DEF NoteRec
<1> PICK body \in SUBSET Ids : body = Renamed(t.note[n].body, old, new)
  BY <1>2, RenamedIs
<1> PICK past \in SUBSET Ids : past = Renamed(t.note[n].past, old, new)
  BY <1>2, RenamedIs
<1> PICK r : r = [t.note[n] EXCEPT !.body = body, !.past = past]
  OBVIOUS
<1>3. /\ r \in NoteRec /\ r.there = t.note[n].there /\ r.space = t.note[n].space /\ r.open = t.note[n].open
      /\ r.body = body /\ r.past = past
  BY <1>1 DEF NoteRec
<1> PICK nt \in [Picture -> NoteRec] : nt = [t.note EXCEPT ![n] = r]
  BY <1>1, <1>3
<1>4. nt[n] = r /\ \A m \in Picture : m # n => nt[m] = t.note[m]
  BY <1>1
<1>12. t.remaps \in SUBSET (Picture \X Ids \X Ids)
  BY <1>1
<1>13. /\ Remapped(t.remaps, n, old, new) \in SUBSET (Picture \X Ids \X Ids)
       /\ RemappedFor(t.remaps, Remapped(t.remaps, n, old, new), n, old, new)
  BY <1>12, RemappedIs
<1> PICK rm \in SUBSET (Picture \X Ids \X Ids) : rm = Remapped(t.remaps, n, old, new)
  BY <1>13
<1>5. <<new, n>> \in Ids \X Picture /\ <<old, n>> \in Ids \X Picture
  OBVIOUS
<1> PICK rf \in SUBSET (Ids \X Picture) : rf = (t.refs \ {<<old, n>>}) \cup {<<new, n>>}
  BY <1>1, <1>5
<1> PICK u : u = [t EXCEPT !.note = nt, !.remaps = rm, !.refs = rf]
  OBVIOUS
<1>6. /\ u \in TableSet /\ u.note = nt /\ u.remaps = rm /\ u.refs = rf /\ u.image = t.image
      /\ u.queued = t.queued
  BY DEF TableSet
<1>7. Rewritten(t, n, old, new) = u
  <2>1. Rewritten(t, n, old, new) = [t EXCEPT !.note = [t.note EXCEPT ![n] = r],
           !.remaps = Remapped(t.remaps, n, old, new),
           !.refs = (t.refs \ {<<old, n>>}) \cup {<<new, n>>}]
    <3>1. [t.note EXCEPT ![n].body = body, ![n].past = past] = [t.note EXCEPT ![n] = r]
      BY <1>1 DEF NoteRec
    <3>2. [t EXCEPT !.note[n].body = body, !.note[n].past = past] =
             [t EXCEPT !.note = [t.note EXCEPT ![n].body = body, ![n].past = past]]
      BY <1>1 DEF TableSet
    <3> QED BY <3>1, <3>2 DEF Rewritten, TableSet, NoteRec
  <2> QED BY <2>1
<1>8. \A m \in Picture, j \in Ids : <<j, m>> \in u.refs <=>
       \/ m \in {n} /\ j = new
       \/ (m \in {n} => j # old) /\ <<j, m>> \in t.refs
  BY <1>6
<1>9. \A m \in Picture, o \in Ids, j \in Ids : <<m, o, j>> \in u.remaps <=>
       \/ m \notin {n} /\ <<m, o, j>> \in t.remaps
       \/ m \in {n} /\ o = old /\ j = new
       \/ m \in {n} /\ o # old /\ j # old /\ <<m, o, j>> \in t.remaps
       \/ m \in {n} /\ o # old /\ j = new /\ <<m, o, old>> \in t.remaps
  <2>1. \A m \in Picture, o \in Ids, j \in Ids : <<m, o, j>> \in rm <=>
          \/ m # n /\ <<m, o, j>> \in t.remaps
          \/ m = n /\ o = old /\ j = new
          \/ m = n /\ o # old /\ j # old /\ <<n, o, j>> \in t.remaps
          \/ m = n /\ o # old /\ j = new /\ <<n, o, old>> \in t.remaps
    <3>1. RemappedFor(t.remaps, rm, n, old, new)
      BY <1>13
    <3> QED BY ONLY <3>1 DEF RemappedFor
  <2> SUFFICES ASSUME NEW m \in Picture, NEW o \in Ids, NEW j \in Ids
               PROVE  <<m, o, j>> \in rm <=>
                        \/ m \notin {n} /\ <<m, o, j>> \in t.remaps
                        \/ m \in {n} /\ o = old /\ j = new
                        \/ m \in {n} /\ o # old /\ j # old /\ <<m, o, j>> \in t.remaps
                        \/ m \in {n} /\ o # old /\ j = new /\ <<m, o, old>> \in t.remaps
    BY <1>6
  <2> QED BY <2>1
<1>10. \A m \in Picture :
       /\ u.note[m].there = t.note[m].there /\ u.note[m].space = t.note[m].space
       /\ u.note[m].open = t.note[m].open
       /\ m \in {n} => /\ u.note[m].body = Renamed(t.note[m].body, old, new)
                       /\ u.note[m].past = Renamed(t.note[m].past, old, new)
       /\ m \notin {n} => u.note[m] = t.note[m]
  BY <1>3, <1>4, <1>6
<1>11. RewrittenFor(t, u, {n}, old, new)
  BY <1>8, <1>9, <1>10 DEF RewrittenFor
<1> QED BY <1>6, <1>7, <1>11

LEMMA RewrittenOn ==
  ASSUME NEW t \in TableSet, NEW u \in TableSet, NEW v \in TableSet, NEW D \in SUBSET Picture,
         NEW n \in Picture \ D, NEW old \in Ids, NEW new \in Ids,
         RewrittenFor(t, u, D, old, new), RewrittenFor(u, v, {n}, old, new)
  PROVE  RewrittenFor(t, v, D \cup {n}, old, new)
<1>1. ASSUME NEW m \in Picture
      PROVE  /\ v.note[m].there = t.note[m].there /\ v.note[m].space = t.note[m].space
             /\ v.note[m].open = t.note[m].open
             /\ m \in D \cup {n} => /\ v.note[m].body = Renamed(t.note[m].body, old, new)
                                    /\ v.note[m].past = Renamed(t.note[m].past, old, new)
             /\ m \notin D \cup {n} => v.note[m] = t.note[m]
  BY DEF RewrittenFor
<1>2. ASSUME NEW m \in Picture, NEW j \in Ids
      PROVE  <<j, m>> \in v.refs <=>
               \/ m \in D \cup {n} /\ j = new
               \/ (m \in D \cup {n} => j # old) /\ <<j, m>> \in t.refs
  BY DEF RewrittenFor
<1>3. ASSUME NEW m \in Picture, NEW o \in Ids, NEW j \in Ids
      PROVE  <<m, o, j>> \in v.remaps <=>
               \/ m \notin D \cup {n} /\ <<m, o, j>> \in t.remaps
               \/ m \in D \cup {n} /\ o = old /\ j = new
               \/ m \in D \cup {n} /\ o # old /\ j # old /\ <<m, o, j>> \in t.remaps
               \/ m \in D \cup {n} /\ o # old /\ j = new /\ <<m, o, old>> \in t.remaps
  <2>1. CASE m = n
    <3>1. \A k \in Ids : <<n, o, k>> \in u.remaps <=> <<n, o, k>> \in t.remaps
      BY DEF RewrittenFor
    <3>2. <<n, o, j>> \in v.remaps <=>
            \/ o = old /\ j = new
            \/ o # old /\ j # old /\ <<n, o, j>> \in u.remaps
            \/ o # old /\ j = new /\ <<n, o, old>> \in u.remaps
      BY DEF RewrittenFor
    <3> QED BY <2>1, <3>1, <3>2
  <2>2. CASE m # n
    <3>1. <<m, o, j>> \in v.remaps <=> <<m, o, j>> \in u.remaps
      BY <2>2 DEF RewrittenFor
    <3>2. <<m, o, j>> \in u.remaps <=>
            \/ m \notin D /\ <<m, o, j>> \in t.remaps
            \/ m \in D /\ o = old /\ j = new
            \/ m \in D /\ o # old /\ j # old /\ <<m, o, j>> \in t.remaps
            \/ m \in D /\ o # old /\ j = new /\ <<m, o, old>> \in t.remaps
      BY DEF RewrittenFor
    <3> QED BY <2>2, <3>1, <3>2
  <2> QED BY <2>1, <2>2
<1> QED BY <1>1, <1>2, <1>3 DEF RewrittenFor

(* All of them, one after the other.                                         *)
LEMMA RewrittenAll ==
  ASSUME NEW t \in TableSet, NEW with \in SUBSET Picture, NEW old \in Ids, NEW new \in Ids
  PROVE  \E v \in TableSet :
           /\ v = FoldSet(LAMBDA n, u : Rewritten(u, n, old, new), t, with)
           /\ v.image = t.image /\ v.queued = t.queued /\ RewrittenFor(t, v, with, old, new)
<1> DEFINE G == [p \in with \X TableSet |-> Rewritten(p[2], p[1], old, new)]
           Runs(j) == j = [x \in SUBSET with |->
             IF x = {} THEN t ELSE Rewritten(j[x \ {Pick(x)}], Pick(x), old, new)]
           Good(u, x) == /\ u \in TableSet /\ u.image = t.image /\ u.queued = t.queued
                         /\ RewrittenFor(t, u, x, old, new)
<1>1. IsFiniteSet(with)
  BY ImagesAssumption, FS_Subset
<1>2. G \in [with \X TableSet -> TableSet]
  BY RewrittenIs
<1>3. \A n \in with, u \in TableSet : G[<<n, u>>] = Rewritten(u, n, old, new)
  OBVIOUS
<1> HIDE DEF G
<1>4. PICK it \in [SUBSET with -> TableSet] : IsFold(it, t, G, with)
  BY <1>1, <1>2, FoldExists
<1>5. \A x \in SUBSET with : x # {} => Pick(x) \in x /\ Pick(x) \in with /\ x \ {Pick(x)} \in SUBSET with
  BY PickIn
<1>6. Runs(it)
  BY <1>3, <1>4, <1>5 DEF IsFold
<1>7. \E j : Runs(j)
  BY <1>6
<1>8. PICK j : Runs(j) /\ FoldSet(LAMBDA n, u : Rewritten(u, n, old, new), t, with) = j[with]
  BY <1>7 DEF FoldSet, MapThenFoldSet, Pick
<1> DEFINE Q == {x \in SUBSET with : Good(j[x], x)}
<1>9. {} \in Q
  <2>1. RewrittenFor(t, t, {}, old, new)
    BY DEF RewrittenFor
  <2> QED BY <1>8, <2>1
<1>10. ASSUME NEW x \in SUBSET with, x # {}, x \ {Pick(x)} \in Q PROVE x \in Q
  <2>1. PICK n \in with : n = Pick(x) /\ n \in x
    BY <1>5, <1>10
  <2> PICK D \in SUBSET with : D = x \ {n}
    BY <1>10
  <2> PICK u : u = j[D]
    OBVIOUS
  <2>2. j[x] = Rewritten(u, n, old, new) /\ Good(u, D)
    BY <1>8, <1>10, <2>1
  <2> PICK w : w = Rewritten(u, n, old, new)
    OBVIOUS
  <2>3. /\ w \in TableSet /\ w.image = u.image /\ w.queued = u.queued
        /\ RewrittenFor(u, w, {n}, old, new)
    BY <2>2, RewrittenIs
  <2>4. RewrittenFor(t, w, D \cup {n}, old, new)
    <3>1. n \in Picture \ D /\ D \in SUBSET Picture
      OBVIOUS
    <3> QED BY <2>2, <2>3, <3>1, RewrittenOn
  <2>5. D \cup {n} = x
    BY <2>1
  <2>6. Good(j[x], x)
    BY <2>2, <2>3, <2>4, <2>5
  <2> QED BY <2>6
<1>11. Q = SUBSET with
  <2>1. Q \in SUBSET (SUBSET with)
    OBVIOUS
  <2> HIDE DEF Q
  <2> QED BY <2>1, <1>1, <1>9, <1>10, FoldInduction
<1> QED BY <1>8, <1>11

(* An image nobody refers to is counted for its owner before it moves.      *)
LEMMA AnchoredIs ==
  ASSUME NEW t \in TableSet, NEW i \in Ids
  PROVE  \E v \in TableSet :
           /\ v = Anchored(t, i) /\ v.note = t.note /\ v.image = t.image /\ v.remaps = t.remaps
           /\ v.queued = t.queued /\ t.refs \subseteq v.refs
           /\ \A j \in Ids, n \in Picture :
                <<j, n>> \in v.refs => <<j, n>> \in t.refs \/ (j = i /\ n = t.image[i].owner)
<1>1. t.image[i].owner \in Picture \cup {Unowned} /\ t.refs \in SUBSET (Ids \X Picture)
  BY DEF TableSet, ImageRec
<1>2. CASE Referrers(t, i) = {} /\ t.image[i].owner # Unowned
  <2> PICK o \in Picture : o = t.image[i].owner
    BY <1>1, <1>2
  <2>1. <<i, o>> \in Ids \X Picture
    OBVIOUS
  <2> PICK rf \in SUBSET (Ids \X Picture) : rf = t.refs \cup {<<i, o>>}
    BY <1>1, <2>1
  <2> PICK v : v = [t EXCEPT !.refs = rf]
    OBVIOUS
  <2>2. Anchored(t, i) = v
    BY <1>2 DEF Anchored
  <2>3. /\ v \in TableSet /\ v.note = t.note /\ v.image = t.image /\ v.remaps = t.remaps
        /\ v.queued = t.queued /\ v.refs = rf
    BY DEF TableSet
  <2>4. \A j \in Ids, n \in Picture : <<j, n>> \in rf => <<j, n>> \in t.refs \/ (j = i /\ n = o)
    OBVIOUS
  <2> QED BY <2>2, <2>3, <2>4
<1>3. CASE ~(Referrers(t, i) = {} /\ t.image[i].owner # Unowned)
  <2>1. Anchored(t, i) = t
    BY <1>3 DEF Anchored
  <2> QED BY <2>1
<1> QED BY <1>2, <1>3

(* The image itself goes to the other space: its item there is new, the old *)
(* one is to be deleted.                                                    *)
TakenTo(t, v, i, o, space) ==
  /\ v.note = t.note /\ v.refs = t.refs /\ v.remaps = t.remaps
  /\ v.queued = t.queued \cup ({t.image[i].item} \ {0})
  /\ \A j \in Ids : j # i => v.image[j] = t.image[j]
  /\ v.image[i].there = t.image[i].there /\ v.image[i].made = t.image[i].made
  /\ v.image[i].space = space /\ v.image[i].item = 0 /\ v.image[i].owner = o

(* TakenAlong does that.                                                    *)
LEMMA TakenAlongIs ==
  ASSUME NEW t \in TableSet, NEW i \in Ids, NEW with \in SUBSET Picture, with # {}, NEW space \in Space
  PROVE  \E o \in with : TakenAlong(t, i, with, space) \in TableSet
                         /\ TakenTo(t, TakenAlong(t, i, with, space), i, o, space)
<1> PICK o \in with : o = Pick(with)
  BY PickIn
<1>1. /\ t.image \in [Ids -> ImageRec] /\ t.image[i] \in ImageRec /\ t.queued \in SUBSET Nat
      /\ t.image[i].item \in Nat
  BY DEF TableSet, ImageRec
<1> PICK g : g = [t.image[i] EXCEPT !.space = space, !.item = 0, !.dirty = TRUE, !.owner = o]
  OBVIOUS
<1>2. /\ g \in ImageRec /\ g.there = t.image[i].there /\ g.made = t.image[i].made /\ g.space = space
      /\ g.item = 0 /\ g.owner = o
  BY <1>1 DEF ImageRec
<1> PICK img \in [Ids -> ImageRec] : img = [t.image EXCEPT ![i] = g]
  BY <1>1, <1>2
<1>3. img[i] = g /\ \A j \in Ids : j # i => img[j] = t.image[j]
  BY <1>1
<1> PICK qu \in SUBSET Nat : qu = t.queued \cup ({t.image[i].item} \ {0})
  BY <1>1
<1>4. qu = IF t.image[i].item = 0 THEN t.queued ELSE t.queued \cup {t.image[i].item}
  OBVIOUS
<1> PICK v : v = [t EXCEPT !.queued = qu, !.image = img]
  OBVIOUS
<1>5. /\ v \in TableSet /\ v.note = t.note /\ v.refs = t.refs /\ v.remaps = t.remaps /\ v.queued = qu
      /\ v.image = img
  BY DEF TableSet
<1>6. TakenAlong(t, i, with, space) = v
  <2>1. o = CHOOSE n \in with : TRUE
    BY DEF Pick
  <2> QED BY <1>4, <2>1 DEF TakenAlong, TableSet
<1>7. TakenTo(t, v, i, o, space)
  BY <1>2, <1>3, <1>5 DEF TakenTo
<1> QED BY <1>5, <1>6, <1>7

(* The images of a space.                                                   *)
LEMMA InSpaceAre ==
  ASSUME NEW t \in TableSet, NEW space
  PROVE  /\ InSpace(t, space) \in SUBSET Ids
         /\ \A i \in InSpace(t, space) : t.image[i].there /\ t.image[i].space = space
         /\ InSpace(t, space) # {} => Pick(InSpace(t, space)) \in InSpace(t, space)
BY PickIn DEF InSpace, Stored

(* The copy is an image of the other space or a new one, and the image is    *)
(* left to a note that stays.                                                *)
CopyOf(t, v, i, new, with, space, fresh) ==
  /\ v.queued = t.queued /\ RewrittenFor(t, v, with, i, new)
  /\ \A j \in Ids : j \notin {i, new} => v.image[j] = t.image[j]
  /\ v.image[i].there = t.image[i].there /\ v.image[i].made = t.image[i].made
  /\ v.image[i].space = t.image[i].space /\ v.image[i].item = t.image[i].item
  /\ v.image[i].owner = t.image[i].owner \/ v.image[i].owner \in Referrers(t, i) \ with
  /\ v.image[new].there /\ v.image[new].space = space
  /\ \/ v.image[new] = t.image[new]
     \/ new = fresh /\ v.image[new].made /\ v.image[new].item = 0 /\ v.image[new].owner \in with

(* Copied does that.                                                        *)
LEMMA CopiedIs ==
  ASSUME NEW t \in TableSet, NEW i \in Ids, NEW with \in SUBSET Picture, with # {}, Referrers(t, i) \ with # {},
         NEW space \in Space, t.image[i].space # space, NEW fresh \in Ids, fresh # i
  PROVE  \E v \in TableSet, new \in Ids :
           v = Copied(t, i, with, space, fresh) /\ new # i /\ CopyOf(t, v, i, new, with, space, fresh)
<1> DEFINE found == InSpace(t, space)
           new == IF found # {} THEN CHOOSE j \in found : TRUE ELSE fresh
           made == IF found # {} THEN t
                   ELSE [t EXCEPT !.image[new] = [Gone EXCEPT !.there = TRUE, !.dirty = TRUE,
                           !.space = space, !.owner = CHOOSE n \in with : TRUE]]
           stay == Referrers(t, i) \ with
           named == FoldSet(LAMBDA n, u : Rewritten(u, n, i, new), made, with)
<1>15. Copied(t, i, with, space, fresh) =
         [named EXCEPT !.image[i] =
            IF t.image[i].owner \in with \cup {Unowned}
            THEN [@ EXCEPT !.owner = CHOOSE n \in stay : TRUE, !.dirty = TRUE] ELSE @]
  BY DEF Copied
<1>1. /\ t.image \in [Ids -> ImageRec] /\ t.image[i] \in ImageRec
  BY DEF TableSet
<1>2. /\ new \in Ids /\ new # i
      /\ found # {} => t.image[new].there /\ t.image[new].space = space
      /\ found = {} => new = fresh
  BY InSpaceAre DEF Pick
<1> HIDE DEF new
<1> PICK o \in with : o = CHOOSE n \in with : TRUE
  BY PickIn DEF Pick
<1> PICK r \in Referrers(t, i) \ with : r = CHOOSE n \in stay : TRUE
  BY PickIn DEF Pick
<1>3. r \in Picture /\ o \in Picture
  BY ReferrersAre
<1> PICK g \in ImageRec : g = [Gone EXCEPT !.there = TRUE, !.dirty = TRUE, !.space = space, !.owner = o]
  BY <1>3 DEF Gone, NoImage, ImageRec
<1>4. g.there /\ g.made /\ g.space = space /\ g.owner = o /\ g.item = 0
  BY DEF Gone, NoImage
<1> PICK img \in [Ids -> ImageRec] : img = IF found # {} THEN t.image ELSE [t.image EXCEPT ![new] = g]
  BY <1>1, <1>2
<1>5. /\ \A j \in Ids : j # new => img[j] = t.image[j]
      /\ img[new] = t.image[new] \/ (new = fresh /\ img[new] = g)
      /\ img[new].there /\ img[new].space = space
  BY <1>1, <1>2, <1>4
<1>7. made = [t EXCEPT !.image = img]
  <2>1. CASE found # {}
    BY <2>1 DEF TableSet
  <2>2. CASE found = {}
    BY <2>2 DEF TableSet
  <2> QED BY <2>1, <2>2
<1> HIDE DEF made
<1>6. /\ made \in TableSet /\ made.note = t.note /\ made.refs = t.refs /\ made.remaps = t.remaps
      /\ made.queued = t.queued /\ made.image = img
  BY <1>7 DEF TableSet
<1>8. \E v \in TableSet :
        /\ v = FoldSet(LAMBDA n, u : Rewritten(u, n, i, new), made, with)
        /\ v.image = made.image /\ v.queued = made.queued /\ RewrittenFor(made, v, with, i, new)
  BY <1>2, <1>6, RewrittenAll
<1>9. /\ named \in TableSet /\ named.image = made.image /\ named.queued = made.queued
      /\ RewrittenFor(made, named, with, i, new)
  BY ONLY <1>8
<1> HIDE DEF named, found
<1>10. /\ named \in TableSet /\ named.image = img /\ named.queued = t.queued
       /\ RewrittenFor(t, named, with, i, new)
  BY <1>6, <1>9 DEF RewrittenFor
<1> PICK h : h = IF t.image[i].owner \in with \cup {Unowned}
                 THEN [img[i] EXCEPT !.owner = r, !.dirty = TRUE] ELSE img[i]
  OBVIOUS
<1>11. /\ h \in ImageRec /\ h.there = t.image[i].there /\ h.made = t.image[i].made
       /\ h.space = t.image[i].space /\ h.item = t.image[i].item
       /\ h.owner = t.image[i].owner \/ h.owner = r
  <2>1. img[i] = t.image[i] /\ img[i] \in ImageRec
    BY <1>2, <1>5
  <2>2. CASE h = img[i]
    BY ONLY <2>1, <2>2
  <2>3. CASE h = [img[i] EXCEPT !.owner = r, !.dirty = TRUE]
    BY ONLY <1>3, <2>1, <2>3 DEF ImageRec
  <2> QED BY <2>2, <2>3
<1> PICK jmg \in [Ids -> ImageRec] : jmg = [img EXCEPT ![i] = h]
  BY <1>11
<1>12. jmg[i] = h /\ \A j \in Ids : j # i => jmg[j] = img[j]
  OBVIOUS
<1> PICK v : v = [named EXCEPT !.image = jmg]
  OBVIOUS
<1>13. /\ v \in TableSet /\ v.note = named.note /\ v.refs = named.refs /\ v.remaps = named.remaps
       /\ v.queued = t.queued /\ v.image = jmg
  BY <1>10 DEF TableSet
<1>14. Copied(t, i, with, space, fresh) = v
  <2>1. [named EXCEPT !.image[i] =
           IF t.image[i].owner \in with \cup {Unowned}
           THEN [@ EXCEPT !.owner = r, !.dirty = TRUE] ELSE @] = [named EXCEPT !.image = [img EXCEPT ![i] = h]]
    <3>1. named \in TableSet /\ named.image = img
      BY <1>10
    <3> QED BY <3>1 DEF TableSet
  <2> QED BY <1>15, <2>1
<1>16. RewrittenFor(t, v, with, i, new)
  <2>1. RewrittenFor(t, named, with, i, new)
    BY <1>10
  <2>2. v.note = named.note /\ v.refs = named.refs /\ v.remaps = named.remaps
    BY <1>13
  <2> QED BY ONLY <2>1, <2>2 DEF RewrittenFor
<1>17. CopyOf(t, v, i, new, with, space, fresh)
  <2>1. \A j \in Ids : j \notin {i, new} => v.image[j] = t.image[j]
    BY ONLY <1>5, <1>12, <1>13
  <2>2. v.image[i] = h /\ v.image[new] = img[new]
    BY ONLY <1>2, <1>12, <1>13
  <2>3. \/ v.image[new] = t.image[new]
        \/ new = fresh /\ v.image[new].made /\ v.image[new].item = 0 /\ v.image[new].owner \in with
    <3>1. o \in with
      OBVIOUS
    <3> QED BY ONLY <1>4, <1>5, <2>2, <3>1
  <2>4. r \in Referrers(t, i) \ with
    OBVIOUS
  <2>5. /\ v.image[i].there = t.image[i].there /\ v.image[i].made = t.image[i].made
        /\ v.image[i].space = t.image[i].space /\ v.image[i].item = t.image[i].item
        /\ v.image[i].owner = t.image[i].owner \/ v.image[i].owner \in Referrers(t, i) \ with
    BY ONLY <1>11, <2>2, <2>4
  <2>6. v.image[new].there /\ v.image[new].space = space /\ v.queued = t.queued
    BY ONLY <1>5, <1>13, <2>2
  <2> QED BY ONLY <1>16, <2>1, <2>3, <2>5, <2>6 DEF CopyOf
<1> QED BY <1>2, <1>13, <1>14, <1>17

-----------------------------------------------------------------------------
(* Notes that go to another space, the images in `done` dealt with: from t,  *)
(* in which only the notes went, to u.                                       *)

(* An image is where the notes go; one is still to be dealt with.           *)
Arrived(u, i, space) == u.image[i].there /\ u.image[i].space = space
Waits(t, n, i, done) == i \notin done /\ <<i, n>> \in t.refs

(* An image stays or goes along, and one that goes along has its old item   *)
(* queued.                                                                  *)
ImagesGo(t, u, space) ==
  \A i \in Ids :
    /\ t.image[i].there => u.image[i].there /\ u.image[i].space \in {t.image[i].space, space}
    /\ \/ u.image[i].item = 0
       \/ u.image[i].item = t.image[i].item /\ (u.image[i].there => t.image[i].there)
ItemsGo(t, u) ==
  \A x \in u.queued :
    x \in t.queued \/ \E i \in Ids : x = t.image[i].item /\ x # 0 /\ u.image[i].item = 0
(* The notes that stay keep everything.                                     *)
OthersKeep(t, u, moving) ==
  \A n \in Picture \ moving :
    /\ u.note[n] = t.note[n]
    /\ \A i \in Ids : <<i, n>> \in t.refs => <<i, n>> \in u.refs /\ u.image[i].space = t.image[i].space
    /\ \A o \in Ids, i \in Ids : <<n, o, i>> \in u.remaps <=> <<n, o, i>> \in t.remaps
(* A note that goes: every image it names or names by a redirect has        *)
(* arrived, waits, or was set aside.                                        *)
MoverGoes(t, u, done, n, space, gone) ==
  /\ u.note[n].there = t.note[n].there /\ u.note[n].space = t.note[n].space /\ u.note[n].open = t.note[n].open
  /\ \A i \in Ids \ done : <<i, n>> \in t.refs => <<i, n>> \in u.refs
  /\ \A i \in Counted(u, n) : /\ i \in gone \/ <<i, n>> \in u.refs
                              /\ i \in gone \/ Waits(t, n, i, done) \/ Arrived(u, i, space)
  /\ \A i \in Counted(t, n) :
       i \in gone \/ Waits(t, n, i, done) \/ Arrived(u, i, space) \/ Redirected(u, n, i)
  /\ \A o \in Ids, i \in Ids : <<n, o, i>> \in u.remaps =>
       \/ Arrived(u, i, space)
       \/ <<n, o, i>> \in t.remaps /\ (i \notin Counted(t, n) \/ i \in gone \/ Waits(t, n, i, done))
  /\ \A o \in Ids : Redirected(t, n, o) => Redirected(u, n, o)

(* What the loop of rehome_assets_for_notes keeps.                          *)
MovedSoFar(t, u, done, moving, space, gone) ==
  /\ u \in TableSet /\ RowsThere(u) /\ ImagesGo(t, u, space) /\ ItemsGo(t, u) /\ OthersKeep(t, u, moving)
  /\ \A n \in moving : MoverGoes(t, u, done, n, space, gone)

(* An image is dealt with once it is where the notes go, or none of them     *)
(* named it.                                                                 *)
LEMMA NowMoved ==
  ASSUME NEW t \in TableSet, NEW u, NEW done, NEW moving \in SUBSET Picture, NEW space, NEW gone,
         MovedSoFar(t, u, done, moving, space, gone), NEW i \in Ids,
         \A n \in moving : <<i, n>> \in t.refs /\ i \notin done => Arrived(u, i, space)
  PROVE  MovedSoFar(t, u, done \cup {i}, moving, space, gone)
<1> SUFFICES ASSUME NEW n \in moving PROVE MoverGoes(t, u, done \cup {i}, n, space, gone)
  BY DEF MovedSoFar
<1>1. MoverGoes(t, u, done, n, space, gone)
  BY DEF MovedSoFar
<1>2. \A j : Waits(t, n, j, done) => Waits(t, n, j, done \cup {i}) \/ Arrived(u, j, space)
  BY DEF Waits
<1>3. \A j : j \in Ids \ (done \cup {i}) => j \in Ids \ done
  OBVIOUS
<1> HIDE DEF Waits, Arrived
<1> QED BY <1>1, <1>2, <1>3 DEF MoverGoes

(* More references, to images and notes that are there.                      *)
LEMMA AnchorKeeps ==
  ASSUME NEW t \in TableSet, NEW u, NEW done, NEW moving \in SUBSET Picture, NEW space, NEW gone,
         MovedSoFar(t, u, done, moving, space, gone), NEW i \in Ids, u.image[i].there
  PROVE  MovedSoFar(t, Anchored(u, i), done, moving, space, gone)
<1>1. u \in TableSet /\ RowsThere(u)
  BY DEF MovedSoFar
<1> PICK v \in TableSet :
           /\ v = Anchored(u, i) /\ v.note = u.note /\ v.image = u.image /\ v.remaps = u.remaps
           /\ v.queued = u.queued /\ u.refs \subseteq v.refs
           /\ \A j \in Ids, n \in Picture :
                <<j, n>> \in v.refs => <<j, n>> \in u.refs \/ (j = i /\ n = u.image[i].owner)
  BY <1>1, AnchoredIs
<1>2. \A n \in Picture : Counted(v, n) = Counted(u, n)
  BY DEF Counted
<1>3. RowsThere(v)
  <2>1. \A j \in Ids, n \in Picture : <<j, n>> \in v.refs => v.image[j].there /\ v.note[n].there
    <3> SUFFICES ASSUME NEW j \in Ids, NEW n \in Picture, <<j, n>> \in v.refs
                 PROVE  v.image[j].there /\ v.note[n].there
      OBVIOUS
    <3>1. CASE <<j, n>> \in u.refs
      BY <1>1, <3>1 DEF RowsThere
    <3>2. CASE j = i /\ n = u.image[i].owner
      <4>1. n # Unowned
        BY ImagesAssumption DEF Unowned
      <4> QED BY <1>1, <3>2, <4>1 DEF RowsThere
    <3> QED BY <3>1, <3>2
  <2> QED BY <1>1, <1>2, <2>1 DEF RowsThere
<1>4. ImagesGo(t, v, space) /\ ItemsGo(t, v) /\ OthersKeep(t, v, moving)
  <2>1. ImagesGo(t, u, space) /\ ItemsGo(t, u) /\ OthersKeep(t, u, moving)
    BY DEF MovedSoFar
  <2> QED BY <2>1 DEF ImagesGo, ItemsGo, OthersKeep
<1>5. ASSUME NEW n \in moving PROVE MoverGoes(t, v, done, n, space, gone)
  <2>1. MoverGoes(t, u, done, n, space, gone)
    BY DEF MovedSoFar
  <2>2. \A j : Redirected(v, n, j) <=> Redirected(u, n, j)
    BY DEF Redirected
  <2>3. \A j : Arrived(v, j, space) <=> Arrived(u, j, space)
    BY DEF Arrived
  <2> QED BY <1>2, <2>1, <2>2, <2>3 DEF MoverGoes
<1> QED BY <1>3, <1>4, <1>5 DEF MovedSoFar

(* An image that goes along.                                                *)
LEMMA TakenAlongKeeps ==
  ASSUME NEW t \in TableSet, NEW u, NEW done, NEW moving \in SUBSET Picture, NEW space \in Space, NEW gone,
         MovedSoFar(t, u, done, moving, space, gone), NEW i \in Ids, t.image[i].there,
         NEW with \in SUBSET Picture, with # {}, with \subseteq Referrers(u, i), Referrers(u, i) \subseteq moving
  PROVE  MovedSoFar(t, TakenAlong(u, i, with, space), done \cup {i}, moving, space, gone)
<1>1. /\ u \in TableSet /\ RowsThere(u) /\ ImagesGo(t, u, space) /\ ItemsGo(t, u) /\ OthersKeep(t, u, moving)
  BY DEF MovedSoFar
<1> PICK v : v = TakenAlong(u, i, with, space)
  OBVIOUS
<1>12. PICK o \in with : v \in TableSet /\ TakenTo(u, v, i, o, space)
  BY <1>1, TakenAlongIs
<1>13. /\ v \in TableSet /\ v.note = u.note /\ v.refs = u.refs /\ v.remaps = u.remaps
       /\ v.queued = u.queued \cup ({u.image[i].item} \ {0})
       /\ \A j \in Ids : j # i => v.image[j] = u.image[j]
       /\ v.image[i].there = u.image[i].there /\ v.image[i].made = u.image[i].made
       /\ v.image[i].space = space /\ v.image[i].item = 0 /\ v.image[i].owner = o
  BY <1>12 DEF TakenTo
<1>2. \A n \in Picture : Counted(v, n) = Counted(u, n)
  BY <1>13 DEF Counted
<1>3. u.image[i].there /\ \A j \in Ids : v.image[j].there = u.image[j].there /\ v.image[j].made = u.image[j].made
  BY <1>13, <1>1 DEF ImagesGo
<1>4. o \in Picture /\ <<i, o>> \in u.refs /\ u.note[o].there
  <2>1. o \in Picture /\ <<i, o>> \in u.refs
    BY <1>1, ReferrersAre
  <2> QED BY <1>1, <2>1 DEF RowsThere
<1>5. RowsThere(v)
  <2>1. \A j \in Ids : v.image[j].owner = Unowned \/ v.note[v.image[j].owner].there
    BY <1>13, <1>1, <1>4 DEF RowsThere
  <2> QED BY <1>13, <1>1, <1>2, <1>3, <2>1 DEF RowsThere
<1>6. ImagesGo(t, v, space)
  BY <1>13, <1>1, <1>3 DEF ImagesGo
<1>7. ItemsGo(t, v)
  <2> SUFFICES ASSUME NEW x \in v.queued, x \notin t.queued
               PROVE  \E j \in Ids : x = t.image[j].item /\ x # 0 /\ v.image[j].item = 0
    BY DEF ItemsGo
  <2>1. CASE x \in u.queued
    <3>1. PICK j \in Ids : x = t.image[j].item /\ x # 0 /\ u.image[j].item = 0
      BY <1>1, <2>1 DEF ItemsGo
    <3> QED BY <1>13, <3>1
  <2>2. CASE x = u.image[i].item /\ x # 0
    <3>1. x = t.image[i].item
      BY <1>1, <2>2 DEF ImagesGo
    <3> QED BY <1>13, <2>2, <3>1
  <2> QED BY <1>13, <2>1, <2>2
<1>8. OthersKeep(t, v, moving)
  <2> SUFFICES ASSUME NEW n \in Picture \ moving, NEW j \in Ids, <<j, n>> \in t.refs
               PROVE  v.image[j].space = t.image[j].space
    BY <1>1, <1>13 DEF OthersKeep
  <2>1. <<j, n>> \in u.refs /\ u.image[j].space = t.image[j].space
    BY <1>1 DEF OthersKeep
  <2>2. j # i
    BY <1>1, <2>1, ReferrersAre
  <2> QED BY <1>13, <2>1, <2>2
<1>9. Arrived(v, i, space) /\ \A j \in Ids : Arrived(u, j, space) => Arrived(v, j, space)
  BY <1>13, <1>3 DEF Arrived
<1>10. ASSUME NEW n \in moving PROVE MoverGoes(t, v, done, n, space, gone)
  <2>1. MoverGoes(t, u, done, n, space, gone)
    BY DEF MovedSoFar
  <2>2. \A j : Redirected(v, n, j) <=> Redirected(u, n, j)
    BY <1>13 DEF Redirected
  <2>3. Counted(t, n) \in SUBSET Ids /\ Counted(u, n) \in SUBSET Ids
    BY <1>1 DEF TableSet, NoteRec, Counted
  <2> QED BY <1>13, <1>2, <1>9, <2>1, <2>2, <2>3 DEF MoverGoes
<1>11. MovedSoFar(t, v, done, moving, space, gone)
  BY <1>13, <1>5, <1>6, <1>7, <1>8, <1>10 DEF MovedSoFar
<1> QED BY <1>9, <1>11, NowMoved

(* An image of which the notes that go get a copy.                          *)
LEMMA CopiedKeeps ==
  ASSUME NEW t \in TableSet, RowsThere(t), NEW u, NEW done, NEW moving \in SUBSET Picture, NEW space \in Space,
         NEW gone, MovedSoFar(t, u, done, moving, space, gone), NEW i \in Ids, t.image[i].there,
         u.image[i].space # space, NEW fresh \in Ids, ~t.image[fresh].there,
         NEW with \in SUBSET Picture, with # {}, with = Referrers(u, i) \cap moving, ~(Referrers(u, i) \subseteq moving)
  PROVE  MovedSoFar(t, Copied(u, i, with, space, fresh), done \cup {i}, moving, space, gone)
<1>1. /\ u \in TableSet /\ RowsThere(u) /\ ImagesGo(t, u, space) /\ ItemsGo(t, u) /\ OthersKeep(t, u, moving)
  BY DEF MovedSoFar
<1>2. /\ Referrers(u, i) \in SUBSET Picture /\ Referrers(u, i) \ with # {} /\ fresh # i
      /\ \A n \in Picture : n \in Referrers(u, i) <=> <<i, n>> \in u.refs
  BY <1>1, ReferrersAre
<1>3. \E w \in TableSet, new \in Ids :
        w = Copied(u, i, with, space, fresh) /\ new # i /\ CopyOf(u, w, i, new, with, space, fresh)
  BY <1>1, <1>2, CopiedIs
<1> PICK v \in TableSet, new \in Ids :
      v = Copied(u, i, with, space, fresh) /\ new # i /\ CopyOf(u, v, i, new, with, space, fresh)
  BY <1>3
<1>4. /\ v.queued = u.queued
      /\ \A j \in Ids : j \notin {i, new} => v.image[j] = u.image[j]
      /\ v.image[i].there = u.image[i].there /\ v.image[i].made = u.image[i].made
      /\ v.image[i].space = u.image[i].space /\ v.image[i].item = u.image[i].item
      /\ v.image[i].owner = u.image[i].owner \/ v.image[i].owner \in Referrers(u, i) \ with
      /\ v.image[new].there /\ v.image[new].space = space
      /\ \/ v.image[new] = u.image[new]
         \/ new = fresh /\ v.image[new].made /\ v.image[new].item = 0 /\ v.image[new].owner \in with
  BY DEF CopyOf
<1>5. /\ \A n \in Picture :
            /\ v.note[n].there = u.note[n].there /\ v.note[n].space = u.note[n].space
            /\ v.note[n].open = u.note[n].open
            /\ n \in with => /\ v.note[n].body = Renamed(u.note[n].body, i, new)
                             /\ v.note[n].past = Renamed(u.note[n].past, i, new)
            /\ n \notin with => v.note[n] = u.note[n]
      /\ \A n \in Picture, j \in Ids : <<j, n>> \in v.refs <=>
            \/ n \in with /\ j = new
            \/ (n \in with => j # i) /\ <<j, n>> \in u.refs
      /\ \A n \in Picture, o \in Ids, j \in Ids : <<n, o, j>> \in v.remaps <=>
            \/ n \notin with /\ <<n, o, j>> \in u.remaps
            \/ n \in with /\ o = i /\ j = new
            \/ n \in with /\ o # i /\ j # i /\ <<n, o, j>> \in u.remaps
            \/ n \in with /\ o # i /\ j = new /\ <<n, o, i>> \in u.remaps
  BY DEF CopyOf, RewrittenFor
<1>17. ASSUME NEW n \in Picture
       PROVE  v.note[n].there = u.note[n].there /\ (n \notin with => v.note[n] = u.note[n])
  BY <1>5
<1>18. ASSUME NEW n \in Picture, NEW o \in Ids, NEW j \in Ids, <<n, o, j>> \in v.remaps
       PROVE  \/ n \notin with /\ <<n, o, j>> \in u.remaps
              \/ n \in with /\ o = i /\ j = new
              \/ n \in with /\ o # i /\ j # i /\ <<n, o, j>> \in u.remaps
              \/ n \in with /\ o # i /\ j = new /\ <<n, o, i>> \in u.remaps
  <2>1. RewrittenFor(u, v, with, i, new)
    BY DEF CopyOf
  <2>2. <<n, o, j>> \in v.remaps <=>
          \/ n \notin with /\ <<n, o, j>> \in u.remaps
          \/ n \in with /\ o = i /\ j = new
          \/ n \in with /\ o # i /\ j # i /\ <<n, o, j>> \in u.remaps
          \/ n \in with /\ o # i /\ j = new /\ <<n, o, i>> \in u.remaps
    BY ONLY <2>1, n \in Picture, o \in Ids, j \in Ids DEF RewrittenFor
  <2> QED BY ONLY <1>18, <2>2
<1>6. u.image[i].there /\ \A j \in Ids : u.image[j].there => v.image[j].there
  BY <1>1, <1>4 DEF ImagesGo
<1>7. \A n \in with : n \in Picture /\ n \in moving /\ u.note[n].there /\ <<i, n>> \in u.refs
  BY <1>1, <1>2 DEF RowsThere
<1>8. \A n \in Picture : /\ Counted(u, n) \in SUBSET Ids /\ Counted(t, n) \in SUBSET Ids
                         /\ n \notin with => Counted(v, n) = Counted(u, n)
                         /\ n \in with => \A j \in Counted(v, n) : j = new \/ (j \in Counted(u, n) /\ j # i)
  <2>1. \A n \in Picture : u.note[n].body \in SUBSET Ids /\ u.note[n].past \in SUBSET Ids
    BY <1>1 DEF TableSet, NoteRec
  <2>2. \A n \in Picture : Counted(u, n) \in SUBSET Ids /\ Counted(t, n) \in SUBSET Ids
    BY <1>1 DEF TableSet, NoteRec, Counted
  <2>3. ASSUME NEW n \in Picture, n \in with
        PROVE  \A j \in Counted(v, n) : j = new \/ (j \in Counted(u, n) /\ j # i)
    <3> PICK b \in SUBSET Ids, p \in SUBSET Ids : b = u.note[n].body /\ p = u.note[n].past
      BY <2>1
    <3>3. v.note[n].body = Renamed(b, i, new) /\ v.note[n].past = Renamed(p, i, new)
      BY <1>5, <2>3
    <3>4. /\ \A j \in Renamed(b, i, new) : j = new \/ (j \in b /\ j # i)
          /\ \A j \in Renamed(p, i, new) : j = new \/ (j \in p /\ j # i)
      BY RenamedIs
    <3>1. \A j \in v.note[n].body : j = new \/ (j \in u.note[n].body /\ j # i)
      BY <3>3, <3>4
    <3>2. \A j \in v.note[n].past : j = new \/ (j \in u.note[n].past /\ j # i)
      BY <3>3, <3>4
    <3> QED BY <3>1, <3>2 DEF Counted
  <2>4. \A n \in Picture : n \notin with => Counted(v, n) = Counted(u, n)
    BY <1>5 DEF Counted
  <2> QED BY <2>2, <2>3, <2>4
<1>9. RowsThere(v)
  <2>1. ASSUME NEW j \in Ids, NEW n \in Picture, <<j, n>> \in v.refs PROVE v.image[j].there /\ v.note[n].there
    <3>1. CASE n \in with /\ j = new
      BY <1>4, <1>5, <1>7, <3>1
    <3>2. CASE <<j, n>> \in u.refs
      <4>1. u.image[j].there /\ u.note[n].there
        BY <1>1, <3>2 DEF RowsThere
      <4> QED BY <1>5, <1>6, <4>1
    <3> QED BY <1>5, <2>1, <3>1, <3>2
  <2>2. ASSUME NEW n \in Picture, NEW o \in Ids, NEW j \in Ids, <<n, o, j>> \in v.remaps
        PROVE  v.image[j].there /\ v.note[n].there
    <3>1. CASE n \in with /\ j = new
      BY <1>4, <1>5, <1>7, <3>1
    <3>2. CASE <<n, o, j>> \in u.remaps
      <4>1. u.image[j].there /\ u.note[n].there
        BY <1>1, <3>2 DEF RowsThere
      <4> QED BY <1>5, <1>6, <4>1
    <3>3. \/ n \notin with /\ <<n, o, j>> \in u.remaps
          \/ n \in with /\ o = i /\ j = new
          \/ n \in with /\ o # i /\ j # i /\ <<n, o, j>> \in u.remaps
          \/ n \in with /\ o # i /\ j = new /\ <<n, o, i>> \in u.remaps
      BY <1>18, <2>2
    <3> QED BY <3>1, <3>2, <3>3
  <2>3. ASSUME NEW n \in Picture, ~v.note[n].there PROVE Counted(v, n) = {} /\ v.note[n].open = Closed
    <3>1. ~u.note[n].there /\ n \notin with /\ v.note[n] = u.note[n] /\ Counted(v, n) = Counted(u, n)
      <4>1. ~u.note[n].there
        BY <1>17, <2>3
      <4>2. n \notin with
        BY <1>7, <4>1
      <4> QED BY <1>8, <1>17, <4>1, <4>2
    <3>2. Counted(u, n) = {} /\ u.note[n].open = Closed
      BY <1>1, <3>1 DEF RowsThere
    <3> QED BY <3>1, <3>2
  <2>4. ASSUME NEW j \in Ids, v.image[j].there PROVE v.image[j].made
    <3>1. \A k \in Ids : u.image[k].there => u.image[k].made
      BY <1>1 DEF RowsThere
    <3>2. CASE j \notin {i, new}
      BY <1>4, <2>4, <3>1, <3>2
    <3>3. CASE j = i
      BY <1>4, <2>4, <3>1, <3>3
    <3>4. CASE j = new
      BY <1>4, <2>4, <3>1, <3>4
    <3> QED BY <3>2, <3>3, <3>4
  <2>5. \A j \in Ids : v.image[j].owner = Unowned \/ v.note[v.image[j].owner].there
    <3> SUFFICES ASSUME NEW j \in Ids PROVE v.image[j].owner = Unowned \/ v.note[v.image[j].owner].there
      OBVIOUS
    <3>1. v.image[j].owner \in Picture \cup {Unowned}
      BY DEF TableSet, ImageRec
    <3>2. \A n \in Referrers(u, i) : u.note[n].there
      BY <1>1, <1>2 DEF RowsThere
    <3>3. v.image[j].owner = u.image[j].owner \/ v.image[j].owner \in Referrers(u, i) \cup with
      <4>1. CASE j \notin {i, new}
        BY <1>4, <4>1
      <4>2. CASE j = i
        BY <1>4, <4>2
      <4>3. CASE j = new
        BY <1>4, <4>3
      <4> QED BY <4>1, <4>2, <4>3
    <3>4. CASE v.image[j].owner = u.image[j].owner
      <4>1. u.image[j].owner = Unowned \/ u.note[u.image[j].owner].there
        BY <1>1 DEF RowsThere
      <4> QED BY <1>17, <3>1, <3>4, <4>1
    <3>5. CASE v.image[j].owner \in Referrers(u, i) \cup with
      <4> PICK n \in Picture : n = v.image[j].owner /\ u.note[n].there
        BY <1>2, <1>7, <3>2, <3>5
      <4> QED BY <1>17
    <3> QED BY <3>3, <3>4, <3>5
  <2> QED BY <2>1, <2>2, <2>3, <2>4, <2>5 DEF RowsThere
<1>10. ImagesGo(t, v, space)
  <2> SUFFICES ASSUME NEW j \in Ids
               PROVE  /\ t.image[j].there => v.image[j].there /\ v.image[j].space \in {t.image[j].space, space}
                      /\ \/ v.image[j].item = 0
                         \/ v.image[j].item = t.image[j].item /\ (v.image[j].there => t.image[j].there)
    BY DEF ImagesGo
  <2>1. CASE j = i \/ v.image[j] = u.image[j]
    BY <1>1, <1>4, <2>1 DEF ImagesGo
  <2>2. CASE j # i /\ v.image[j] # u.image[j]
    BY <1>4, <2>2
  <2> QED BY <2>1, <2>2
<1>11. ItemsGo(t, v)
  <2>1. \A j \in Ids : u.image[j].item = 0 => v.image[j].item = 0
    <3> SUFFICES ASSUME NEW j \in Ids, u.image[j].item = 0 PROVE v.image[j].item = 0
      OBVIOUS
    <3>1. CASE j \notin {i, new}
      BY <1>4, <3>1
    <3>2. CASE j = i
      BY <1>4, <3>2
    <3>3. CASE j = new
      BY <1>4, <3>3
    <3> QED BY <3>1, <3>2, <3>3
  <2>2. v.queued = u.queued
    BY <1>4
  <2> QED BY <1>1, <2>1, <2>2 DEF ItemsGo
<1>12. OthersKeep(t, v, moving)
  <2> SUFFICES ASSUME NEW n \in Picture \ moving
               PROVE  /\ v.note[n] = t.note[n]
                      /\ \A j \in Ids : <<j, n>> \in t.refs => <<j, n>> \in v.refs /\ v.image[j].space = t.image[j].space
                      /\ \A o \in Ids, j \in Ids : <<n, o, j>> \in v.remaps <=> <<n, o, j>> \in t.remaps
    BY DEF OthersKeep
  <2>1. n \notin with
    OBVIOUS
  <2>2. /\ u.note[n] = t.note[n]
        /\ \A j \in Ids : <<j, n>> \in t.refs => <<j, n>> \in u.refs /\ u.image[j].space = t.image[j].space
        /\ \A o \in Ids, j \in Ids : <<n, o, j>> \in u.remaps <=> <<n, o, j>> \in t.remaps
    BY <1>1 DEF OthersKeep
  <2>3. \A j \in Ids : <<j, n>> \in t.refs => v.image[j].space = u.image[j].space
    <3> SUFFICES ASSUME NEW j \in Ids, <<j, n>> \in t.refs PROVE v.image[j].space = u.image[j].space
      OBVIOUS
    <3>1. t.image[j].there /\ j # fresh
      BY DEF RowsThere
    <3>2. CASE j \notin {i, new}
      BY <1>4, <3>2
    <3>3. CASE j = i
      BY <1>4, <3>3
    <3>4. CASE j = new
      BY <1>4, <3>1, <3>4
    <3> QED BY <3>2, <3>3, <3>4
  <2>4. v.note[n] = t.note[n]
    BY <1>17, <2>1, <2>2
  <2>5. \A j \in Ids : <<j, n>> \in u.refs => <<j, n>> \in v.refs
    BY <1>5, <2>1
  <2>6. \A o \in Ids, j \in Ids : <<n, o, j>> \in v.remaps <=> <<n, o, j>> \in u.remaps
    BY <1>5, <2>1
  <2> QED BY ONLY <2>2, <2>3, <2>4, <2>5, <2>6
<1>13. \A j \in Ids : Arrived(u, j, space) => Arrived(v, j, space)
  BY <1>4 DEF Arrived
<1>14. Arrived(v, new, space)
  BY <1>4 DEF Arrived
<1>15. ASSUME NEW n \in moving PROVE MoverGoes(t, v, done \cup {i}, n, space, gone)
  <2>1. MoverGoes(t, u, done, n, space, gone) /\ n \in Picture
    BY DEF MovedSoFar
  <2>2. \A j \in Ids : j # i /\ Waits(t, n, j, done) => Waits(t, n, j, done \cup {i})
    BY DEF Waits
  <2>3. CASE n \in with
    <3>1. /\ v.note[n].there = t.note[n].there /\ v.note[n].space = t.note[n].space
          /\ v.note[n].open = t.note[n].open
      BY <1>5, <2>1 DEF MoverGoes
    <3>2. \A j \in Ids \ (done \cup {i}) : <<j, n>> \in t.refs => <<j, n>> \in v.refs
      BY <1>5, <2>1, <2>3 DEF MoverGoes
    <3>3. ASSUME NEW j \in Counted(v, n)
          PROVE  /\ j \in gone \/ <<j, n>> \in v.refs
                 /\ j \in gone \/ Waits(t, n, j, done \cup {i}) \/ Arrived(v, j, space)
      <4>1. CASE j = new
        BY <1>5, <1>14, <2>1, <2>3, <4>1
      <4>2. CASE j \in Counted(u, n) /\ j # i
        <5>1. /\ j \in Ids /\ (j \in gone \/ <<j, n>> \in u.refs)
              /\ j \in gone \/ Waits(t, n, j, done) \/ Arrived(u, j, space)
          BY <1>8, <2>1, <4>2 DEF MoverGoes
        <5> QED BY <1>5, <1>13, <2>1, <2>2, <2>3, <4>2, <5>1
      <4> QED BY <1>8, <2>1, <2>3, <3>3, <4>1, <4>2
    <3>4. \A j \in Ids : Redirected(u, n, j) => Redirected(v, n, j)
      <4> SUFFICES ASSUME NEW j \in Ids, NEW k \in Ids, <<n, j, k>> \in u.remaps
                   PROVE  \E x \in Ids : <<n, j, x>> \in v.remaps
        BY DEF Redirected
      <4>1. CASE j = i
        BY <1>5, <2>1, <2>3, <4>1
      <4>2. CASE j # i /\ k = i
        BY <1>5, <2>1, <2>3, <4>2
      <4>3. CASE j # i /\ k # i
        BY <1>5, <2>1, <2>3, <4>3
      <4> QED BY <4>1, <4>2, <4>3
    <3>5. ASSUME NEW j \in Counted(t, n)
          PROVE  \/ j \in gone \/ Waits(t, n, j, done \cup {i})
                 \/ Arrived(v, j, space) \/ Redirected(v, n, j)
      <4>1. CASE j = i
        <5>1. <<n, i, new>> \in v.remaps
          BY <1>5, <2>1, <2>3
        <5> QED BY <4>1, <5>1 DEF Redirected
      <4>2. CASE j # i
        <5>1. j \in Ids /\ (j \in gone \/ Waits(t, n, j, done) \/ Arrived(u, j, space) \/ Redirected(u, n, j))
          BY <1>8, <2>1 DEF MoverGoes
        <5> QED BY <1>13, <2>2, <3>4, <4>2, <5>1
      <4> QED BY <4>1, <4>2
    <3>6. ASSUME NEW o \in Ids, NEW j \in Ids, <<n, o, j>> \in v.remaps
          PROVE  \/ Arrived(v, j, space)
                 \/ /\ <<n, o, j>> \in t.remaps
                    /\ j \notin Counted(t, n) \/ j \in gone \/ Waits(t, n, j, done \cup {i})
      <4>1. CASE j = new
        BY <1>14, <4>1
      <4>2. CASE j # new
        <5>1. o # i /\ j # i /\ <<n, o, j>> \in u.remaps
          <6>1. \/ n \notin with /\ <<n, o, j>> \in u.remaps
                \/ n \in with /\ o = i /\ j = new
                \/ n \in with /\ o # i /\ j # i /\ <<n, o, j>> \in u.remaps
                \/ n \in with /\ o # i /\ j = new /\ <<n, o, i>> \in u.remaps
            BY <1>18, <2>1, <3>6
          <6> QED BY <2>3, <4>2, <6>1
        <5>2. \/ Arrived(u, j, space)
              \/ /\ <<n, o, j>> \in t.remaps
                 /\ j \notin Counted(t, n) \/ j \in gone \/ Waits(t, n, j, done)
          BY <2>1, <5>1 DEF MoverGoes
        <5> QED BY <1>13, <2>2, <5>1, <5>2
      <4> QED BY <4>1, <4>2
    <3>7. \A o \in Ids : Redirected(t, n, o) => Redirected(v, n, o)
      BY <2>1, <3>4 DEF MoverGoes
    <3> QED BY <3>1, <3>2, <3>3, <3>5, <3>6, <3>7 DEF MoverGoes
  <2>4. CASE n \notin with
    <3>1. /\ v.note[n] = u.note[n] /\ Counted(v, n) = Counted(u, n)
          /\ \A j \in Ids : <<j, n>> \in v.refs <=> <<j, n>> \in u.refs
          /\ \A o \in Ids, j \in Ids : <<n, o, j>> \in v.remaps <=> <<n, o, j>> \in u.remaps
      BY <1>5, <1>8, <2>1, <2>4
    <3>2. ~Waits(t, n, i, done)
      <4>1. <<i, n>> \notin u.refs
        BY <1>2, <2>1, <2>4
      <4> QED BY <2>1, <4>1 DEF MoverGoes, Waits
    <3>3. \A j \in Ids : Waits(t, n, j, done) => Waits(t, n, j, done \cup {i})
      BY <2>2, <3>2
    <3>4. \A j \in Ids : Redirected(v, n, j) <=> Redirected(u, n, j)
      BY <3>1 DEF Redirected
    <3>5. Counted(t, n) \in SUBSET Ids /\ Counted(u, n) \in SUBSET Ids
      BY <1>8, <2>1
    <3> QED BY <1>13, <2>1, <3>1, <3>3, <3>4, <3>5 DEF MoverGoes
  <2> QED BY <2>3, <2>4
<1> QED BY <1>9, <1>10, <1>11, <1>12, <1>15 DEF MovedSoFar

(* An image of the loop, whichever it is.                                   *)
LEMMA ImageMovedIs ==
  ASSUME NEW u \in TableSet, NEW i \in Ids, NEW moving \in SUBSET Picture, NEW space \in Space,
         NEW fresh \in Ids, fresh # i
  PROVE  ImageMoved(u, i, moving, space, fresh) \in TableSet
<1> PICK v \in TableSet : v = Anchored(u, i) /\ v.image = u.image
  BY AnchoredIs
<1> PICK with \in SUBSET Picture : with = Referrers(v, i) \cap moving
  OBVIOUS
<1>1. CASE u.image[i].space = space
  BY <1>1 DEF ImageMoved
<1>2. CASE u.image[i].space # space /\ with = {}
  BY <1>2 DEF ImageMoved
<1>3. CASE u.image[i].space # space /\ with # {} /\ Referrers(v, i) \subseteq moving
  <2>1. TakenAlong(v, i, with, space) \in TableSet
    BY <1>3, TakenAlongIs
  <2> QED BY <1>3, <2>1 DEF ImageMoved
<1>4. CASE u.image[i].space # space /\ with # {} /\ ~(Referrers(v, i) \subseteq moving)
  <2>1. Referrers(v, i) \ with # {} /\ v.image[i].space # space
    BY <1>4
  <2>2. Copied(v, i, with, space, fresh) \in TableSet
    BY <1>4, <2>1, CopiedIs
  <2> QED BY <1>4, <2>2 DEF ImageMoved
<1> QED BY <1>1, <1>2, <1>3, <1>4

(* A round of the loop.                                                     *)
LEMMA ImageMovedKeeps ==
  ASSUME NEW t \in TableSet, RowsThere(t), NEW u, NEW done, NEW moving \in SUBSET Picture, NEW space \in Space,
         NEW gone, MovedSoFar(t, u, done, moving, space, gone), NEW i \in Ids, t.image[i].there,
         NEW fresh \in Ids, ~t.image[fresh].there
  PROVE  MovedSoFar(t, ImageMoved(u, i, moving, space, fresh), done \cup {i}, moving, space, gone)
<1>1. /\ u \in TableSet /\ u.image[i].there
      /\ \A n \in moving : <<i, n>> \in t.refs /\ i \notin done => <<i, n>> \in u.refs
  BY DEF MovedSoFar, ImagesGo, MoverGoes
<1> PICK v \in TableSet : v = Anchored(u, i) /\ v.image = u.image /\ u.refs \subseteq v.refs
  BY <1>1, AnchoredIs
<1>2. MovedSoFar(t, v, done, moving, space, gone)
  BY <1>1, AnchorKeeps
<1> PICK with \in SUBSET Picture : with = Referrers(v, i) \cap moving
  OBVIOUS
<1>3. CASE u.image[i].space = space
  <2>1. Arrived(u, i, space)
    BY <1>1, <1>3 DEF Arrived
  <2>2. MovedSoFar(t, u, done \cup {i}, moving, space, gone)
    BY <2>1, NowMoved
  <2> QED BY <1>3, <2>2 DEF ImageMoved
<1>4. CASE u.image[i].space # space /\ with = {}
  <2>1. \A n \in moving : <<i, n>> \notin v.refs
    BY <1>4, ReferrersAre
  <2>2. \A n \in moving : <<i, n>> \in t.refs /\ i \notin done => Arrived(v, i, space)
    BY <1>1, <2>1
  <2>3. MovedSoFar(t, v, done \cup {i}, moving, space, gone)
    BY <1>2, <2>2, NowMoved
  <2> QED BY <1>4, <2>3 DEF ImageMoved
<1>5. CASE u.image[i].space # space /\ with # {} /\ Referrers(v, i) \subseteq moving
  <2>1. with \subseteq Referrers(v, i)
    OBVIOUS
  <2>2. MovedSoFar(t, TakenAlong(v, i, with, space), done \cup {i}, moving, space, gone)
    BY <1>2, <1>5, <2>1, TakenAlongKeeps
  <2> QED BY <1>5, <2>2 DEF ImageMoved
<1>6. CASE u.image[i].space # space /\ with # {} /\ ~(Referrers(v, i) \subseteq moving)
  <2>1. v.image[i].space # space
    BY <1>6
  <2>2. MovedSoFar(t, Copied(v, i, with, space, fresh), done \cup {i}, moving, space, gone)
    BY <1>2, <1>6, <2>1, CopiedKeeps
  <2> QED BY <1>6, <2>2 DEF ImageMoved
<1> QED BY <1>3, <1>4, <1>5, <1>6

(* The images of the notes, one after the other.                             *)
LEMMA AllMoved ==
  ASSUME NEW t \in TableSet, RowsThere(t), NEW moving \in SUBSET Picture, NEW space \in Space, NEW gone,
         NEW fresh \in Ids, ~t.image[fresh].there, NEW S \in SUBSET Ids, \A i \in S : t.image[i].there,
         MovedSoFar(t, t, {}, moving, space, gone)
  PROVE  MovedSoFar(t, FoldSet(LAMBDA i, u : ImageMoved(u, i, moving, space, fresh), t, S), S, moving, space, gone)
<1> DEFINE G == [p \in S \X TableSet |-> ImageMoved(p[2], p[1], moving, space, fresh)]
           Runs(j) == j = [x \in SUBSET S |->
             IF x = {} THEN t ELSE ImageMoved(j[x \ {Pick(x)}], Pick(x), moving, space, fresh)]
<1>1. IsFiniteSet(S)
  BY IdsAreNumbers, FS_Subset
<1>2. G \in [S \X TableSet -> TableSet]
  <2>1. \A i \in S : i \in Ids /\ fresh # i
    OBVIOUS
  <2> QED BY <2>1, ImageMovedIs
<1>3. \A i \in S, u \in TableSet : G[<<i, u>>] = ImageMoved(u, i, moving, space, fresh)
  OBVIOUS
<1> HIDE DEF G
<1>4. PICK it \in [SUBSET S -> TableSet] : IsFold(it, t, G, S)
  BY <1>1, <1>2, FoldExists
<1>5. \A x \in SUBSET S : x # {} => Pick(x) \in x /\ Pick(x) \in S /\ x \ {Pick(x)} \in SUBSET S
  BY PickIn
<1>6. Runs(it)
  <2>1. \A x \in SUBSET S : it[x] \in TableSet
    OBVIOUS
  <2>2. ASSUME NEW x \in SUBSET S, x # {}
        PROVE  it[x] = ImageMoved(it[x \ {Pick(x)}], Pick(x), moving, space, fresh)
    <3>1. Pick(x) \in S /\ it[x \ {Pick(x)}] \in TableSet
      BY <1>5, <2>1, <2>2
    <3>2. it[x] = G[<<Pick(x), it[x \ {Pick(x)}]>>]
      BY <1>4, <2>2 DEF IsFold
    <3> QED BY <1>3, <3>1, <3>2
  <2>3. it[{}] = t
    BY <1>4 DEF IsFold
  <2> QED BY <2>2, <2>3
<1>7. \E j : Runs(j)
  BY <1>6
<1>8. PICK j : Runs(j) /\ FoldSet(LAMBDA i, u : ImageMoved(u, i, moving, space, fresh), t, S) = j[S]
  BY <1>7 DEF FoldSet, MapThenFoldSet, Pick
<1> DEFINE Q == {x \in SUBSET S : MovedSoFar(t, j[x], x, moving, space, gone)}
<1>9. {} \in Q
  BY <1>8
<1>10. ASSUME NEW x \in SUBSET S, x # {}, x \ {Pick(x)} \in Q PROVE x \in Q
  <2>1. PICK i \in S : i = Pick(x) /\ i \in x
    BY <1>5, <1>10
  <2> PICK D \in SUBSET S : D = x \ {i}
    BY <1>10
  <2> PICK u : u = j[D]
    OBVIOUS
  <2>2. j[x] = ImageMoved(u, i, moving, space, fresh) /\ MovedSoFar(t, u, D, moving, space, gone)
    BY <1>8, <1>10, <2>1
  <2>3. MovedSoFar(t, ImageMoved(u, i, moving, space, fresh), D \cup {i}, moving, space, gone)
    <3>1. i \in Ids /\ t.image[i].there
      OBVIOUS
    <3> QED BY <2>2, <3>1, ImageMovedKeeps
  <2>4. D \cup {i} = x
    BY <2>1
  <2> QED BY <2>2, <2>3, <2>4
<1>11. Q = SUBSET S
  <2>1. Q \in SUBSET (SUBSET S)
    OBVIOUS
  <2> HIDE DEF Q
  <2> QED BY <2>1, <1>1, <1>9, <1>10, FoldInduction
<1>12. MovedSoFar(t, j[S], S, moving, space, gone)
  BY <1>11
<1> QED BY <1>8, <1>12

(* At first the notes alone went.                                            *)
Leave(t, moving, space) ==
  [t EXCEPT !.note = [n \in Picture |-> IF n \in moving THEN [@[n] EXCEPT !.space = space] ELSE @[n]]]

(* Nothing else changed.                                                    *)
LEMMA LeaveIs ==
  ASSUME NEW t \in TableSet, NEW moving \in SUBSET Picture, NEW space \in Space,
         NEW u, u = Leave(t, moving, space)
  PROVE  /\ u \in TableSet /\ u.image = t.image /\ u.refs = t.refs /\ u.remaps = t.remaps /\ u.queued = t.queued
         /\ \A n \in Picture :
              /\ u.note[n].there = t.note[n].there /\ u.note[n].open = t.note[n].open
              /\ Counted(u, n) = Counted(t, n)
              /\ n \in moving => u.note[n].space = space
              /\ n \notin moving => u.note[n] = t.note[n]
<1>1. t.note \in [Picture -> NoteRec]
  BY DEF TableSet
<1> PICK nt : nt = [n \in Picture |-> IF n \in moving THEN [t.note[n] EXCEPT !.space = space] ELSE t.note[n]]
  OBVIOUS
<1>2. ASSUME NEW n \in Picture
      PROVE  /\ nt[n] \in NoteRec /\ nt[n].there = t.note[n].there /\ nt[n].open = t.note[n].open
             /\ nt[n].body = t.note[n].body /\ nt[n].past = t.note[n].past
             /\ n \in moving => nt[n].space = space
             /\ n \notin moving => nt[n] = t.note[n]
  <2>1. t.note[n] \in NoteRec
    BY <1>1
  <2>2. nt[n] = IF n \in moving THEN [t.note[n] EXCEPT !.space = space] ELSE t.note[n]
    OBVIOUS
  <2> QED BY <2>1, <2>2 DEF NoteRec
<1>3. nt \in [Picture -> NoteRec]
  BY <1>2
<1>4. u = [t EXCEPT !.note = nt]
  BY DEF Leave
<1>5. /\ u \in TableSet /\ u.note = nt /\ u.image = t.image /\ u.refs = t.refs /\ u.remaps = t.remaps
      /\ u.queued = t.queued
  BY <1>3, <1>4 DEF TableSet
<1> QED BY <1>2, <1>5 DEF Counted

(* After the loop nothing waits, and the invariant holds again, but for the *)
(* images the editors and the redirects lost.                               *)
LEMMA MovedKeeps ==
  ASSUME ImagesInv, NEW moving \in SUBSET {n \in Picture : note[n].there}, NEW space \in Space,
         NEW t, t = Leave(Tables, moving, space), NEW S, S = ImagesOf(t, moving),
         NEW u, MovedSoFar(t, u, S, moving, space, lost), Tables' = u, Same
  PROVE  ImagesInv'
<1> PICK b \in TableSet : b = Tables
  BY TablesSound
<1>1. /\ RowsThere(b) /\ ItemsSound(b, uploads) /\ NamedStay(b, lost) /\ NamedCount(b, lost)
      /\ DoomedAreLost(b, queued \cup deleted, lost) /\ RedirectsLead(b, lost) /\ EditorsLead(b, lost)
      /\ b.queued = queued /\ uploads \in Nat /\ queued \cup deleted \subseteq 1 .. uploads
  BY TablesAre DEF ImagesInv, ImagesTypeOK
<1>2. /\ t \in TableSet /\ t.image = b.image /\ t.refs = b.refs /\ t.remaps = b.remaps /\ t.queued = b.queued
      /\ \A n \in Picture :
           /\ t.note[n].there = b.note[n].there /\ t.note[n].open = b.note[n].open
           /\ Counted(t, n) = Counted(b, n)
           /\ n \in moving => t.note[n].space = space
           /\ n \notin moving => t.note[n] = b.note[n]
  <2>1. moving \in SUBSET Picture
    OBVIOUS
  <2> QED BY <2>1, LeaveIs
<1>3. /\ u \in TableSet /\ RowsThere(u) /\ ImagesGo(t, u, space) /\ ItemsGo(t, u) /\ OthersKeep(t, u, moving)
      /\ \A n \in moving : MoverGoes(t, u, S, n, space, lost)
  BY DEF MovedSoFar
<1>4. lost \subseteq lost' /\ lost' \in SUBSET Ids /\ deleted' = deleted /\ uploads' = uploads
      /\ FromEditors(b, u, lost')
  BY <1>3, SameLost, TablesSound, TakenIs
<1>5. u.queued = queued'
  BY TablesAre
<1>6. \A n \in moving, i \in Ids : ~Waits(t, n, i, S)
  <2> SUFFICES ASSUME NEW n \in moving, NEW i \in Ids, <<i, n>> \in t.refs PROVE i \in S
    BY DEF Waits
  <2>1. t.image[i].there
    BY <1>1, <1>2 DEF RowsThere
  <2>2. n \in Referrers(t, i) \cap moving
    BY <1>2, ReferrersAre
  <2> QED BY <2>1, <2>2 DEF ImagesOf, Stored
<1>7. \A n \in Picture : /\ Counted(b, n) \in SUBSET Ids /\ Counted(u, n) \in SUBSET Ids
                         /\ u.note[n].there = b.note[n].there /\ u.note[n].open = b.note[n].open
                         /\ n \in moving => u.note[n].space = space
                         /\ n \notin moving => u.note[n] = b.note[n] /\ Counted(u, n) = Counted(b, n)
  <2>1. \A n \in Picture : Counted(b, n) \in SUBSET Ids /\ Counted(u, n) \in SUBSET Ids
    BY <1>3 DEF TableSet, NoteRec, Counted
  <2>2. \A n \in Picture : n \notin moving => u.note[n] = b.note[n] /\ Counted(u, n) = Counted(b, n)
    BY <1>2, <1>3 DEF OthersKeep, Counted
  <2>3. \A n \in moving : /\ u.note[n].there = b.note[n].there /\ u.note[n].open = b.note[n].open
                          /\ u.note[n].space = space
    BY <1>2, <1>3 DEF MoverGoes
  <2> QED BY <2>1, <2>2, <2>3
<1>8. \A n \in moving, i \in Ids : Arrived(u, i, space) => With(u, n, i)
  BY <1>7 DEF Arrived, With
<1>9. ASSUME NEW n \in Picture \ moving, NEW i \in Counted(b, n), i \notin lost
      PROVE  With(u, n, i) /\ <<i, n>> \in u.refs
  <2>1. i \in Ids /\ With(b, n, i) /\ <<i, n>> \in b.refs
    BY <1>1, <1>7, <1>9 DEF NamedStay, NamedCount
  <2>2. <<i, n>> \in u.refs /\ u.image[i].space = b.image[i].space
    BY <1>2, <1>3, <2>1 DEF OthersKeep
  <2>3. u.image[i].there
    BY <1>2, <1>3, <2>1 DEF ImagesGo, With
  <2> QED BY <1>7, <2>1, <2>2, <2>3 DEF With
<1>10. NamedStay(u, lost') /\ NamedCount(u, lost')
  <2> SUFFICES ASSUME NEW n \in Picture, NEW i \in Counted(u, n), i \notin lost
               PROVE  With(u, n, i) /\ <<i, n>> \in u.refs
    BY <1>4 DEF NamedStay, NamedCount
  <2>1. CASE n \in moving
    <3>1. i \in Ids /\ <<i, n>> \in u.refs /\ (Waits(t, n, i, S) \/ Arrived(u, i, space))
      BY <1>3, <1>7, <2>1 DEF MoverGoes
    <3> QED BY <1>6, <1>8, <2>1, <3>1
  <2>2. CASE n \notin moving
    BY <1>7, <1>9, <2>2
  <2> QED BY <2>1, <2>2
<1>11. NamedLead(b, u, lost')
  <2> SUFFICES ASSUME NEW n \in Picture, NEW i \in Counted(b, n), i \notin lost
               PROVE  With(u, n, i) \/ Redirected(u, n, i)
    BY <1>4 DEF NamedLead
  <2>1. CASE n \in moving
    <3>1. i \in Ids /\ (Waits(t, n, i, S) \/ Arrived(u, i, space) \/ Redirected(u, n, i))
      BY <1>2, <1>3, <1>7, <2>1 DEF MoverGoes
    <3> QED BY <1>6, <1>8, <2>1, <3>1
  <2>2. CASE n \notin moving
    BY <1>9, <2>2
  <2> QED BY <2>1, <2>2
<1>12. RedirectsStay(b, u)
  <2> SUFFICES ASSUME NEW n \in Picture, NEW o \in Ids, NEW i \in Ids, <<n, o, i>> \in b.remaps
               PROVE  Redirected(u, n, o)
    BY DEF RedirectsStay
  <2>1. CASE n \in moving
    <3>1. Redirected(t, n, o)
      BY <1>2 DEF Redirected
    <3> QED BY <1>3, <2>1, <3>1 DEF MoverGoes
  <2>2. CASE n \notin moving
    BY <1>2, <1>3, <2>2 DEF OthersKeep, Redirected
  <2> QED BY <2>1, <2>2
<1>13. NewLead(b, u, lost')
  <2> SUFFICES ASSUME NEW n \in Picture, NEW o \in Ids, NEW i \in Ids, <<n, o, i>> \in u.remaps, i \notin lost
               PROVE  With(u, n, i) \/ (i \notin Counted(b, n) /\ \E p \in Ids : <<n, p, i>> \in b.remaps)
    BY <1>4 DEF NewLead
  <2>1. CASE n \in moving
    <3>1. \/ Arrived(u, i, space)
          \/ <<n, o, i>> \in t.remaps /\ (i \notin Counted(t, n) \/ Waits(t, n, i, S))
      BY <1>3, <2>1 DEF MoverGoes
    <3> QED BY <1>2, <1>6, <1>8, <2>1, <3>1
  <2>2. CASE n \notin moving
    <3>1. <<n, o, i>> \in b.remaps
      BY <1>2, <1>3, <2>2 DEF OthersKeep
    <3> QED BY <1>9, <2>2, <3>1
  <2> QED BY <2>1, <2>2
<1>14. EditorsStay(b, u)
  BY <1>7 DEF EditorsStay
<1>15. RedirectsLead(u, lost') /\ EditorsLead(u, lost')
  BY <1>1, <1>3, <1>4, <1>11, <1>12, <1>13, <1>14, EditorsKeep
<1>16. \A i \in Ids : b.image[i].item \in Nat /\ u.image[i].item \in Nat
  BY <1>3 DEF TableSet, ImageRec
<1>17. \A i \in Ids : u.image[i].item # 0 =>
         u.image[i].item = b.image[i].item /\ (u.image[i].there => b.image[i].there)
  BY <1>2, <1>3 DEF ImagesGo
<1>18. ItemsSound(u, uploads')
  <2>1. \A i \in Ids : u.image[i].item <= uploads
    BY <1>1, <1>16, <1>17 DEF ItemsSound
  <2>2. ASSUME NEW i \in Ids, NEW j \in Ids, u.image[i].item = u.image[j].item, u.image[i].item # 0
        PROVE  i = j
    BY <1>1, <1>17, <2>2 DEF ItemsSound
  <2> QED BY <1>4, <2>1, <2>2 DEF ItemsSound
<1>19. queued' \cup deleted' \subseteq 1 .. uploads'
  <2> SUFFICES ASSUME NEW x \in queued', x \notin queued PROVE x \in 1 .. uploads
    BY <1>1, <1>4
  <2>1. PICK i \in Ids : x = b.image[i].item /\ x # 0
    BY <1>1, <1>2, <1>3, <1>5 DEF ItemsGo
  <2> QED BY <1>1, <1>16, <2>1 DEF ItemsSound
<1>20. DoomedAreLost(u, queued' \cup deleted', lost')
  <2> SUFFICES ASSUME NEW i \in Ids, u.image[i].there, u.image[i].item \in queued' \cup deleted'
               PROVE  i \in lost
    BY <1>4 DEF DoomedAreLost
  <2>1. u.image[i].item # 0
    BY <1>19
  <2>2. u.image[i].item = b.image[i].item /\ b.image[i].there
    BY <1>17, <2>1
  <2>3. CASE u.image[i].item \in queued \cup deleted
    BY <1>1, <2>2, <2>3 DEF DoomedAreLost
  <2>4. CASE u.image[i].item \notin queued \cup deleted
    <3>1. u.image[i].item \in u.queued /\ u.image[i].item \notin t.queued
      BY <1>1, <1>2, <1>4, <1>5, <2>4
    <3>2. PICK j \in Ids : u.image[i].item = b.image[j].item /\ u.image[j].item = 0
      BY <1>2, <1>3, <3>1 DEF ItemsGo
    <3>3. i = j
      BY <1>1, <2>1, <2>2, <3>2 DEF ItemsSound
    <3> QED BY <2>1, <3>2, <3>3
  <2> QED BY <2>3, <2>4
<1>21. ImagesTypeOK'
  BY <1>3, <1>1, <1>4, <1>19 DEF ImagesTypeOK
<1> QED BY <1>3, <1>10, <1>15, <1>18, <1>20, <1>21, TablesAre DEF ImagesInv

LEMMA MoveNotesKeeps == ASSUME ImagesInv, MoveNotes PROVE ImagesInv'
<1>1. PICK moving \in SUBSET {n \in Picture : note[n].there}, space \in {"vault", "shared"}, fresh \in Free(image) :
        Become(NotesMoved(moving, space, fresh)) /\ Same
  BY DEF MoveNotes
<1>2. moving \in SUBSET Picture /\ space \in Space /\ fresh \in Ids /\ ~image[fresh].made
  BY DEF Space, Free
<1> PICK b \in TableSet : b = Tables
  BY TablesSound
<1>3. RowsThere(b) /\ NamedCount(b, lost)
  BY DEF ImagesInv
<1> DEFINE t == Leave(Tables, moving, space)
           S == ImagesOf(t, moving)
           u == FoldSet(LAMBDA i, v : ImageMoved(v, i, moving, space, fresh), t, S)
<1>4. NotesMoved(moving, space, fresh) = u
  BY DEF NotesMoved, Leave
<1>5. /\ t \in TableSet /\ t.image = b.image /\ t.refs = b.refs /\ t.remaps = b.remaps /\ t.queued = b.queued
      /\ \A n \in Picture :
           /\ t.note[n].there = b.note[n].there /\ t.note[n].open = b.note[n].open
           /\ Counted(t, n) = Counted(b, n)
           /\ n \in moving => t.note[n].space = space
           /\ n \notin moving => t.note[n] = b.note[n]
  BY <1>2, LeaveIs
<1> PICK t0 : t0 = t
  OBVIOUS
<1>6. RowsThere(t0)
  <2>1. \A i \in Ids : t0.image[i].owner \in Picture \cup {Unowned}
    BY <1>5 DEF TableSet, ImageRec
  <2>2. \A i \in Ids : t0.image[i].owner = Unowned \/ t0.note[t0.image[i].owner].there
    BY <1>3, <1>5, <2>1 DEF RowsThere
  <2> QED BY <1>3, <1>5, <2>2 DEF RowsThere
<1>7. MovedSoFar(t0, t0, {}, moving, space, lost)
  <2>1. ImagesGo(t0, t0, space) /\ ItemsGo(t0, t0) /\ OthersKeep(t0, t0, moving)
    BY DEF ImagesGo, ItemsGo, OthersKeep
  <2>2. ASSUME NEW n \in moving PROVE MoverGoes(t0, t0, {}, n, space, lost)
    <3>1. \A i \in Counted(t0, n) : i \in lost \/ <<i, n>> \in t0.refs
      BY <1>2, <1>3, <1>5 DEF NamedCount
    <3> QED BY <3>1 DEF MoverGoes, Waits
  <2> QED BY <1>5, <1>6, <2>1, <2>2 DEF MovedSoFar
<1> HIDE DEF t
<1>8. S \in SUBSET Ids /\ \A i \in S : t.image[i].there
  BY <1>2, <1>5, ImagesOfAre
<1> HIDE DEF S
<1>9. ~t.image[fresh].there
  <2>1. ~b.image[fresh].made
    BY <1>2, TablesAre
  <2> QED BY <1>2, <1>3, <1>5, <2>1 DEF RowsThere
<1>10. t \in TableSet /\ RowsThere(t) /\ MovedSoFar(t, t, {}, moving, space, lost)
  BY <1>5, <1>6, <1>7
<1>11. MovedSoFar(t, FoldSet(LAMBDA i, v : ImageMoved(v, i, moving, space, fresh), t, S), S, moving, space, lost)
  BY ONLY <1>2, <1>8, <1>9, <1>10, AllMoved
<1>12. MovedSoFar(t, u, S, moving, space, lost)
  BY ONLY <1>11
<1> HIDE DEF u
<1>13. u \in TableSet /\ Become(u) /\ Same
  BY <1>1, <1>4, <1>12 DEF MovedSoFar
<1>14. Tables' = u
  BY <1>13, BecomeIs
<1>15. t = Leave(Tables, moving, space) /\ S = ImagesOf(t, moving)
  BY DEF t, S
<1> QED BY <1>1, <1>2, <1>12, <1>13, <1>14, <1>15, MovedKeeps

(* The invariant holds of an empty device and is kept by every step.        *)
LEMMA ImagesBegin == ImagesInit => ImagesInv
<1> SUFFICES ASSUME ImagesInit PROVE ImagesInv
  OBVIOUS
<1>1. /\ note = [n \in Picture |->
            [there |-> TRUE, space |-> "vault", body |-> {}, past |-> {}, open |-> Closed]]
      /\ image = [i \in Ids |-> NoImage]
      /\ refs = {} /\ remaps = {} /\ queued = {} /\ deleted = {} /\ uploads = 0 /\ lost = {}
  BY DEF ImagesInit
<1>2. \A n \in Picture : note[n] \in NoteRec /\ note[n].there /\ note[n].open = Closed /\ Counted(Tables, n) = {}
  BY <1>1, TablesAre DEF NoteRec, Space, Counted
<1>3. \A i \in Ids : image[i] = NoImage
  BY <1>1
<1>4. NoImage \in ImageRec /\ ~NoImage.there /\ NoImage.item = 0 /\ NoImage.owner = Unowned
  BY GoneIs DEF NoImage
<1>5. note \in [Picture -> NoteRec] /\ image \in [Ids -> ImageRec]
  BY <1>1, <1>2, <1>3, <1>4
<1>6. Tables \in TableSet
  BY <1>1, <1>5 DEF Tables, TableSet
<1>7. ImagesTypeOK
  BY <1>1, <1>6 DEF ImagesTypeOK
<1>8. RowsThere(Tables) /\ ItemsSound(Tables, uploads)
  BY <1>1, <1>2, <1>3, <1>4, TablesAre DEF RowsThere, ItemsSound
<1>9. NamedStay(Tables, lost) /\ NamedCount(Tables, lost)
  BY <1>2 DEF NamedStay, NamedCount
<1>10. DoomedAreLost(Tables, queued \cup deleted, lost) /\ RedirectsLead(Tables, lost) /\ EditorsLead(Tables, lost)
  BY <1>1, <1>2, <1>3, <1>4, TablesAre DEF DoomedAreLost, RedirectsLead, EditorsLead
<1> QED BY <1>7, <1>8, <1>9, <1>10 DEF ImagesInv

LEMMA ImagesKeep == ImagesInv /\ [ImagesNext]_imageVars => ImagesInv'
<1> SUFFICES ASSUME ImagesInv, [ImagesNext]_imageVars PROVE ImagesInv'
  OBVIOUS
<1>1. CASE UNCHANGED imageVars
  <2>1. Tables' = Tables /\ UNCHANGED <<queued, deleted, uploads, lost>>
    BY <1>1 DEF imageVars, Tables
  <2> QED BY <2>1 DEF ImagesInv, ImagesTypeOK
<1>2. ASSUME NEW n \in Picture, Open(n) \/ Insert(n) \/ EditText(n) \/ Save(n) \/ CloseEditor(n) \/ TakeVersion(n)
      PROVE  ImagesInv'
  BY <1>2, OpenKeeps, InsertKeeps, EditTextKeeps, SaveKeeps, CloseEditorKeeps, TakeVersionKeeps
<1>3. ASSUME NEW n \in Picture, PurgeNote(n) \/ DeleteFolderOf(n) \/ EmptyTrashOf(n) PROVE ImagesInv'
  BY <1>3, PurgeNoteKeeps, DeleteFolderOfKeeps, EmptyTrashOfKeeps
<1>4. CASE MoveNotes
  BY <1>4, MoveNotesKeeps
<1>5. CASE SweepImages
  BY <1>5, SweepKeeps
<1>6. ASSUME NEW i \in Ids, PushImage(i) \/ PullImageDelete(i) PROVE ImagesInv'
  BY <1>6, PushImageKeeps, PullImageDeleteKeeps
<1>7. CASE DrainImage
  BY <1>7, DrainImageKeeps
<1> QED BY <1>1, <1>2, <1>3, <1>4, <1>5, <1>6, <1>7 DEF ImagesNext

(* Whatever the users move, purge, empty, edit, save late or undo, and      *)
(* whenever the sweep, the uploads and the pulled deletions run between     *)
(* (assets.rs, sharing.rs), an image that a note's text or a version of it  *)
(* names is there and in the note's space, but for those ImagesStay sets    *)
(* aside: for any notes, and any number of images, commands and uploads.    *)
THEOREM ImagesAreStaying == ImagesInit /\ [][ImagesNext]_imageVars => []ImagesStay
<1>1. ImagesInit => ImagesInv
  BY ImagesBegin
<1>2. ImagesInv /\ [ImagesNext]_imageVars => ImagesInv'
  BY ImagesKeep
<1>3. ImagesInv => ImagesStay
  BY ImagesStaysBy
<1> QED BY <1>1, <1>2, <1>3, PTL

-----------------------------------------------------------------------------
(***************************************************************************)
(* Rooms: that nobody stays in a room who may not be there, and that       *)
(* nobody who is put out of it is left with a dead connection, for any     *)
(* sockets, sessions and accounts.                                         *)
(***************************************************************************)
USE RoomsAssumption

(* The steps of the specification, one by one.                             *)
LEMMA Steps ==
  ASSUME Next
  PROVE  \/ \E a \in Account, given \in Access : SetAccess(a, given)
         \/ \E xs : EndSessions(xs)
         \/ \E a \in Account : Disable(a)
         \/ \E all \in BOOLEAN : DeleteItem(all)
         \/ \E s \in Socket : Admit(s) \/ Join(s) \/ AskAgain(s) \/ TakeAnswer(s)
         \/ \E s \in Socket : Hangup(s) \/ AskFails(s) \/ FallsBehind(s)
         \/ Hear \/ HearFails \/ Disconnect \/ Reconnect \/ Recheck \/ Tick
         \/ \E c \in Checker : CheckSessions(c) \/ AskMembers(c) \/ CheckRoom(c)
         \/ \E c \in Checker, a \in Account : GiveAccess(c, a)
         \/ \E c \in Checker, overdue \in BOOLEAN : CheckFails(c, overdue)
BY DEF Next, Change, Listens, Repeats, Trouble, Own, Uses, Close, Checks, Checker

-----------------------------------------------------------------------------
(* What the operations of the hub leave behind.                            *)
LEMMA WithoutHub ==
  ASSUME TaskOK, HubOK, NEW gone, Without(gone), kicked' \subseteq Socket,
         \A s \in room \ gone : task'[s].at \in {"joined", "asked", "serving"}
  PROVE  HubOK'
BY DEF TaskOK, HubOK, Without, Access

LEMMA DropHub ==
  ASSUME TaskOK, HubOK, NEW gone, Drop(gone),
         \A s \in room \ gone : task'[s].at \in {"joined", "asked", "serving"}
  PROVE  HubOK'
<1>1. kicked' \subseteq Socket
  BY DEF Drop, HubOK
<1> QED
  BY <1>1, WithoutHub DEF Drop

LEMMA MembershipHub ==
  ASSUME TaskOK, HubOK, NEW a, NEW given \in Access, MembershipChanged(a, given),
         \A s \in room : task'[s].at \in {"joined", "asked", "serving"}
  PROVE  HubOK'
<1>1. CASE given = "none"
  BY <1>1, DropHub DEF MembershipChanged
<1>2. CASE given # "none"
  BY <1>2 DEF MembershipChanged, HubOK, TaskOK, Access
<1> QED
  BY <1>1, <1>2

LEMMA Unmoved ==
  ASSUME HubOK, UNCHANGED hub,
         \A s \in room : task'[s].at \in {"joined", "asked", "serving"}
  PROVE  HubOK'
BY DEF HubOK, hub

LEMMA ApplyHub ==
  ASSUME TaskOK, HubOK, UNCHANGED task, NEW e \in Event, Apply(e)
  PROVE  HubOK'
<1>0. \A s \in room : task'[s].at \in {"joined", "asked", "serving"}
  BY DEF HubOK
<1>1. CASE e.kind = "membership"
  <2>1. MembershipChanged(e.account, e.access) /\ e.access \in Access
    BY <1>1 DEF Apply, Event
  <2> QED
    BY <2>1, <1>0, MembershipHub
<1>2. CASE e.kind = "sessions"
  BY <1>0, <1>2, DropHub DEF Apply, SessionsClosed
<1>3. CASE e.kind = "deleted"
  BY <1>0, <1>3, DropHub, Unmoved DEF Apply, RoomClosed
<1>4. CASE e.kind = "closed"
  BY <1>0, <1>4, DropHub DEF Apply, RoomClosed
<1>5. e.kind \in {"membership", "sessions", "deleted", "closed"}
  BY DEF Event
<1> QED
  BY <1>1, <1>2, <1>3, <1>4, <1>5

(* A change puts events at the end of what is to be heard.                 *)
LEMMA Publishing ==
  ASSUME TypeOK, NEW es \in Seq(Event), Changed(es)
  PROVE  events' \in Seq(Event) /\ TaskOK' /\ HubOK' /\ WatchOK' /\ happened' \in 0..MaxEvents
<1>1. events' \in Seq(Event)
  BY ConcatProperties DEF TypeOK, DatabaseOK, Changed
<1>2. TaskOK' /\ HubOK'
  BY DEF TypeOK, TaskOK, HubOK, Changed, hub
<1>3. WatchOK'
  BY DEF TypeOK, WatchOK, Changed
<1>4. happened' \in 0..MaxEvents
  BY DEF TypeOK, Changed, Happens
<1> QED
  BY <1>1, <1>2, <1>3, <1>4

LEMMA OneEvent ==
  ASSUME NEW e \in Event
  PROVE  <<e>> \in Seq(Event)
OBVIOUS

LEMMA Counting == ASSUME happened \in 0..MaxEvents, Happens PROVE happened' \in 0..MaxEvents
BY DEF Happens

LEMMA TypeInit == Init => TypeOK
<1> SUFFICES ASSUME Init PROVE TypeOK
  OBVIOUS
<1>1. DatabaseOK
  BY DEF Init, DatabaseOK, Access
<1>2. TaskOK /\ HubOK
  BY DEF Init, TaskOK, HubOK, Access
<1>3. WatchOK
  BY DEF Init, WatchOK, Check, NoCheck, NoAccess, Access, Checker
<1> QED
  BY <1>1, <1>2, <1>3 DEF TypeOK, Init

LEMMA TypeStep ==
  ASSUME TypeOK, Next
  PROVE  TypeOK'
<1> USE DEF TypeOK
<1>1. ASSUME NEW a \in Account, NEW given \in Access, SetAccess(a, given) PROVE TypeOK'
  <2>1. [kind |-> "membership", account |-> a, access |-> given] \in Event
    BY DEF Event
  <2>2. events' \in Seq(Event) /\ TaskOK' /\ HubOK' /\ WatchOK' /\ happened' \in 0..MaxEvents
    BY <1>1, <2>1, OneEvent, Publishing DEF SetAccess
  <2> QED
    BY <1>1, <2>2 DEF SetAccess, DatabaseOK
<1>2. ASSUME NEW xs, EndSessions(xs) PROVE TypeOK'
  <2>1. [kind |-> "sessions", of |-> xs] \in Event
    BY <1>2 DEF Event, EndSessions, DatabaseOK
  <2>2. events' \in Seq(Event) /\ TaskOK' /\ HubOK' /\ WatchOK' /\ happened' \in 0..MaxEvents
    BY <1>2, <2>1, OneEvent, Publishing DEF EndSessions
  <2> QED
    BY <1>2, <2>2 DEF EndSessions, DatabaseOK
<1>3. ASSUME NEW a \in Account, Disable(a) PROVE TypeOK'
  <2>1. [kind |-> "sessions", of |-> {x \in Session : Holder[x] = a}] \in Event
    BY DEF Event
  <2>2. events' \in Seq(Event) /\ TaskOK' /\ HubOK' /\ WatchOK' /\ happened' \in 0..MaxEvents
    BY <1>3, <2>1, OneEvent, Publishing DEF Disable
  <2> QED
    BY <1>3, <2>2 DEF Disable, DatabaseOK, Access
<1>4. ASSUME NEW all \in BOOLEAN, DeleteItem(all) PROVE TypeOK'
  <2>1. [kind |-> "deleted"] \in Event /\ [kind |-> "closed"] \in Event
    BY DEF Event
  <2>2. <<[kind |-> "deleted"], [kind |-> "closed"]>> \in Seq(Event) /\ <<[kind |-> "deleted"]>> \in Seq(Event)
    BY <2>1
  <2>3. events' \in Seq(Event) /\ TaskOK' /\ HubOK' /\ WatchOK' /\ happened' \in 0..MaxEvents
    BY <1>4, <2>2, Publishing DEF DeleteItem
  <2> QED
    BY <1>4, <2>3 DEF DeleteItem, DatabaseOK
<1>5. ASSUME NEW s \in Socket, Admit(s) \/ Join(s) \/ AskAgain(s) \/ TakeAnswer(s) PROVE TypeOK'
  <2>1. AccountOf(s) \in Account /\ member[AccountOf(s)] \in Access
    BY DEF AccountOf, DatabaseOK
  <2>2. DatabaseOK' /\ WatchOK' /\ happened' \in 0..MaxEvents
    BY <1>5 DEF Admit, Join, AskAgain, TakeAnswer, database, watch, DatabaseOK, WatchOK
  <2>3. CASE Admit(s)
    BY <2>1, <2>2, <2>3 DEF Admit, Standing, AtTask, TaskOK, HubOK, hub
  <2>4. CASE Join(s)
    <3>1. TaskOK'
      <4>1. CASE task' = [task EXCEPT ![s].at = "joined"]
        BY <4>1 DEF TaskOK
      <4>2. CASE Goes(s, "left")
        BY <4>2 DEF Goes, TaskOK, Access
      <4> QED
        BY <2>4, <4>1, <4>2 DEF Join
    <3>2. s \notin room /\ task[s].access \in Access
      BY <2>4 DEF Join, AtTask, TaskOK, HubOK
    <3>3. \A t \in room : task'[t].at \in {"joined", "asked", "serving"}
      <4>1. \A t \in Socket \ {s} : task'[t] = task[t]
        BY <2>4 DEF Join, Goes, TaskOK
      <4> QED
        BY <3>2, <4>1 DEF HubOK
    <3>4. CASE UNCHANGED hub
      BY <2>2, <3>1, <3>3, <3>4, Unmoved
    <3>5. CASE /\ task' = [task EXCEPT ![s].at = "joined"]
               /\ room' = room \cup {s}
               /\ access' = [access EXCEPT ![s] = task[s].access]
               /\ UNCHANGED kicked
      <4>1. task'[s].at = "joined" /\ task[s].access # "none"
        BY <2>4, <3>5 DEF Join, AtTask, TaskOK
      <4> QED
        BY <2>2, <3>1, <3>2, <3>3, <3>5, <4>1 DEF HubOK
    <3> QED
      BY <2>2, <2>4, <3>1, <3>4, <3>5 DEF Join
  <2>5. CASE AskAgain(s)
    <3>1. TaskOK'
      BY <2>1, <2>5 DEF AskAgain, Ends, Goes, AtTask, TaskOK, Access
    <3>2. CASE Ends(s)
      <4>1. kicked' \subseteq Socket /\ \A t \in room \ {s} : task'[t].at \in {"joined", "asked", "serving"}
        BY <3>2 DEF Ends, Goes, TaskOK, HubOK
      <4> QED
        BY <2>2, <3>1, <3>2, <4>1, WithoutHub DEF Ends
    <3>3. CASE Standing(s)
      <4>1. \A t \in room : task'[t].at \in {"joined", "asked", "serving"}
        BY <2>5, <3>3 DEF AskAgain, Goes, TaskOK, HubOK
      <4> QED
        BY <2>2, <2>5, <3>1, <3>3, <4>1, Unmoved DEF AskAgain
    <3> QED
      BY <2>5, <3>2, <3>3 DEF AskAgain
  <2>6. CASE TakeAnswer(s)
    <3>1. TaskOK'
      BY <2>6 DEF TakeAnswer, Goes, TaskOK, Access
    <3>2. \A t \in room : task'[t].at \in {"joined", "asked", "serving"}
      BY <2>6 DEF TakeAnswer, Goes, TaskOK, HubOK
    <3>3. task[s].access \in Access
      BY DEF TaskOK
    <3>4. HubOK'
      BY <2>6, <3>2, <3>3, MembershipHub DEF TakeAnswer
    <3> QED
      BY <2>2, <3>1, <3>4
  <2> QED
    BY <1>5, <2>3, <2>4, <2>5, <2>6
<1>6. ASSUME NEW s \in Socket, Hangup(s) \/ AskFails(s) \/ FallsBehind(s) PROVE TypeOK'
  <2>1. DatabaseOK' /\ WatchOK' /\ happened' \in 0..MaxEvents
    BY <1>6, Counting DEF Hangup, AskFails, FallsBehind, database, watch, DatabaseOK, WatchOK
  <2>2. CASE Ends(s)
    <3>1. TaskOK'
      BY <2>2 DEF Ends, Goes, TaskOK, Access
    <3>2. kicked' \subseteq Socket /\ \A t \in room \ {s} : task'[t].at \in {"joined", "asked", "serving"}
      BY <2>2 DEF Ends, Goes, TaskOK, HubOK
    <3>3. HubOK'
      BY <2>2, <3>2, WithoutHub DEF Ends
    <3> QED
      BY <2>1, <3>1, <3>3
  <2>3. CASE FallsBehind(s)
    <3>1. TaskOK' /\ \A t \in room : task'[t].at \in {"joined", "asked", "serving"}
      BY <2>3 DEF FallsBehind, TaskOK, HubOK
    <3>2. HubOK'
      BY <2>3, <3>1, DropHub DEF FallsBehind
    <3> QED
      BY <2>1, <3>1, <3>2
  <2> QED
    BY <1>6, <2>2, <2>3 DEF Hangup, AskFails
<1>7. CASE Hear
  <2>1. Head(events) \in Event /\ Tail(events) \in Seq(Event)
    BY <1>7, HeadTailProperties DEF Hear, DatabaseOK
  <2>2. HubOK'
    BY <1>7, <2>1, ApplyHub DEF Hear
  <2> QED
    BY <1>7, <2>1, <2>2 DEF Hear, DatabaseOK, TaskOK, WatchOK, watch
<1>8. CASE HearFails \/ Disconnect
  <2>1. events' \in Seq(Event)
    <3>1. CASE HearFails
      BY <3>1, HeadTailProperties DEF HearFails, DatabaseOK
    <3>2. CASE Disconnect
      BY <3>2 DEF Disconnect
    <3> QED
      BY <1>8, <3>1, <3>2
  <2>2. WatchOK'
    <3>1. \A d \in Checker : [check[d] EXCEPT !.fresh = FALSE] \in Check
      BY DEF WatchOK, Check
    <3>2. check' \in [Checker -> Check] /\ unsure' = TRUE
      BY <1>8, <3>1 DEF HearFails, Disconnect, Missing
    <3> QED
      BY <1>8, <3>2 DEF HearFails, Disconnect, WatchOK
  <2>3. TaskOK' /\ HubOK' /\ happened' \in 0..MaxEvents
    BY <1>8, Counting DEF HearFails, Disconnect, TaskOK, HubOK, hub
  <2> QED
    BY <1>8, <2>1, <2>2, <2>3 DEF HearFails, Disconnect, DatabaseOK
<1>9. CASE Reconnect \/ Recheck \/ Tick
  <2>1. \A b \in BOOLEAN : Begun(b) \in Check
    <3>1. {Opened[s] : s \in room} \subseteq Session
      BY DEF HubOK
    <3> QED
      BY <3>1 DEF Begun, NoCheck, NoAccess, Access, Check
  <2>2. WatchOK'
    <3>1. listening \in BOOLEAN /\ check \in [Checker -> Check]
      BY DEF WatchOK
    <3>2. check' \in [Checker -> Check]
      BY <1>9, <2>1, <3>1 DEF Reconnect, Recheck, Tick, Checker
    <3> QED
      BY <1>9, <3>2 DEF Reconnect, Recheck, Tick, WatchOK
  <2> QED
    BY <1>9, <2>2 DEF Reconnect, Recheck, Tick, database, hub, DatabaseOK, TaskOK, HubOK
<1>10. ASSUME NEW c \in Checker, CheckSessions(c) \/ AskMembers(c) \/ CheckRoom(c) PROVE TypeOK'
  <2>1. DatabaseOK' /\ TaskOK' /\ happened' \in 0..MaxEvents
    BY <1>10 DEF CheckSessions, AskMembers, CheckRoom, database, DatabaseOK, TaskOK
  <2>2. \A s \in room : task'[s].at \in {"joined", "asked", "serving"}
    BY <1>10 DEF CheckSessions, AskMembers, CheckRoom, HubOK
  <2>3. CASE CheckSessions(c)
    <3>1. HubOK'
      BY <2>2, <2>3, DropHub DEF CheckSessions, SessionsClosed
    <3>2. {AccountOf(s) : s \in room'} \subseteq Account
      BY <3>1 DEF HubOK, AccountOf
    <3>3. [check[c] EXCEPT !.at = "members", !.of = {AccountOf(s) : s \in room'}] \in Check
      BY <3>2 DEF WatchOK, Check
    <3>4. check' \in [Checker -> Check]
      BY <2>3, <3>3 DEF CheckSessions, WatchOK
    <3>5. WatchOK'
      BY <2>3, <3>4 DEF CheckSessions, WatchOK
    <3> QED
      BY <2>1, <3>1, <3>5
  <2>4. CASE AskMembers(c)
    <3>1. [a \in Account |-> IF a \in check[c].of THEN member[a] ELSE "none"] \in [Account -> Access]
      BY DEF DatabaseOK, Access
    <3>2. WatchOK'
      <4>1. \A f \in [Account -> Access] : [check[c] EXCEPT !.at = "access", !.access = f] \in Check
        BY DEF WatchOK, Check
      <4>2. check' \in [Checker -> Check]
        BY <2>4, <3>1, <4>1 DEF AskMembers, WatchOK
      <4> QED
        BY <2>4, <4>2 DEF AskMembers, WatchOK
    <3>3. HubOK'
      BY <2>2, <2>4, Unmoved DEF AskMembers
    <3> QED
      BY <2>1, <3>2, <3>3
  <2>5. CASE CheckRoom(c)
    <3>1. HubOK'
      BY <2>2, <2>5, DropHub, Unmoved DEF CheckRoom, RoomClosed
    <3>2. NoCheck \in Check
      BY DEF NoCheck, NoAccess, Access, Check
    <3>3. WatchOK'
      BY <2>5, <3>2 DEF CheckRoom, WatchOK, Check
    <3> QED
      BY <2>1, <3>1, <3>3
  <2> QED
    BY <1>10, <2>3, <2>4, <2>5
<1>11. ASSUME NEW c \in Checker, NEW a \in Account, GiveAccess(c, a) PROVE TypeOK'
  <2>1. check[c].access[a] \in Access /\ check[c] \in Check
    BY DEF WatchOK, Check
  <2>2. HubOK'
    BY <1>11, <2>1, MembershipHub DEF GiveAccess, HubOK
  <2>3. WatchOK'
    <3> DEFINE given == [check[c] EXCEPT !.of = @ \ {a}, !.access[a] = "none"]
    <3>1. given \in Check
      BY <2>1 DEF Check, Access
    <3>2. check' = [check EXCEPT ![c] = given]
      BY <1>11, <2>1 DEF GiveAccess, WatchOK, Check
    <3> QED
      BY <1>11, <3>1, <3>2 DEF GiveAccess, WatchOK
  <2> QED
    BY <1>11, <2>2, <2>3 DEF GiveAccess, database, DatabaseOK, TaskOK
<1>12. ASSUME NEW c \in Checker, NEW overdue \in BOOLEAN, CheckFails(c, overdue) PROVE TypeOK'
  <2>1. HubOK'
    BY <1>12, DropHub, Unmoved DEF CheckFails, HubOK
  <2>2. WatchOK'
    BY <1>12 DEF CheckFails, WatchOK, Check, NoCheck, NoAccess, Access
  <2>3. happened' \in 0..MaxEvents
    BY <1>12, Counting DEF CheckFails
  <2> QED
    BY <1>12, <2>1, <2>2, <2>3 DEF CheckFails, database, DatabaseOK, TaskOK
<1> QED
  BY <1>1, <1>2, <1>3, <1>4, <1>5, <1>6, <1>7, <1>8, <1>9, <1>10, <1>11, <1>12, Steps

(* Every variable keeps its type, and the room has no socket whose task is *)
(* over (serve's leave on every way out).                                  *)
THEOREM TypeCorrect == Spec => []TypeOK
<1>1. TypeOK /\ [Next]_vars => TypeOK'
  <2>1. ASSUME TypeOK, UNCHANGED vars PROVE TypeOK'
    BY <2>1 DEF TypeOK, DatabaseOK, TaskOK, HubOK, WatchOK, vars, database, hub, watch
  <2> QED
    BY <2>1, TypeStep
<1> QED
  BY <1>1, TypeInit, PTL DEF Spec

-----------------------------------------------------------------------------
(* Nobody is forgotten: what leaves the room without its task is kicked.   *)
LEMMA DropKeeps ==
  ASSUME NEW gone, Drop(gone)
  PROVE  room \cup kicked \subseteq room' \cup kicked'
BY DEF Drop, Without

LEMMA MembershipKeeps ==
  ASSUME NEW a, NEW given, MembershipChanged(a, given)
  PROVE  room \cup kicked \subseteq room' \cup kicked'
BY DropKeeps DEF MembershipChanged

LEMMA ApplyKeeps ==
  ASSUME NEW e \in Event, Apply(e)
  PROVE  room \cup kicked \subseteq room' \cup kicked'
<1>1. e.kind \in {"membership", "sessions", "deleted", "closed"}
  BY DEF Event
<1> QED
  BY <1>1, DropKeeps, MembershipKeeps DEF Apply, SessionsClosed, RoomClosed, hub

(* No operation but a join moves a task into the room.                     *)
LEMMA ForgottenStep ==
  ASSUME TypeOK, NobodyIsForgotten, Next
  PROVE  NobodyIsForgotten'
<1> DEFINE Inside == {"joined", "asked", "serving"}
<1>0. task \in [Socket -> [at : {"out", "admitted", "joined", "asked", "serving", "left"}, access : Access]]
  BY DEF TypeOK, TaskOK
<1>a. ASSUME \A s \in Socket : task'[s].at \in Inside => task[s].at \in Inside,
             room \cup kicked \subseteq room' \cup kicked'
      PROVE  NobodyIsForgotten'
  BY <1>a DEF NobodyIsForgotten
<1>b. ASSUME UNCHANGED task PROVE \A s \in Socket : task'[s].at \in Inside => task[s].at \in Inside
  BY <1>b
<1>c. ASSUME UNCHANGED hub PROVE room \cup kicked \subseteq room' \cup kicked'
  BY <1>c DEF hub
<1>1. ASSUME NEW es, Changed(es) PROVE NobodyIsForgotten'
  BY <1>1, <1>a, <1>b, <1>c DEF Changed
<1>2. ASSUME NEW s \in Socket, Ends(s) PROVE NobodyIsForgotten'
  <2>1. \A t \in Socket : task'[t].at \in Inside => t # s /\ task[t].at \in Inside
    BY <1>0, <1>2 DEF Ends, Goes
  <2>2. (room \cup kicked) \ {s} \subseteq room' \cup kicked'
    BY <1>2 DEF Ends, Without
  <2> QED
    BY <2>1, <2>2 DEF NobodyIsForgotten
<1>3. ASSUME NEW s \in Socket, Admit(s) PROVE NobodyIsForgotten'
  <2>1. \A t \in Socket : task'[t].at \in Inside => task[t].at \in Inside
    BY <1>0, <1>3 DEF Admit
  <2> QED
    BY <1>3, <1>a, <1>c, <2>1 DEF Admit
<1>4. ASSUME NEW s \in Socket, Join(s) PROVE NobodyIsForgotten'
  <2>1. \A t \in Socket \ {s} : task'[t] = task[t]
    BY <1>0, <1>4 DEF Join, Goes
  <2>2. task'[s].at = "left" \/ s \in room'
    BY <1>0, <1>4 DEF Join, Goes
  <2>3. room \cup kicked \subseteq room' \cup kicked'
    BY <1>4 DEF Join, hub
  <2> QED
    BY <2>1, <2>2, <2>3 DEF NobodyIsForgotten
<1>5. ASSUME NEW s \in Socket, AskAgain(s), Standing(s) PROVE NobodyIsForgotten'
  <2>1. \A t \in Socket : task'[t].at \in Inside => task[t].at \in Inside
    BY <1>0, <1>5 DEF AskAgain, AtTask, Goes
  <2> QED
    BY <1>5, <1>a, <1>c, <2>1 DEF AskAgain
<1>6. ASSUME NEW s \in Socket, TakeAnswer(s) PROVE NobodyIsForgotten'
  <2>1. \A t \in Socket : task'[t].at \in Inside => task[t].at \in Inside
    BY <1>0, <1>6 DEF TakeAnswer, AtTask, Goes
  <2> QED
    BY <1>6, <1>a, <2>1, MembershipKeeps DEF TakeAnswer
<1>7. CASE Hear
  <2>1. Head(events) \in Event
    BY <1>7, HeadTailProperties DEF Hear, TypeOK, DatabaseOK
  <2> QED
    BY <1>7, <1>a, <1>b, <2>1, ApplyKeeps DEF Hear
<1>8. CASE HearFails \/ Disconnect \/ Reconnect \/ Recheck \/ Tick
  BY <1>8, <1>a, <1>b, <1>c DEF HearFails, Disconnect, Reconnect, Recheck, Tick
<1>9. ASSUME NEW c \in Checker, CheckSessions(c) \/ AskMembers(c) \/ CheckRoom(c) PROVE NobodyIsForgotten'
  BY <1>9, <1>a, <1>b, <1>c, DropKeeps DEF CheckSessions, SessionsClosed, AskMembers, CheckRoom, RoomClosed
<1>10. ASSUME NEW c \in Checker, NEW a \in Account, GiveAccess(c, a) PROVE NobodyIsForgotten'
  BY <1>10, <1>a, <1>b, MembershipKeeps DEF GiveAccess
<1>11. ASSUME NEW c \in Checker, NEW overdue \in BOOLEAN, CheckFails(c, overdue) PROVE NobodyIsForgotten'
  BY <1>11, <1>a, <1>b, <1>c, DropKeeps DEF CheckFails
<1>12. ASSUME NEW s \in Socket, FallsBehind(s) PROVE NobodyIsForgotten'
  BY <1>12, <1>a, <1>b, DropKeeps DEF FallsBehind
<1> QED
  BY <1>1, <1>2, <1>3, <1>4, <1>5, <1>6, <1>7, <1>8, <1>9, <1>10, <1>11, <1>12, Steps
     DEF SetAccess, EndSessions, Disable, DeleteItem, AskAgain, Hangup, AskFails

(* A task in the room or on its way into it is in the room or is told to   *)
(* close (every removal of a peer fires its Kick).                         *)
THEOREM NobodyForgotten == Spec => []NobodyIsForgotten
<1>1. Init => NobodyIsForgotten
  BY DEF Init, NobodyIsForgotten
<1>2. TypeOK /\ NobodyIsForgotten /\ [Next]_vars => NobodyIsForgotten'
  <2>1. ASSUME NobodyIsForgotten, UNCHANGED vars PROVE NobodyIsForgotten'
    BY <2>1 DEF NobodyIsForgotten, vars, hub
  <2> QED
    BY <2>1, ForgottenStep
<1> QED
  BY <1>1, <1>2, TypeCorrect, PTL DEF Spec

-----------------------------------------------------------------------------
(* Why nobody stays.  Whoever is in the room and has been checked, and may *)
(* be there no longer, is named by an event that is still to be heard; or  *)
(* events may have been lost, and every check that can make up for them    *)
(* has yet to get to that socket.                                          *)
Serves(s) == s \in room /\ task[s].at \in {"asked", "serving"}

EndsSession(e, s) == e.kind = "sessions" /\ Opened[s] \in e.of

EndsAccess(e, s) ==
  \/ EndsSession(e, s)
  \/ e.kind = "membership" /\ e.account = AccountOf(s) /\ e.access = "none"

EndsRoom(e) == e.kind \in {"deleted", "closed"}

ChecksSession(c, s) == check[c].at = "sessions" /\ Opened[s] \in check[c].of

ChecksAccess(c, s) ==
  \/ check[c].at = "sessions"
  \/ /\ AccountOf(s) \in check[c].of
     /\ \/ check[c].at = "members"
        \/ check[c].at = "access" /\ check[c].access[AccountOf(s)] = "none"

Fresh == {c \in Checker : check[c].fresh}

SessionFollows(s) ==
  Opened[s] \notin standing =>
    \/ \E i \in 1..Len(events) : EndsSession(events[i], s)
    \/ unsure /\ \A c \in Fresh : ChecksSession(c, s)

AccessFollows(s) ==
  member[AccountOf(s)] = "none" =>
    \/ \E i \in 1..Len(events) : EndsAccess(events[i], s)
    \/ unsure /\ \A c \in Fresh : ChecksAccess(c, s)

RoomFollows ==
  ~live => unsure \/ \E i \in 1..Len(events) : EndsRoom(events[i])

Follows(s) == SessionFollows(s) /\ AccessFollows(s) /\ RoomFollows

(* No check makes up for what is lost after it began.                      *)
Hears == (~listening => unsure) /\ (Fresh # {} => listening)

StayInv == Hears /\ \A s \in Socket : Serves(s) => Follows(s)

(* With nothing lost and nothing still to be heard, that is the property.  *)
LEMMA StayImplies == ASSUME TypeOK, StayInv PROVE NobodyStays
<1> SUFFICES ASSUME Caught, NEW s \in room, task[s].at \in {"asked", "serving"} PROVE Standing(s)
  BY DEF NobodyStays
<1>1. Follows(s)
  BY DEF StayInv, Serves, TypeOK, HubOK
<1>2. 1..Len(events) = {} /\ ~unsure
  BY DEF Caught
<1>3. Opened[s] \in standing /\ member[AccountOf(s)] # "none"
  BY <1>1, <1>2 DEF Follows, SessionFollows, AccessFollows
<1>4. live
  BY <1>1, <1>2 DEF Follows, RoomFollows
<1> QED
  BY <1>3, <1>4 DEF Standing

-----------------------------------------------------------------------------
(* Once something is lost and no check began since, all is to be checked.  *)
LEMMA AllUnsure ==
  ASSUME unsure' = TRUE, Fresh' = {}
  PROVE  StayInv'
BY DEF StayInv, Hears, Follows, SessionFollows, AccessFollows, RoomFollows

(* A change: what is still to be heard stays so, and what it takes away is *)
(* named by its own event.                                                 *)
LEMMA Published ==
  ASSUME TypeOK, StayInv, NEW es \in Seq(Event), es # <<>>, Changed(es),
         \A s \in Socket : Opened[s] \in standing \ standing' => EndsSession(es[1], s),
         \A s \in Socket : member[AccountOf(s)] # "none" /\ member'[AccountOf(s)] = "none" =>
           EndsAccess(es[1], s),
         live /\ ~live' => EndsRoom(es[1])
  PROVE  StayInv'
<1>1. Fresh' = Fresh /\ listening' = listening /\ unsure' = (unsure \/ ~listening)
  BY DEF Changed, Fresh
<1>2. CASE ~listening
  BY <1>1, <1>2, AllUnsure DEF StayInv, Hears
<1>3. CASE listening
  <2>1. events' = events \o es /\ unsure' = unsure
    BY <1>3 DEF Changed, TypeOK, WatchOK
  <2>2. events \in Seq(Event) /\ Len(events) \in Nat /\ Len(es) \in Nat \ {0}
    BY LenProperties, EmptySeq DEF TypeOK, DatabaseOK
  <2>3. \A i \in 1..Len(events) : i \in 1..Len(events') /\ events'[i] = events[i]
    BY <2>1, <2>2, ConcatProperties
  <2>4. Len(events) + 1 \in 1..Len(events') /\ events'[Len(events) + 1] = es[1]
    BY <2>1, <2>2, ConcatProperties, EmptySeq
  <2>5. Hears'
    BY <1>1, <2>1 DEF StayInv, Hears
  <2>6. ASSUME NEW s \in Socket, Serves(s)' PROVE Follows(s)'
    <3>1. Follows(s)
      BY <2>6 DEF StayInv, Serves, Changed, hub
    <3>2. \A c \in Fresh : ChecksSession(c, s)' = ChecksSession(c, s) /\ ChecksAccess(c, s)' = ChecksAccess(c, s)
      BY DEF Changed, ChecksSession, ChecksAccess
    <3>3. SessionFollows(s)'
      BY <1>1, <2>1, <2>3, <2>4, <3>1, <3>2 DEF Follows, SessionFollows, EndsSession
    <3>4. AccessFollows(s)'
      <4>1. AccountOf(s)' = AccountOf(s)
        BY DEF AccountOf
      <4> QED
        BY <1>1, <2>1, <2>3, <2>4, <3>1, <3>2, <4>1 DEF Follows, AccessFollows, EndsAccess, EndsSession
    <3>5. RoomFollows'
      BY <1>1, <2>1, <2>3, <2>4, <3>1 DEF Follows, RoomFollows, EndsRoom
    <3> QED
      BY <3>3, <3>4, <3>5 DEF Follows
  <2> QED
    BY <2>5, <2>6 DEF StayInv
<1> QED
  BY <1>2, <1>3

(* A step of sockets only: nobody new is served who may not be.            *)
LEMMA SocketsOnly ==
  ASSUME StayInv, UNCHANGED <<database, watch>>,
         \A s \in Socket : Serves(s)' => Serves(s) \/ Standing(s)
  PROVE  StayInv'
<1>1. Hears'
  BY DEF StayInv, Hears, Fresh, watch
<1>2. ASSUME NEW s \in Socket, Serves(s)' PROVE Follows(s)'
  <2>1. Follows(s)' <=> Follows(s)
    BY DEF database, watch, Follows, SessionFollows, AccessFollows, RoomFollows, Fresh, ChecksSession, ChecksAccess
  <2>2. CASE Standing(s)
    BY <2>1, <2>2 DEF Standing, Follows, SessionFollows, AccessFollows, RoomFollows
  <2>3. CASE Serves(s)
    BY <2>1, <2>3 DEF StayInv
  <2> QED
    BY <1>2, <2>2, <2>3
<1> QED
  BY <1>1, <1>2 DEF StayInv

(* Who is left of a set of peers the hub dropped.                          *)
LEMMA DropServes ==
  ASSUME NEW gone, Drop(gone), UNCHANGED task, NEW s, Serves(s)'
  PROVE  Serves(s) /\ s \notin gone
BY DEF Drop, Without, Serves

LEMMA MembershipServes ==
  ASSUME NEW a, NEW given, MembershipChanged(a, given), UNCHANGED task, NEW s, Serves(s)'
  PROVE  Serves(s) /\ ~(given = "none" /\ AccountOf(s) = a)
<1>1. CASE given = "none"
  <2>1. Drop({t \in room : AccountOf(t) = a})
    BY <1>1 DEF MembershipChanged
  <2> QED
    BY <2>1, DropServes DEF Serves
<1>2. CASE given # "none"
  BY <1>2 DEF MembershipChanged, Serves
<1> QED
  BY <1>1, <1>2

(* What is heard is done: whoever it named is out.                         *)
LEMMA HeardServes ==
  ASSUME Hear, NEW e \in Event, Apply(e), NEW s, Serves(s)'
  PROVE  Serves(s) /\ ~EndsAccess(e, s) /\ ~(~live /\ EndsRoom(e))
<1>1. UNCHANGED task
  BY DEF Hear
<1>2. CASE e.kind = "membership"
  <2>1. MembershipChanged(e.account, e.access)
    BY <1>2 DEF Apply
  <2> QED
    BY <1>1, <1>2, <2>1, MembershipServes DEF EndsAccess, EndsSession, EndsRoom
<1>3. CASE e.kind = "sessions"
  <2>1. Drop({t \in room : Opened[t] \in e.of})
    BY <1>3 DEF Apply, SessionsClosed
  <2> QED
    BY <1>1, <1>3, <2>1, DropServes DEF EndsAccess, EndsSession, EndsRoom, Serves
<1>4. CASE e.kind \in {"deleted", "closed"}
  <2>1. CASE Drop(room)
    <3>1. Serves(s) /\ s \notin room
      BY <1>1, <2>1, DropServes
    <3> QED
      BY <3>1 DEF Serves
  <2>2. CASE live /\ UNCHANGED hub
    BY <1>1, <1>4, <2>2 DEF EndsAccess, EndsSession, Serves, hub
  <2> QED
    BY <1>4, <2>1, <2>2 DEF Apply, RoomClosed
<1> QED
  BY <1>2, <1>3, <1>4 DEF Event

LEMMA HearStay ==
  ASSUME TypeOK, StayInv, Hear
  PROVE  StayInv'
<1>1. Head(events) \in Event /\ Len(events) \in Nat /\ Len(events') = Len(events) - 1
      /\ \A i \in 1..Len(events') : events'[i] = events[i + 1]
  BY HeadTailProperties, LenProperties DEF Hear, TypeOK, DatabaseOK
<1>2. Head(events) = events[1]
  BY DEF Hear, TypeOK, DatabaseOK
<1>3. \A i \in 1..Len(events) : i = 1 \/ (i - 1 \in 1..Len(events') /\ events'[i - 1] = events[i])
  BY <1>1
<1>4. Hears' /\ Fresh' = Fresh /\ unsure' = unsure
  BY DEF StayInv, Hears, Hear, watch, Fresh
<1>5. ASSUME NEW s \in Socket, Serves(s)' PROVE Follows(s)'
  <2>1. Serves(s) /\ ~EndsAccess(events[1], s) /\ ~(~live /\ EndsRoom(events[1]))
    BY <1>1, <1>2, <1>5, HeardServes DEF Hear
  <2>2. Follows(s)
    BY <2>1 DEF StayInv
  <2>3. \A c \in Fresh : ChecksSession(c, s)' = ChecksSession(c, s) /\ ChecksAccess(c, s)' = ChecksAccess(c, s)
    BY DEF Hear, watch, ChecksSession, ChecksAccess
  <2>4. standing' = standing /\ member' = member /\ live' = live
    BY DEF Hear
  <2>5. SessionFollows(s)'
    BY <1>3, <1>4, <2>1, <2>2, <2>3, <2>4 DEF Follows, SessionFollows, EndsSession, EndsAccess
  <2>6. AccessFollows(s)'
    <3>1. AccountOf(s)' = AccountOf(s)
      BY DEF AccountOf
    <3> QED
      BY <1>3, <1>4, <2>1, <2>2, <2>3, <2>4, <3>1 DEF Follows, AccessFollows, EndsSession, EndsAccess
  <2>7. RoomFollows'
    BY <1>3, <1>4, <2>1, <2>2, <2>4 DEF Follows, RoomFollows, EndsRoom
  <2> QED
    BY <2>5, <2>6, <2>7 DEF Follows
<1> QED
  BY <1>4, <1>5 DEF StayInv

LEMMA LossStay ==
  ASSUME TypeOK, HearFails \/ Disconnect
  PROVE  StayInv'
<1>1. unsure' = TRUE /\ \A c \in Checker : ~check'[c].fresh
  <2>1. \A c \in Checker : check[c] \in Check
    BY DEF TypeOK, WatchOK
  <2> QED
    BY <2>1 DEF HearFails, Disconnect, Missing, Check
<1>2. Fresh' = {}
  BY <1>1 DEF Fresh
<1> QED
  BY <1>1, <1>2, AllUnsure

(* A check that begins finds every socket in the room.                     *)
LEMMA BeginStay ==
  ASSUME TypeOK, StayInv, NEW c \in Checker, NEW l \in BOOLEAN,
         check' = [check EXCEPT ![c] = Begun(l)], UNCHANGED <<database, hub, task, unsure>>,
         l => listening', listening => listening', ~listening' => ~listening
  PROVE  StayInv'
<1>1. check \in [Checker -> Check]
  BY DEF TypeOK, WatchOK
<1>2. /\ check'[c].at = "sessions" /\ check'[c].of = {Opened[s] : s \in room} /\ check'[c].fresh = l
      /\ \A d \in Checker \ {c} : check'[d] = check[d]
  BY <1>1 DEF Begun, NoCheck
<1>3. Hears'
  BY <1>2 DEF StayInv, Hears, Fresh
<1>4. ASSUME NEW s \in Socket, Serves(s)' PROVE Follows(s)'
  <2>1. Serves(s) /\ Follows(s)
    BY <1>4 DEF StayInv, Serves, hub
  <2>2. ChecksSession(c, s)' /\ ChecksAccess(c, s)'
    BY <1>2, <2>1 DEF ChecksSession, ChecksAccess, Serves
  <2>3. \A d \in Checker \ {c} : /\ ChecksSession(d, s)' = ChecksSession(d, s)
                                 /\ ChecksAccess(d, s)' = ChecksAccess(d, s)
                                 /\ d \in Fresh' <=> d \in Fresh
    BY <1>2 DEF ChecksSession, ChecksAccess, Fresh
  <2>4. Fresh' \subseteq Fresh \cup {c} /\ Fresh' \subseteq Checker
    BY <2>3 DEF Fresh
  <2>5. SessionFollows(s)'
    BY <2>1, <2>2, <2>3, <2>4 DEF Follows, SessionFollows, database
  <2>6. AccessFollows(s)'
    BY <2>1, <2>2, <2>3, <2>4 DEF Follows, AccessFollows, AccountOf, database
  <2>7. RoomFollows'
    BY <2>1 DEF Follows, RoomFollows, database
  <2> QED
    BY <2>5, <2>6, <2>7 DEF Follows
<1> QED
  BY <1>3, <1>4 DEF StayInv

(* A check goes on: it says no less of a socket that is still served, and  *)
(* the other checks say the same.                                          *)
LEMMA CheckStay ==
  ASSUME StayInv, NEW c \in Checker, UNCHANGED <<database, task, listening>>,
         \A d \in Checker \ {c} : check'[d] = check[d],
         check'[c].fresh => check[c].fresh,
         unsure' # unsure => check[c].fresh,
         \A s \in Socket : Serves(s)' =>
           /\ Serves(s)
           /\ unsure' # unsure => live /\ ~ChecksSession(c, s) /\ ~ChecksAccess(c, s)
           /\ check'[c].fresh /\ Opened[s] \notin standing /\ ChecksSession(c, s) => ChecksSession(c, s)'
           /\ check'[c].fresh /\ member[AccountOf(s)] = "none" /\ ChecksAccess(c, s) => ChecksAccess(c, s)'
  PROVE  StayInv'
<1>1. Fresh' \subseteq Fresh
  <2>1. ASSUME NEW d \in Checker, check'[d].fresh PROVE check[d].fresh
    BY <2>1
  <2> QED
    BY <2>1 DEF Fresh
<1>2. unsure' # unsure => c \in Fresh
  BY DEF Fresh
<1>3. Hears'
  BY <1>1, <1>2 DEF StayInv, Hears
<1>4. ASSUME NEW s \in Socket, Serves(s)' PROVE Follows(s)'
  <2>1. Follows(s)
    BY <1>4 DEF StayInv
  <2>2. \A d \in Checker \ {c} : /\ ChecksSession(d, s)' = ChecksSession(d, s)
                                 /\ ChecksAccess(d, s)' = ChecksAccess(d, s)
    BY DEF ChecksSession, ChecksAccess
  <2>3. \A d \in Fresh' : d \in Checker /\ check'[d].fresh
    BY DEF Fresh
  <2>4. SessionFollows(s)'
    BY <1>1, <1>2, <1>4, <2>1, <2>2, <2>3 DEF Follows, SessionFollows, database
  <2>5. AccessFollows(s)'
    <3>1. AccountOf(s)' = AccountOf(s)
      BY DEF AccountOf
    <3> QED
      BY <1>1, <1>2, <1>4, <2>1, <2>2, <2>3, <3>1 DEF Follows, AccessFollows, database
  <2>6. RoomFollows'
    BY <1>4, <2>1 DEF Follows, RoomFollows, database
  <2> QED
    BY <2>4, <2>5, <2>6 DEF Follows
<1> QED
  BY <1>3, <1>4 DEF StayInv

LEMMA CheckSessionsStay ==
  ASSUME TypeOK, StayInv, NEW c \in Checker, CheckSessions(c)
  PROVE  StayInv'
<1>1. check \in [Checker -> Check]
  BY DEF TypeOK, WatchOK
<1>2. /\ check'[c].at = "members" /\ check'[c].of = {AccountOf(s) : s \in room'}
      /\ check'[c].fresh = check[c].fresh /\ \A d \in Checker \ {c} : check'[d] = check[d]
  BY <1>1 DEF CheckSessions, Check
<1>3. ASSUME NEW s \in Socket, Serves(s)'
      PROVE  /\ Serves(s) /\ ~(Opened[s] \notin standing /\ ChecksSession(c, s))
             /\ ChecksAccess(c, s)'
  <2>1. Serves(s) /\ s \notin {t \in room : Opened[t] \in check[c].of \ standing}
    BY <1>3, DropServes DEF CheckSessions, SessionsClosed
  <2>2. AccountOf(s) \in check'[c].of
    BY <1>2, <1>3 DEF Serves
  <2> QED
    BY <1>2, <2>1, <2>2 DEF Serves, ChecksSession, ChecksAccess, AccountOf
<1> QED
  BY <1>2, <1>3, CheckStay DEF CheckSessions

LEMMA AskMembersStay ==
  ASSUME TypeOK, StayInv, NEW c \in Checker, AskMembers(c)
  PROVE  StayInv'
<1>1. check \in [Checker -> Check]
  BY DEF TypeOK, WatchOK
<1>2. /\ check[c].at = "members" /\ check'[c].at = "access" /\ check'[c].of = check[c].of
      /\ check'[c].access = [a \in Account |-> IF a \in check[c].of THEN member[a] ELSE "none"]
      /\ check'[c].fresh = check[c].fresh /\ \A d \in Checker \ {c} : check'[d] = check[d]
  BY <1>1 DEF AskMembers, Check
<1>3. ASSUME NEW s \in Socket, Serves(s)'
      PROVE  /\ Serves(s) /\ ~ChecksSession(c, s)
             /\ member[AccountOf(s)] = "none" /\ ChecksAccess(c, s) => ChecksAccess(c, s)'
  <2>1. Serves(s)
    BY <1>3 DEF AskMembers, Serves, hub
  <2>2. AccountOf(s) \in Account /\ AccountOf(s)' = AccountOf(s)
    BY DEF AccountOf
  <2> QED
    BY <1>2, <2>1, <2>2 DEF ChecksSession, ChecksAccess
<1>4. UNCHANGED <<database, task, listening, unsure>>
  BY DEF AskMembers
<1> QED
  BY <1>2, <1>3, <1>4, CheckStay

LEMMA GiveAccessStay ==
  ASSUME TypeOK, StayInv, NEW c \in Checker, NEW a \in Account, GiveAccess(c, a)
  PROVE  StayInv'
<1>1. check \in [Checker -> Check]
  BY DEF TypeOK, WatchOK
<1>2. /\ check[c].at = "access" /\ check'[c].at = "access" /\ check'[c].of = check[c].of \ {a}
      /\ \A b \in Account \ {a} : check'[c].access[b] = check[c].access[b]
      /\ check'[c].fresh = check[c].fresh /\ \A d \in Checker \ {c} : check'[d] = check[d]
  BY <1>1 DEF GiveAccess, Check
<1>3. ASSUME NEW s \in Socket, Serves(s)'
      PROVE  /\ Serves(s) /\ ~ChecksSession(c, s)
             /\ ChecksAccess(c, s) => ChecksAccess(c, s)'
  <2>1. Serves(s) /\ ~(check[c].access[a] = "none" /\ AccountOf(s) = a)
    BY <1>3, MembershipServes DEF GiveAccess
  <2>2. AccountOf(s) \in Account /\ AccountOf(s)' = AccountOf(s)
    BY DEF AccountOf
  <2> QED
    BY <1>2, <2>1, <2>2 DEF ChecksSession, ChecksAccess
<1>4. UNCHANGED <<database, task, listening, unsure>>
  BY DEF GiveAccess
<1> QED
  BY <1>2, <1>3, <1>4, CheckStay

LEMMA CheckRoomStay ==
  ASSUME TypeOK, StayInv, NEW c \in Checker, CheckRoom(c)
  PROVE  StayInv'
<1>1. check \in [Checker -> Check] /\ unsure \in BOOLEAN
  BY DEF TypeOK, WatchOK
<1>2. /\ check[c].at = "access" /\ check[c].of = {} /\ ~check'[c].fresh
      /\ \A d \in Checker \ {c} : check'[d] = check[d]
  BY <1>1 DEF CheckRoom, NoCheck
<1>3. ASSUME NEW s \in Socket, Serves(s)'
      PROVE  Serves(s) /\ live /\ ~ChecksSession(c, s) /\ ~ChecksAccess(c, s)
  <2>1. CASE live
    BY <1>2, <1>3, <2>1 DEF CheckRoom, Serves, hub, ChecksSession, ChecksAccess
  <2>2. CASE ~live
    <3>1. Serves(s) /\ s \notin room
      BY <1>3, <2>2, DropServes DEF CheckRoom, RoomClosed
    <3> QED
      BY <3>1 DEF Serves
  <2> QED
    BY <2>1, <2>2
<1>4. UNCHANGED <<database, task, listening>> /\ unsure' = (unsure /\ ~check[c].fresh)
  BY DEF CheckRoom
<1>5. unsure' # unsure => check[c].fresh
  BY <1>1, <1>4
<1> QED
  BY <1>2, <1>3, <1>4, <1>5, CheckStay

LEMMA CheckFailsStay ==
  ASSUME TypeOK, StayInv, NEW c \in Checker, NEW overdue \in BOOLEAN, CheckFails(c, overdue)
  PROVE  StayInv'
<1>1. check \in [Checker -> Check]
  BY DEF TypeOK, WatchOK
<1>2. ~check'[c].fresh /\ \A d \in Checker \ {c} : check'[d] = check[d]
  BY <1>1 DEF CheckFails, NoCheck
<1>3. ASSUME NEW s \in Socket, Serves(s)' PROVE Serves(s)
  <2>1. CASE overdue
    BY <1>3, <2>1, DropServes DEF CheckFails
  <2>2. CASE ~overdue
    BY <1>3, <2>2 DEF CheckFails, Serves, hub
  <2> QED
    BY <2>1, <2>2
<1>4. UNCHANGED <<database, task, listening, unsure>>
  BY DEF CheckFails
<1> QED
  BY <1>2, <1>3, <1>4, CheckStay

-----------------------------------------------------------------------------
LEMMA ChangeStay ==
  ASSUME TypeOK, StayInv,
         \/ \E a \in Account, given \in Access : SetAccess(a, given)
         \/ \E xs : EndSessions(xs)
         \/ \E a \in Account : Disable(a)
         \/ \E all \in BOOLEAN : DeleteItem(all)
  PROVE  StayInv'
<1>0. \A s \in Socket : Opened[s] \in Session /\ AccountOf(s) \in Account
  BY DEF AccountOf
<1>1. ASSUME NEW a \in Account, NEW given \in Access, SetAccess(a, given) PROVE StayInv'
  <2> DEFINE e == [kind |-> "membership", account |-> a, access |-> given]
  <2>1. <<e>> \in Seq(Event) /\ <<e>> # <<>> /\ <<e>>[1] = e
    BY DEF Event
  <2>2. \A s \in Socket : member[AccountOf(s)] # "none" /\ member'[AccountOf(s)] = "none" =>
          EndsAccess(<<e>>[1], s)
    BY <1>0, <1>1, <2>1 DEF SetAccess, EndsAccess, TypeOK, DatabaseOK
  <2>3. standing' = standing /\ live' = live /\ Changed(<<e>>)
    BY <1>1 DEF SetAccess
  <2> QED
    BY <2>1, <2>2, <2>3, Published
<1>2. ASSUME NEW xs, EndSessions(xs) PROVE StayInv'
  <2> DEFINE e == [kind |-> "sessions", of |-> xs]
  <2>1. <<e>> \in Seq(Event) /\ <<e>> # <<>> /\ <<e>>[1] = e
    BY <1>2 DEF Event, EndSessions, TypeOK, DatabaseOK
  <2>2. \A s \in Socket : Opened[s] \in standing \ standing' => EndsSession(<<e>>[1], s)
    BY <1>2, <2>1 DEF EndSessions, EndsSession
  <2>3. member' = member /\ live' = live /\ Changed(<<e>>)
    BY <1>2 DEF EndSessions
  <2> QED
    BY <2>1, <2>2, <2>3, Published
<1>3. ASSUME NEW a \in Account, Disable(a) PROVE StayInv'
  <2> DEFINE e == [kind |-> "sessions", of |-> {x \in Session : Holder[x] = a}]
  <2>1. <<e>> \in Seq(Event) /\ <<e>> # <<>> /\ <<e>>[1] = e
    BY DEF Event
  <2>2. \A s \in Socket : AccountOf(s) = a => EndsSession(<<e>>[1], s)
    BY <1>0, <2>1 DEF EndsSession, AccountOf
  <2>3. \A s \in Socket : Opened[s] \in standing \ standing' => AccountOf(s) = a
    BY <1>3 DEF Disable, AccountOf
  <2>4. \A s \in Socket : member[AccountOf(s)] # "none" /\ member'[AccountOf(s)] = "none" => AccountOf(s) = a
    BY <1>0, <1>3 DEF Disable, TypeOK, DatabaseOK
  <2>5. live' = live /\ Changed(<<e>>)
    BY <1>3 DEF Disable
  <2> QED
    BY <2>1, <2>2, <2>3, <2>4, <2>5, Published DEF EndsAccess
<1>4. ASSUME NEW all \in BOOLEAN, DeleteItem(all) PROVE StayInv'
  <2> DEFINE es == IF all THEN <<[kind |-> "deleted"], [kind |-> "closed"]>> ELSE <<[kind |-> "deleted"]>>
  <2>1. es \in Seq(Event) /\ es # <<>> /\ EndsRoom(es[1])
    <3>1. [kind |-> "deleted"] \in Event /\ [kind |-> "closed"] \in Event
      BY DEF Event
    <3>2. es \in Seq(Event) /\ es # <<>> /\ es[1] = [kind |-> "deleted"]
      BY <3>1
    <3> QED
      BY <3>2 DEF EndsRoom
  <2>2. standing' = standing /\ member' = member /\ Changed(es)
    BY <1>4 DEF DeleteItem
  <2> QED
    BY <2>1, <2>2, Published
<1> QED
  BY <1>1, <1>2, <1>3, <1>4

LEMMA SocketStay ==
  ASSUME TypeOK, StayInv, NEW s \in Socket,
         \/ Admit(s) \/ Join(s) \/ AskAgain(s) \/ TakeAnswer(s)
         \/ Hangup(s) \/ AskFails(s) \/ FallsBehind(s)
  PROVE  StayInv'
<1>0. /\ task \in [Socket -> [at : {"out", "admitted", "joined", "asked", "serving", "left"}, access : Access]]
      /\ \A t \in room : task[t].at \in {"joined", "asked", "serving"}
  BY DEF TypeOK, TaskOK, HubOK
<1>1. UNCHANGED <<database, watch>>
  BY DEF Admit, Join, AskAgain, TakeAnswer, Hangup, AskFails, FallsBehind
<1>2. ASSUME NEW t \in Socket, Serves(t)' PROVE Serves(t) \/ Standing(t)
  <2>1. CASE Admit(s)
    BY <1>0, <1>2, <2>1 DEF Admit, AtTask, Serves, hub
  <2>2. CASE Join(s)
    BY <1>0, <1>2, <2>2 DEF Join, AtTask, Goes, Serves, hub
  <2>3. CASE Ends(s)
    BY <1>0, <1>2, <2>3 DEF Ends, Goes, Without, Serves
  <2>4. CASE AskAgain(s) /\ Standing(s)
    BY <1>0, <1>2, <2>4 DEF AskAgain, Goes, Serves, hub
  <2>5. CASE TakeAnswer(s)
    <3>1. \A u \in Socket : task'[u].at \in {"asked", "serving"} => task[u].at \in {"asked", "serving"}
      BY <1>0, <2>5 DEF TakeAnswer, AtTask, Goes
    <3>2. room' \subseteq room
      BY <2>5 DEF TakeAnswer, MembershipChanged, Drop, Without
    <3> QED
      BY <1>2, <3>1, <3>2 DEF Serves
  <2>6. CASE FallsBehind(s)
    BY <1>2, <2>6, DropServes DEF FallsBehind
  <2> QED
    BY <2>1, <2>2, <2>3, <2>4, <2>5, <2>6 DEF AskAgain, Hangup, AskFails
<1> QED
  BY <1>1, <1>2, SocketsOnly

LEMMA StayStep ==
  ASSUME TypeOK, StayInv, Next
  PROVE  StayInv'
<1>1. CASE Reconnect \/ Recheck \/ Tick
  <2>1. listening \in BOOLEAN /\ "listener" \in Checker /\ "periodic" \in Checker
    BY DEF TypeOK, WatchOK, Checker
  <2>2. CASE Reconnect
    BY <2>1, <2>2, BeginStay DEF Reconnect
  <2>3. CASE Recheck
    BY <2>1, <2>3, BeginStay DEF Recheck
  <2>4. CASE Tick
    BY <2>1, <2>4, BeginStay DEF Tick
  <2> QED
    BY <1>1, <2>2, <2>3, <2>4
<1> QED
  BY <1>1, Steps, ChangeStay, SocketStay, HearStay, LossStay, CheckSessionsStay, AskMembersStay,
     GiveAccessStay, CheckRoomStay, CheckFailsStay

(* Once everything is heard or checked for, nobody is in the room who may  *)
(* not be there (serve's second check, the listener's order, revalidate).  *)
THEOREM NobodyStaysOn == Spec => []NobodyStays
<1>1. Init => StayInv
  BY DEF Init, StayInv, Hears, Fresh, NoCheck, Serves
<1>2. TypeOK /\ StayInv /\ [Next]_vars => StayInv'
  <2>1. ASSUME StayInv, UNCHANGED vars PROVE StayInv'
    <3>1. UNCHANGED <<database, watch>> /\ \A s \in Socket : Serves(s)' => Serves(s)
      BY <2>1 DEF vars, hub, Serves
    <3> QED
      BY <2>1, <3>1, SocketsOnly
  <2> QED
    BY <2>1, StayStep
<1> QED
  BY <1>1, <1>2, TypeCorrect, StayImplies, PTL DEF Spec
=============================================================================
