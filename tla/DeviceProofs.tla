---------------------------- MODULE DeviceProofs ----------------------------
(***************************************************************************)
(* What is proved of a device: of its rows and its cursors (DeviceRows),   *)
(* of its notebook (Notebook), and of an interrupted update of the app     *)
(* (UpdateRecovery).  SharingProofs has what it shares.                    *)
(* The four share nothing.                                                 *)
(***************************************************************************)
EXTENDS DeviceRows, Notebook, UpdateRecovery, FoldTheorems, SequenceTheorems
-----------------------------------------------------------------------------
(***************************************************************************)
(* AccountCursorBehind, for any number of devices, whatever the users do   *)
(* and whatever fails.                                                     *)
(*                                                                         *)
(* The account's cursor becomes the counter as a sync's first request saw  *)
(* it, many steps earlier.  So the invariant follows that number through   *)
(* the sync: for each space, up to it, either the pull is still to come,   *)
(* or the space's cursor has it, or something remembers that it has not    *)
(* (the sync is incomplete, items were refused, the space is held).  Other *)
(* devices and the server only add changes with greater numbers.           *)
(***************************************************************************)
(* Where an item of space s that can be pulled and has a number up to n    *)
(* has one up to c.                                                        *)
Upto(it, cl, n, s, c) ==
  (s = "share" => ~cl) =>
    \A u \in DOMAIN it : it[u].space = s /\ it[u].num <= n => it[u].num <= c

(* The server's numbers: none is above its space's last or the counter.    *)
Numbered(it, co, la) ==
  /\ co \in Nat
  /\ la \in [Home -> Nat]
  /\ \A s \in Home : la[s] <= co
  /\ it \in Seq(Range(it))
  /\ \A u \in DOMAIN it :
       it[u].space \in Home /\ it[u].num \in Nat /\ it[u].num <= la[it[u].space]

(* The server only adds changes above its counter.                         *)
Grown(it, cl, co, it2, cl2, co2) ==
  /\ co \in Nat /\ co2 \in Nat /\ co <= co2
  /\ cl => cl2
  /\ \A u \in DOMAIN it2 : it2[u].num \in Nat
  /\ \A u \in DOMAIN it2 :
       \/ u \in DOMAIN it /\ it2[u].space = it[u].space /\ it2[u].num = it[u].num
       \/ it2[u].num > co

StillAhead(sy, s) ==
  \/ s = "vault" /\ sy.at = <<"pull", "vault">>
  \/ s = "share" /\ sy.at \in {<<"pull", "vault">>, <<"pull", "share">>} /\ sy.share = "changed"

(* Refused items are kept until they are settled.                          *)
Retries(sy, s) ==
  sy.at = <<"settle", "all">> \/ (s = "vault" /\ sy.at = <<"pull", "share">>)

(* What holds of a device with cursors cu and ac, holds he, and sync sy.   *)
Sound(it, cl, co, cu, ac, he, sy) ==
  /\ cu \in [Home -> Nat]
  /\ ac \in Int /\ ac <= co
  /\ he \in [Home -> Nat]
  /\ DOMAIN sy = {"at", "share", "stoken", "open", "complete", "refused", "reached", "push"}
  /\ DOMAIN sy.refused = Home
  /\ sy.reached \in [Home -> Nat]
  /\ sy.stoken \in Nat /\ sy.stoken <= co
  /\ sy.complete \in BOOLEAN
  /\ \A s \in Home : Upto(it, cl, ac, s, cu[s])
  /\ \A s \in Home : sy.refused[s] # <<>> =>
       /\ Retries(sy, s)
       /\ cu[s] <= sy.reached[s] /\ Upto(it, cl, sy.stoken, s, sy.reached[s])
  /\ \A s \in Home : sy.at # <<"idle", "all">> =>
       \/ StillAhead(sy, s)
       \/ Upto(it, cl, sy.stoken, s, cu[s])
       \/ sy.complete = FALSE
       \/ sy.refused[s] # <<>>
       \/ he[s] > 0

Domains == DOMAIN cur = Device /\ DOMAIN acur = Device /\ DOMAIN held = Device /\ DOMAIN sync = Device

CursorInv ==
  /\ Domains
  /\ Numbered(items, newest, last)
  /\ \A d \in Device : Sound(items, closed, newest, cur[d], acur[d], held[d], sync[d])

-----------------------------------------------------------------------------
(* An unchanged server has grown by nothing.                               *)
LEMMA StillGrown ==
  ASSUME Numbered(items, newest, last), UNCHANGED server
  PROVE  /\ Numbered(items', newest', last')
         /\ Grown(items, closed, newest, items', closed', newest')
  BY DEF Numbered, Grown, server

LEMMA UptoStable ==
  ASSUME NEW it, NEW cl, NEW co, NEW it2, NEW cl2, NEW co2, NEW la,
         Numbered(it, co, la), Grown(it, cl, co, it2, cl2, co2),
         NEW n \in Int, n <= co, NEW s, NEW c, Upto(it, cl, n, s, c)
  PROVE  Upto(it2, cl2, n, s, c)
  BY DEF Upto, Grown, Numbered

LEMMA SoundStable ==
  ASSUME NEW it, NEW cl, NEW co, NEW it2, NEW cl2, NEW co2, NEW la,
         Numbered(it, co, la), Grown(it, cl, co, it2, cl2, co2),
         NEW cu, NEW ac, NEW he, NEW sy, Sound(it, cl, co, cu, ac, he, sy)
  PROVE  Sound(it2, cl2, co2, cu, ac, he, sy)
<1>1. co \in Nat /\ co2 \in Nat /\ co <= co2
  BY DEF Grown
<1>2. ac \in Int /\ ac <= co /\ sy.stoken \in Int /\ sy.stoken <= co
  BY DEF Sound
<1>3. \A s \in Home : Upto(it2, cl2, ac, s, cu[s])
  BY <1>2, UptoStable DEF Sound
<1>4. \A s \in Home : sy.refused[s] # <<>> =>
        Retries(sy, s) /\ cu[s] <= sy.reached[s] /\ Upto(it2, cl2, sy.stoken, s, sy.reached[s])
  BY <1>2, UptoStable DEF Sound
<1>5. \A s \in Home : Upto(it, cl, sy.stoken, s, cu[s]) => Upto(it2, cl2, sy.stoken, s, cu[s])
  BY <1>2, UptoStable
<1>6. ac <= co2 /\ sy.stoken <= co2
  BY <1>1, <1>2
<1> QED
  BY <1>3, <1>4, <1>5, <1>6 DEF Sound

(* A step of one device is sound for it on the server as it was: then all  *)
(* is sound on the server as it is.                                        *)
LEMMA Frame ==
  ASSUME CursorInv, NEW d \in Device, Domains',
         Numbered(items', newest', last'),
         Grown(items, closed, newest, items', closed', newest'),
         \A e \in Device \ {d} : cur'[e] = cur[e] /\ acur'[e] = acur[e]
                                 /\ held'[e] = held[e] /\ sync'[e] = sync[e],
         Sound(items, closed, newest, cur'[d], acur'[d], held'[d], sync'[d])
  PROVE  CursorInv'
<1>1. \A e \in Device : Sound(items, closed, newest, cur'[e], acur'[e], held'[e], sync'[e])
  BY DEF CursorInv
<1>2. \A e \in Device : Sound(items', closed', newest', cur'[e], acur'[e], held'[e], sync'[e])
  BY <1>1, SoundStable DEF CursorInv
<1> QED
  BY <1>2 DEF CursorInv

-----------------------------------------------------------------------------
(* What a device does to the server.                                       *)
LEMMA Appended ==
  ASSUME NEW it, it \in Seq(Range(it)), NEW e
  PROVE  /\ Append(it, e) \in Seq(Range(Append(it, e)))
         /\ DOMAIN Append(it, e) = DOMAIN it \cup {Len(it) + 1}
         /\ \A u \in DOMAIN it : Append(it, e)[u] = it[u]
         /\ Append(it, e)[Len(it) + 1] = e
         /\ DOMAIN it = 1 .. Len(it)
<1> DEFINE S == Range(it) \cup {e}
<1>1. it \in Seq(S) /\ e \in S
  BY DEF Range
<1>2. Len(it) \in Nat /\ DOMAIN it = 1 .. Len(it)
  BY <1>1
<1>3. /\ Append(it, e) \in Seq(S)
      /\ Len(Append(it, e)) = Len(it) + 1
      /\ \A u \in 1 .. Len(it) : Append(it, e)[u] = it[u]
      /\ Append(it, e)[Len(it) + 1] = e
  BY <1>1, AppendProperties
<1>4. DOMAIN Append(it, e) = 1 .. Len(it) + 1
  BY <1>3
<1>5. Range(Append(it, e)) = {Append(it, e)[u] : u \in 1 .. Len(it) + 1}
  BY <1>4 DEF Range
<1>6. \A u \in 1 .. Len(it) + 1 : Append(it, e)[u] \in Range(Append(it, e))
  BY <1>5
<1>7. Append(it, e) \in Seq(Range(Append(it, e)))
  <2> DEFINE a == Append(it, e)
  <2>1. a \in [1 .. Len(it) + 1 -> S]
    BY <1>3, LenProperties
  <2>2. a = [u \in 1 .. Len(it) + 1 |-> a[u]]
    BY <2>1
  <2>3. Len(it) + 1 \in Nat /\ \A u \in 1 .. Len(it) + 1 : a[u] \in Range(a)
    BY <1>2, <1>6
  <2> HIDE DEF a
  <2>4. a \in [1 .. Len(it) + 1 -> Range(a)]
    BY <2>2, <2>3
  <2>5. a \in Seq(Range(a))
    BY <2>3, <2>4, SeqDef
  <2> QED
    BY <2>5 DEF a
<1> QED
  BY <1>2, <1>3, <1>4, <1>7

LEMMA ReplacedRow ==
  ASSUME NEW it, it \in Seq(Range(it)), NEW f, DOMAIN f = DOMAIN it,
         f = [u \in DOMAIN it |-> f[u]]
  PROVE  f \in Seq(Range(f))
<1>1. Len(it) \in Nat /\ DOMAIN it = 1 .. Len(it)
  OBVIOUS
<1>2. \A u \in DOMAIN f : f[u] \in Range(f)
  BY DEF Range
<1>3. f \in [1 .. Len(it) -> Range(f)]
  BY <1>1, <1>2
<1> QED
  BY <1>1, <1>3, SeqDef

LEMMA PutGrows ==
  ASSUME Numbered(items, newest, last), NEW u, NEW it, it.space \in Home, it.num = newest + 1,
         PutRow(u, it)
  PROVE  /\ Numbered(items', newest', last')
         /\ Grown(items, closed, newest, items', closed', newest')
<1>1. newest \in Nat /\ newest' = newest + 1 /\ closed' = closed
  BY DEF Numbered, PutRow
<1>2. last' \in [Home -> Nat] /\ last'[it.space] = newest' /\ \A s \in Home : last[s] <= last'[s] /\ last'[s] <= newest'
  BY <1>1 DEF Numbered, PutRow
<1>3. /\ items' \in Seq(Range(items'))
      /\ \A v \in DOMAIN items' : items'[v] = it \/ (v \in DOMAIN items /\ items'[v] = items[v])
  <2>1. CASE u \in DOMAIN items
    <3>1. items' = [items EXCEPT ![u] = it]
      BY <2>1 DEF PutRow
    <3>2. DOMAIN items' = DOMAIN items /\ items' = [v \in DOMAIN items |-> items'[v]]
      BY <3>1
    <3>3. items \in Seq(Range(items))
      BY DEF Numbered
    <3>4. items' \in Seq(Range(items'))
      BY <3>2, <3>3, ReplacedRow
    <3> QED
      BY <3>1, <3>4
  <2>2. CASE u \notin DOMAIN items
    <3>1. items' = Append(items, it) /\ items \in Seq(Range(items))
      BY <2>2 DEF PutRow, Numbered
    <3> QED
      BY <3>1, Appended
  <2> QED
    BY <2>1, <2>2
<1>4. \A v \in DOMAIN items' :
        items'[v].space \in Home /\ items'[v].num \in Nat /\ items'[v].num <= last'[items'[v].space]
  <2> SUFFICES ASSUME NEW v \in DOMAIN items'
               PROVE  /\ items'[v].space \in Home /\ items'[v].num \in Nat
                      /\ items'[v].num <= last'[items'[v].space]
    OBVIOUS
  <2>1. CASE items'[v] = it
    BY <1>1, <1>2, <2>1
  <2>2. CASE v \in DOMAIN items /\ items'[v] = items[v]
    <3>1. items[v].space \in Home /\ items[v].num \in Nat /\ items[v].num <= last[items[v].space]
      BY <2>2 DEF Numbered
    <3>2. last \in [Home -> Nat]
      BY DEF Numbered
    <3> QED
      BY <1>2, <2>2, <3>1, <3>2
  <2> QED
    BY <1>3, <2>1, <2>2
<1>5. Numbered(items', newest', last')
  BY <1>1, <1>2, <1>3, <1>4 DEF Numbered
<1>6. \A v \in DOMAIN items' :
        \/ v \in DOMAIN items /\ items'[v].space = items[v].space /\ items'[v].num = items[v].num
        \/ items'[v].num > newest
  BY <1>1, <1>3
<1>7. Grown(items, closed, newest, items', closed', newest')
  BY <1>1, <1>4, <1>6 DEF Grown
<1> QED
  BY <1>5, <1>7

LEMMA DeletesGrow ==
  ASSUME Numbered(items, newest, last), NEW d, NEW s \in Home, ServerDeletes(d, s)
  PROVE  /\ Numbered(items', newest', last')
         /\ Grown(items, closed, newest, items', closed', newest')
<1> DEFINE new == {u \in DOMAIN items : u \in Queued(d, s) /\ ~items[u].gone}
           upto(u) == {v \in new : v <= u}
<1>1. newest \in Nat /\ DOMAIN items = 1 .. Len(items) /\ Len(items) \in Nat
  BY DEF Numbered
<1>2. IsFiniteSet(new)
  <2>1. IsFiniteSet(1 .. Len(items))
    BY <1>1, FS_Interval
  <2>2. new \subseteq 1 .. Len(items)
    BY <1>1
  <2> QED
    BY <2>1, <2>2, FS_Subset
<1>3. Cardinality(new) \in Nat /\ (Cardinality(new) = 0 <=> new = {})
  BY <1>2, FS_CardinalityType, FS_EmptySet
<1>4. \A u \in new : Cardinality(upto(u)) \in Nat /\ 0 < Cardinality(upto(u))
                     /\ Cardinality(upto(u)) <= Cardinality(new)
  <2> SUFFICES ASSUME NEW u \in new
               PROVE  Cardinality(upto(u)) \in Nat /\ 0 < Cardinality(upto(u))
                      /\ Cardinality(upto(u)) <= Cardinality(new)
    OBVIOUS
  <2>1. upto(u) \subseteq new /\ u \in upto(u)
    BY <1>1
  <2> HIDE DEF upto, new
  <2>2. IsFiniteSet(upto(u)) /\ Cardinality(upto(u)) <= Cardinality(new)
    BY <1>2, <2>1, FS_Subset
  <2>3. Cardinality(upto(u)) \in Nat /\ Cardinality(upto(u)) # 0
    BY <2>1, <2>2, FS_CardinalityType, FS_EmptySet
  <2> QED
    BY <2>2, <2>3
<1>5. /\ newest' = newest + Cardinality(new)
      /\ last' = IF new = {} THEN last ELSE [last EXCEPT ![s] = newest']
      /\ items' = [u \in DOMAIN items |->
           IF u \in new
             THEN [space |-> s, gone |-> TRUE, text |-> {}, num |-> newest + Cardinality(upto(u))]
             ELSE items[u]]
      /\ closed' = closed
  BY DEF ServerDeletes
<1>6. items' \in Seq(Range(items'))
  <2>1. DOMAIN items' = DOMAIN items /\ items' = [u \in DOMAIN items |-> items'[u]]
    BY <1>5
  <2> QED
    BY <2>1, ReplacedRow DEF Numbered
<1>7. \A u \in DOMAIN items' :
        \/ u \in new /\ items'[u].space = s /\ items'[u].num = newest + Cardinality(upto(u))
        \/ u \notin new /\ items'[u] = items[u]
  BY <1>5
<1>8. DOMAIN items' = DOMAIN items
  BY <1>5
<1> HIDE DEF upto, new
<1>9. /\ newest' \in Nat /\ newest <= newest'
      /\ last' \in [Home -> Nat] /\ (new # {} => last'[s] = newest')
      /\ \A t \in Home : last[t] <= last'[t] /\ last'[t] <= newest'
  BY <1>1, <1>3, <1>5 DEF Numbered
<1>10. \A u \in DOMAIN items' :
        /\ items'[u].space \in Home /\ items'[u].num \in Nat
        /\ items'[u].num <= last'[items'[u].space]
        /\ u \in new => newest < items'[u].num
  <2> SUFFICES ASSUME NEW u \in DOMAIN items'
               PROVE  /\ items'[u].space \in Home /\ items'[u].num \in Nat
                      /\ items'[u].num <= last'[items'[u].space]
                      /\ u \in new => newest < items'[u].num
    OBVIOUS
  <2>1. CASE u \in new
    <3>1. items'[u].space = s /\ items'[u].num = newest + Cardinality(upto(u))
      BY <1>7, <2>1
    <3>2. newest < items'[u].num /\ items'[u].num \in Nat
      BY <1>1, <1>4, <2>1, <3>1
    <3>3. items'[u].num <= newest'
      BY <1>1, <1>3, <1>4, <1>5, <2>1, <3>1
    <3> QED
      BY <1>9, <2>1, <3>1, <3>2, <3>3
  <2>2. CASE u \notin new
    BY <1>7, <1>8, <1>9, <2>2 DEF Numbered
  <2> QED
    BY <2>1, <2>2
<1> QED
  BY <1>1, <1>5, <1>6, <1>7, <1>8, <1>9, <1>10 DEF Numbered, Grown

-----------------------------------------------------------------------------
(* What a device does in a sync.                                           *)
LEMMA Shape ==
  ASSUME CursorInv, NEW d \in Device
  PROVE  Sound(items, closed, newest, cur[d], acur[d], held[d], sync[d])
  BY DEF CursorInv

(* After the pulls a sync may go to any step, or send anything.            *)
LEMMA AfterPulls ==
  ASSUME CursorInv, NEW d \in Device,
         \A s \in Home : sync[d].at # <<"pull", s>>,
         sync[d].at # <<"idle", "all">>, sync[d].at # <<"settle", "all">>,
         NEW sy, DOMAIN sy = DOMAIN sync[d],
         \A f \in {"stoken", "share", "complete", "refused", "reached"} : sy[f] = sync[d][f]
  PROVE  Sound(items, closed, newest, cur[d], acur[d], held[d], sy)
<1>1. Sound(items, closed, newest, cur[d], acur[d], held[d], sync[d])
  BY Shape
<1>2. \A s \in Home : ~StillAhead(sync[d], s)
  BY DEF StillAhead, Home
<1>3. sy.stoken = sync[d].stoken /\ sy.complete = sync[d].complete
      /\ sy.refused = sync[d].refused /\ sy.reached = sync[d].reached
  OBVIOUS
<1>4. \A s \in Home : sync[d].refused[s] = <<>>
  BY <1>1 DEF Sound, Retries, Home
<1> QED
  BY <1>1, <1>2, <1>3, <1>4 DEF Sound

(* Nothing is remembered between syncs but the cursors.                    *)
LEMMA IdleIsSound ==
  ASSUME NEW it, NEW cl, NEW co \in Nat, NEW cu \in [Home -> Nat], NEW he \in [Home -> Nat],
         NEW ac \in Int, ac <= co, \A s \in Home : Upto(it, cl, ac, s, cu[s])
  PROVE  Sound(it, cl, co, cu, ac, he, NoSync)
<1>1. /\ DOMAIN NoSync = {"at", "share", "stoken", "open", "complete", "refused", "reached", "push"}
      /\ DOMAIN NoSync.refused = Home /\ NoSync.reached \in [Home -> Nat]
  BY DEF NoSync
<1>2. NoSync.stoken \in Nat /\ NoSync.stoken <= co
  BY DEF NoSync
<1>3. NoSync.complete \in BOOLEAN
  BY Zenon DEF NoSync
<1>4. NoSync.at = <<"idle", "all">> /\ \A s \in Home : NoSync.refused[s] = <<>>
  BY DEF NoSync
<1>5. \A s \in Home : NoSync.refused[s] # <<>> =>
        /\ Retries(NoSync, s)
        /\ cu[s] <= NoSync.reached[s] /\ Upto(it, cl, NoSync.stoken, s, NoSync.reached[s])
  BY <1>4
<1>6. \A s \in Home : NoSync.at # <<"idle", "all">> =>
       \/ StillAhead(NoSync, s)
       \/ Upto(it, cl, NoSync.stoken, s, cu[s])
       \/ NoSync.complete = FALSE
       \/ NoSync.refused[s] # <<>>
       \/ he[s] > 0
  BY <1>4
<1>7. \A s \in Home : Upto(it, cl, ac, s, cu[s])
  OBVIOUS
<1>8. cu \in [Home -> Nat] /\ he \in [Home -> Nat] /\ ac \in Int /\ ac <= co
  OBVIOUS
<1> HIDE DEF Upto, StillAhead, Retries
<1> QED
  BY ONLY <1>1, <1>2, <1>3, <1>5, <1>6, <1>7, <1>8, ZenonT(60) DEF Sound

LEMMA BackToIdle ==
  ASSUME CursorInv, NEW d \in Device
  PROVE  Sound(items, closed, newest, cur[d], acur[d], held[d], NoSync)
<1>1. Sound(items, closed, newest, cur[d], acur[d], held[d], sync[d])
  BY Shape
<1>2. newest \in Nat
  BY DEF CursorInv, Numbered
<1>3. /\ cur[d] \in [Home -> Nat] /\ held[d] \in [Home -> Nat]
      /\ acur[d] \in Int /\ acur[d] <= newest
      /\ \A s \in Home : Upto(items, closed, acur[d], s, cur[d][s])
  BY <1>1 DEF Sound
<1> QED
  BY <1>2, <1>3, IdleIsSound

(* Where only sync[d] changes among the device's cursors.                  *)
LEMMA SyncFrame ==
  ASSUME CursorInv, NEW d \in Device, NEW sy,
         UNCHANGED <<cur, acur, held>>,
         sync' = [sync EXCEPT ![d] = sy],
         Numbered(items', newest', last'),
         Grown(items, closed, newest, items', closed', newest'),
         Sound(items, closed, newest, cur[d], acur[d], held[d], sy)
  PROVE  CursorInv'
<1>1. DOMAIN sync' = Device /\ sync'[d] = sy /\ \A e \in Device \ {d} : sync'[e] = sync[e]
  BY DEF CursorInv, Domains
<1>2. Domains'
  BY <1>1 DEF CursorInv, Domains
<1> QED
  BY <1>1, <1>2, Frame

LEMMA UserKeeps ==
  ASSUME CursorInv, NEW d \in Device, User(d)
  PROVE  CursorInv'
<1>1. CASE UNCHANGED server /\ UNCHANGED <<cur, acur, held, sync>>
  <2>1. Numbered(items', newest', last') /\ Grown(items, closed, newest, items', closed', newest')
    BY <1>1, StillGrown DEF CursorInv
  <2>2. Domains'
    BY <1>1 DEF CursorInv, Domains
  <2> QED
    BY <1>1, <2>1, <2>2, Frame, Shape
<1>2. CASE \E reaches \in BOOLEAN : StopSharing(d, reaches)
  <2>1. UNCHANGED <<items, cur, acur, held, sync>>
    BY <1>2 DEF StopSharing
  <2>2. \/ UNCHANGED <<closed, newest, last>>
        \/ closed' = TRUE /\ newest' = newest + 1 /\ last' = [last EXCEPT !["share"] = newest']
    BY <1>2 DEF StopSharing
  <2>3. "share" \in Home
    BY DEF Home
  <2>4. newest \in Nat /\ last \in [Home -> Nat]
    BY DEF CursorInv, Numbered
  <2>5. /\ newest' \in Nat /\ newest <= newest' /\ (closed => closed')
        /\ last' \in [Home -> Nat] /\ \A s \in Home : last[s] <= last'[s] /\ last'[s] <= newest'
    <3>1. \A s \in Home : last[s] <= newest
      BY DEF CursorInv, Numbered
    <3>2. CASE UNCHANGED <<closed, newest, last>>
      BY <2>4, <3>1, <3>2
    <3>3. CASE closed' = TRUE /\ newest' = newest + 1 /\ last' = [last EXCEPT !["share"] = newest']
      BY <2>3, <2>4, <3>1, <3>3
    <3> QED
      BY <2>2, <3>2, <3>3
  <2>6. Numbered(items', newest', last') /\ Grown(items, closed, newest, items', closed', newest')
    BY <2>1, <2>4, <2>5 DEF CursorInv, Numbered, Grown
  <2>7. Domains'
    BY <2>1 DEF CursorInv, Domains
  <2> QED
    BY <2>1, <2>6, <2>7, Frame, Shape
<1>3. ASSUME NEW s \in Home, Create(d, s) \/ Move(d, s)
      PROVE  UNCHANGED server /\ UNCHANGED <<cur, acur, held, sync>>
  BY <1>3 DEF Create, Move
<1>4. ASSUME Edit(d) \/ Delete(d)
      PROVE  UNCHANGED server /\ UNCHANGED <<cur, acur, held, sync>>
  BY <1>4 DEF Edit, Delete
<1> QED
  BY <1>1, <1>2, <1>3, <1>4 DEF User

-----------------------------------------------------------------------------
(* A step of the push phase, whatever it does to the server and wherever   *)
(* the sync goes on.                                                       *)
Pushing == {"drain", "fetch", "send", "ack", "tail"}

LEMMA PushStep ==
  ASSUME CursorInv, NEW d \in Device, NEW step \in Pushing, NEW t, At(d, step, t),
         NEW sy, sync' = [sync EXCEPT ![d] = sy],
         \/ sy = NoSync
         \/ /\ DOMAIN sy = DOMAIN sync[d]
            /\ \A f \in {"stoken", "share", "complete", "refused", "reached"} : sy[f] = sync[d][f],
         UNCHANGED <<cur, acur, held>>,
         Numbered(items', newest', last'),
         Grown(items, closed, newest, items', closed', newest')
  PROVE  CursorInv'
<1>1. sync[d].at = <<step, t>> /\ step # "pull" /\ step # "idle" /\ step # "settle"
  BY DEF At, Pushing
<1>2. sync[d].at # <<"idle", "all">> /\ sync[d].at # <<"settle", "all">> /\ \A s \in Home : sync[d].at # <<"pull", s>>
  BY <1>1
<1>3. Sound(items, closed, newest, cur[d], acur[d], held[d], sy)
  BY <1>2, AfterPulls, BackToIdle
<1> QED
  BY <1>3, SyncFrame

LEMMA SyncIsRecord ==
  ASSUME CursorInv, NEW d \in Device
  PROVE  /\ DOMAIN sync[d] = {"at", "share", "stoken", "open", "complete", "refused", "reached", "push"}
         /\ DOMAIN sync = Device
  BY Shape DEF Sound, CursorInv, Domains

(* Where a sync goes after a request that failed.                          *)
LEMMA FailureGoesOn ==
  ASSUME CursorInv, NEW d \in Device, NEW s
  PROVE  LET sy == AfterFailure(d, s)
         IN  \/ sy = NoSync
             \/ /\ DOMAIN sy = DOMAIN sync[d]
                /\ \A f \in {"stoken", "share", "complete", "refused", "reached"} : sy[f] = sync[d][f]
  BY SyncIsRecord DEF AfterFailure

LEMMA SendKeeps ==
  ASSUME CursorInv, NEW d \in Device, NEW s \in Home, Send(d, s)
  PROVE  CursorInv'
<1> DEFINE p == sync[d].push
           u == IF p.uid = 0 THEN Len(items) + 1 ELSE p.uid
           it == [space |-> s, gone |-> p.uid # 0 /\ items[u].gone, text |-> p.text, num |-> newest + 1]
           sy == [sync[d] EXCEPT !.at = <<"ack", s>>, !.push.uid = u]
<1>1. PutRow(u, it) /\ At(d, "send", s) /\ UNCHANGED <<cur, acur, held>>
  BY DEF Send, store
<1>2. it.space \in Home /\ it.num = newest + 1
  OBVIOUS
<1>3. sync' = [sync EXCEPT ![d] = sy]
  BY SyncIsRecord DEF Send
<1>4. /\ DOMAIN sy = DOMAIN sync[d]
      /\ \A f \in {"stoken", "share", "complete", "refused", "reached"} : sy[f] = sync[d][f]
  BY SyncIsRecord
<1>5. "send" \in Pushing
  BY DEF Pushing
<1> HIDE DEF p, u, it, sy
<1>6. Numbered(items', newest', last') /\ Grown(items, closed, newest, items', closed', newest')
  BY <1>1, <1>2, PutGrows DEF CursorInv
<1> QED
  BY <1>1, <1>3, <1>4, <1>5, <1>6, PushStep

LEMMA DrainKeeps ==
  ASSUME CursorInv, NEW d \in Device, NEW s \in Home, Drain(d, s) \/ FailedDrain(d, s)
  PROVE  CursorInv'
<1>1. UNCHANGED <<cur, acur, held>>
  BY DEF Drain, FailedDrain, store
<1>2. PICK step \in Pushing : At(d, step, s)
  BY DEF Drain, FailedDrain, Pushing
<1>3. ServerDeletes(d, s) \/ UNCHANGED server
  BY DEF Drain, FailedDrain
<1>4. Numbered(items', newest', last') /\ Grown(items, closed, newest, items', closed', newest')
  BY <1>3, DeletesGrow, StillGrown DEF CursorInv
<1>5. CASE Drain(d, s)
  <2> DEFINE at == IF At(d, "drain", s) THEN AfterDrain(s, sync[d].open) ELSE AfterPush(s, sync[d].open)
             sy == [sync[d] EXCEPT !.at = at]
  <2>1. sync' = [sync EXCEPT ![d] = sy]
    BY <1>5 DEF Drain
  <2>2. /\ DOMAIN sy = DOMAIN sync[d]
        /\ \A f \in {"stoken", "share", "complete", "refused", "reached"} : sy[f] = sync[d][f]
    BY SyncIsRecord
  <2> HIDE DEF sy
  <2> QED
    BY <1>1, <1>2, <1>4, <2>1, <2>2, PushStep
<1>6. CASE FailedDrain(d, s)
  <2>1. sync' = [sync EXCEPT ![d] = AfterFailure(d, s)]
    BY <1>6 DEF FailedDrain
  <2> QED
    BY <1>1, <1>2, <1>4, <2>1, FailureGoesOn, PushStep
<1> QED
  BY <1>5, <1>6

(* The steps of the push phase that leave the server alone.                *)
LEMMA QuietPushKeeps ==
  ASSUME CursorInv, NEW d \in Device, NEW s \in Home,
         \/ Fetch(d, s) \/ Conflict(d, s) \/ Ack(d, s)
         \/ VaultFull(d) \/ FailedPush(d, s) \/ ClosedPush(d)
  PROVE  CursorInv'
<1>1. UNCHANGED server /\ UNCHANGED <<cur, acur, held>>
  BY DEF Fetch, Conflict, Ack, VaultFull, FailedPush, ClosedPush, store
<1>2. Numbered(items', newest', last') /\ Grown(items, closed, newest, items', closed', newest')
  BY <1>1, StillGrown DEF CursorInv
<1>3. CASE FailedPush(d, s)
  <2>1. PICK step \in Pushing : At(d, step, s)
    BY <1>3 DEF FailedPush, Pushing
  <2>2. sync' = [sync EXCEPT ![d] = AfterFailure(d, s)]
    BY <1>3 DEF FailedPush
  <2> QED
    BY <1>1, <1>2, <2>1, <2>2, FailureGoesOn, PushStep
<1>4. CASE ClosedPush(d)
  <2>1. PICK step \in Pushing : At(d, step, "share")
    BY <1>4 DEF ClosedPush, Pushing
  <2>2. sync' = [sync EXCEPT ![d] = AfterFailure(d, "share")]
    BY <1>4 DEF ClosedPush
  <2> QED
    BY <1>1, <1>2, <2>1, <2>2, FailureGoesOn, PushStep
<1>5. CASE Fetch(d, s) \/ Conflict(d, s) \/ Ack(d, s) \/ VaultFull(d)
  <2>1. PICK step \in Pushing, t \in Home : At(d, step, t)
    BY <1>5 DEF Fetch, Conflict, Ack, VaultFull, Pushing, Home
  <2>2. \E sy : /\ sync' = [sync EXCEPT ![d] = sy]
                /\ DOMAIN sy = DOMAIN sync[d]
                /\ \A f \in {"stoken", "share", "complete", "refused", "reached"} : sy[f] = sync[d][f]
    <3>1. CASE Fetch(d, s)
      BY <3>1, SyncIsRecord DEF Fetch
    <3>2. CASE Conflict(d, s)
      <4> DEFINE q == sync[d].push
                 sy == [sync[d] EXCEPT !.push.base = items[q.uid].num,
                          !.push.text = @ \cup (IF items[q.uid].gone THEN {} ELSE items[q.uid].text)]
      <4>1. sync' = [sync EXCEPT ![d] = sy]
        BY <3>2, SyncIsRecord DEF Conflict
      <4>2. /\ DOMAIN sy = DOMAIN sync[d]
            /\ \A f \in {"stoken", "share", "complete", "refused", "reached"} : sy[f] = sync[d][f]
        BY SyncIsRecord
      <4> QED
        BY <4>1, <4>2
    <3>3. CASE Ack(d, s)
      <4> DEFINE sy == [sync[d] EXCEPT !.at = <<"tail", s>>, !.push = NoPush]
      <4>1. sync' = [sync EXCEPT ![d] = sy]
        BY <3>3, SyncIsRecord DEF Ack
      <4>2. /\ DOMAIN sy = DOMAIN sync[d]
            /\ \A f \in {"stoken", "share", "complete", "refused", "reached"} : sy[f] = sync[d][f]
        BY SyncIsRecord
      <4> QED
        BY <4>1, <4>2
    <3>4. CASE VaultFull(d)
      BY <3>4, SyncIsRecord DEF VaultFull
    <3> QED
      BY <1>5, <3>1, <3>2, <3>3, <3>4
  <2> QED
    BY <1>1, <1>2, <2>1, <2>2, PushStep
<1> QED
  BY <1>3, <1>4, <1>5

-----------------------------------------------------------------------------
(* The first request names every space that has something after the        *)
(* account's cursor.                                                       *)
LEMMA ListKeeps ==
  ASSUME CursorInv, NEW d \in Device, List(d)
  PROVE  CursorInv'
<1> DEFINE visit == Named(d, "vault") \/ LocalWork(d, "vault")
           mark == IF ~Named(d, "share") THEN "unnamed" ELSE IF closed THEN "gone" ELSE "changed"
           at == <<"pull", IF visit THEN "vault" ELSE "share">>
           sy == [NoSync EXCEPT !.at = at, !.open = IF visit THEN {"vault"} ELSE {},
                              !.stoken = newest, !.share = mark]
<1>1. sync' = [sync EXCEPT ![d] = sy] /\ UNCHANGED server /\ UNCHANGED <<cur, acur, held>>
  BY DEF List, store
<1>2. Numbered(items', newest', last') /\ Grown(items, closed, newest, items', closed', newest')
  BY <1>1, StillGrown DEF CursorInv
<1>3. Sound(items, closed, newest, cur[d], acur[d], held[d], sync[d]) /\ newest \in Nat
  BY Shape DEF CursorInv, Numbered
<1>4. /\ DOMAIN sy = {"at", "share", "stoken", "open", "complete", "refused", "reached", "push"}
      /\ sy.at = at /\ sy.share = mark /\ sy.stoken = newest
      /\ sy.refused = [s \in Home |-> <<>>] /\ sy.reached \in [Home -> Nat]
      /\ sy.complete = TRUE
  BY DEF NoSync
<1>5. ASSUME NEW s \in Home, ~Named(d, s)
      PROVE  Upto(items, closed, newest, s, cur[d][s])
  <2>1. acur[d] # NoCursor /\ ~(last[s] > acur[d]) /\ acur[d] \in Int
    BY <1>3, <1>5 DEF Named, Sound
  <2>2. last[s] <= acur[d]
    BY <2>1 DEF CursorInv, Numbered
  <2>3. \A u \in DOMAIN items : items[u].space = s => items[u].num <= acur[d]
    BY <2>1, <2>2 DEF CursorInv, Numbered
  <2>4. Upto(items, closed, acur[d], s, cur[d][s])
    BY <1>3 DEF Sound
  <2> QED
    BY <2>3, <2>4 DEF Upto
<1> HIDE DEF sy
<1>6. \A s \in Home : StillAhead(sy, s) \/ Upto(items, closed, sy.stoken, s, cur[d][s])
  <2>1. StillAhead(sy, "vault") \/ Upto(items, closed, sy.stoken, "vault", cur[d]["vault"])
    <3>1. CASE Named(d, "vault")
      BY <1>4, <3>1 DEF StillAhead
    <3>2. CASE ~Named(d, "vault")
      BY <1>4, <1>5, <3>2 DEF Home
    <3> QED
      BY <3>1, <3>2
  <2>2. StillAhead(sy, "share") \/ Upto(items, closed, sy.stoken, "share", cur[d]["share"])
    <3>1. CASE ~Named(d, "share")
      BY <1>4, <1>5, <3>1 DEF Home
    <3>2. CASE Named(d, "share") /\ closed
      BY <3>2 DEF Upto
    <3>3. CASE Named(d, "share") /\ ~closed
      BY <1>4, <3>3 DEF StillAhead
    <3> QED
      BY <3>1, <3>2, <3>3
  <2> QED
    BY <2>1, <2>2 DEF Home
<1>7. Sound(items, closed, newest, cur[d], acur[d], held[d], sy)
  <2>1. \A s \in Home : sy.refused[s] = <<>>
    BY <1>4
  <2>2. sy.stoken \in Nat /\ sy.stoken <= newest /\ DOMAIN sy.refused = Home
    BY <1>3, <1>4
  <2> QED
    BY <1>3, <1>4, <1>6, <2>1, <2>2 DEF Sound
<1> QED
  BY <1>1, <1>2, <1>7, SyncFrame

(* The cursor a pull reaches has all there is, and is not behind the one   *)
(* it had.                                                                 *)
LEMMA ReachedIsAll ==
  ASSUME CursorInv, NEW d \in Device, NEW s \in Home
  PROVE  /\ Reached(d, s) \in Nat
         /\ cur[d][s] <= Reached(d, s)
         /\ \A n \in Nat : Upto(items, closed, n, s, Reached(d, s))
<1>1. cur[d] \in [Home -> Nat] /\ last \in [Home -> Nat]
  BY Shape DEF Sound, CursorInv, Numbered
<1>2. \A u \in DOMAIN items : items[u].space = s => items[u].num \in Nat /\ items[u].num <= last[s]
  BY DEF CursorInv, Numbered
<1>3. CASE s = "share" /\ closed
  BY <1>1, <1>3 DEF Reached, Upto
<1>4. CASE ~(s = "share" /\ closed) /\ last[s] <= cur[d][s]
  BY <1>1, <1>2, <1>4 DEF Reached, Upto
<1>5. CASE ~(s = "share" /\ closed) /\ ~(last[s] <= cur[d][s])
  BY <1>1, <1>2, <1>5 DEF Reached, Upto
<1> QED
  BY <1>3, <1>4, <1>5

LEMMA PullKeeps ==
  ASSUME CursorInv, NEW d \in Device, NEW s \in Home, Pull(d, s)
  PROVE  CursorInv'
<1> DEFINE got == ApplyAll(d, s, News(d, s))
           r == Reached(d, s)
           next == IF s = "vault" THEN <<"pull", "share">> ELSE <<"settle", "all">>
           here == [sync[d] EXCEPT !.at = next, !.open = @ \cup {s}]
           there == [here EXCEPT !.refused[s] = got.refused, !.reached[s] = r]
<1>1. /\ UNCHANGED server /\ UNCHANGED <<acur, held>>
      /\ sync[d].at = <<"pull", s>>
      /\ \/ /\ got.refused = <<>>
            /\ cur' = [cur EXCEPT ![d][s] = r]
            /\ sync' = [sync EXCEPT ![d] = here]
         \/ /\ got.refused # <<>>
            /\ sync' = [sync EXCEPT ![d] = there]
            /\ UNCHANGED cur
  BY DEF Pull, Pulled, At
<1>2. Numbered(items', newest', last') /\ Grown(items, closed, newest, items', closed', newest')
  BY <1>1, StillGrown DEF CursorInv
<1>3. Sound(items, closed, newest, cur[d], acur[d], held[d], sync[d])
  BY Shape
<1>4. /\ r \in Nat /\ cur[d][s] <= r
      /\ \A n \in Nat : Upto(items, closed, n, s, r)
  BY ReachedIsAll
<1>5. Domains
  BY DEF CursorInv
<1> HIDE DEF got, r
<1>6. /\ DOMAIN here = DOMAIN sync[d] /\ DOMAIN there = DOMAIN sync[d]
      /\ here.stoken = sync[d].stoken /\ there.stoken = sync[d].stoken
      /\ here.share = sync[d].share /\ there.share = sync[d].share
      /\ here.complete = sync[d].complete /\ there.complete = sync[d].complete
      /\ here.at = next /\ there.at = next
      /\ here.refused = sync[d].refused /\ here.reached = sync[d].reached
      /\ there.refused = [sync[d].refused EXCEPT ![s] = got.refused]
      /\ there.reached = [sync[d].reached EXCEPT ![s] = r]
  BY <1>3 DEF Sound
<1> HIDE DEF here, there
<1>7. ASSUME NEW t \in Home \ {s}, NEW sy, sy.at = next, sy.share = sync[d].share
      PROVE  StillAhead(sync[d], t) => StillAhead(sy, t)
  BY <1>1, <1>7 DEF StillAhead, Home
<1>8. \A t \in Home : sync[d].refused[t] # <<>> => t # s /\ s = "share"
  BY <1>1, <1>3 DEF Sound, Retries, Home
<1>9. next = <<"settle", "all">> \/ (s = "vault" /\ next = <<"pull", "share">>)
  BY DEF Home
<1>10. \A t \in Home \ {s} :
         \/ StillAhead(sync[d], t)
         \/ Upto(items, closed, sync[d].stoken, t, cur[d][t])
         \/ sync[d].complete = FALSE
         \/ sync[d].refused[t] # <<>>
         \/ held[d][t] > 0
  <2>1. sync[d].at # <<"idle", "all">>
    BY <1>1
  <2> QED
    BY <1>3, <2>1 DEF Sound
<1> HIDE DEF next
<1>11. CASE got.refused = <<>>
  <2> DEFINE cu == [cur[d] EXCEPT ![s] = r]
  <2>1. cur' = [cur EXCEPT ![d] = cu] /\ sync' = [sync EXCEPT ![d] = here]
    BY <1>1, <1>11
  <2>2. cu \in [Home -> Nat] /\ cu[s] = r /\ \A t \in Home \ {s} : cu[t] = cur[d][t]
    BY <1>3, <1>4 DEF Sound
  <2> HIDE DEF cu
  <2>3. \A t \in Home : Upto(items, closed, acur[d], t, cu[t])
    <3>1. Upto(items, closed, acur[d], s, cur[d][s])
      BY <1>3 DEF Sound
    <3>2. \A u \in DOMAIN items : items[u].num \in Nat
      BY DEF CursorInv, Numbered
    <3>3. Upto(items, closed, acur[d], s, r)
      BY <1>3, <1>4, <3>1, <3>2 DEF Upto, Sound
    <3> QED
      BY <1>3, <2>2, <3>3 DEF Sound
  <2>4. \A t \in Home : here.refused[t] # <<>> =>
          /\ Retries(here, t)
          /\ cu[t] <= here.reached[t] /\ Upto(items, closed, here.stoken, t, here.reached[t])
    BY <1>3, <1>6, <1>8, <1>9, <2>2 DEF Sound, Retries
  <2>5. \A t \in Home :
          \/ StillAhead(here, t)
          \/ Upto(items, closed, here.stoken, t, cu[t])
          \/ here.complete = FALSE
          \/ here.refused[t] # <<>>
          \/ held[d][t] > 0
    <3>1. sync[d].stoken \in Nat
      BY <1>3 DEF Sound
    <3>2. Upto(items, closed, here.stoken, s, cu[s])
      BY <1>4, <1>6, <2>2, <3>1
    <3> QED
      BY <1>6, <1>7, <1>10, <2>2, <3>2
  <2>6. Sound(items, closed, newest, cu, acur[d], held[d], here)
    BY <1>3, <1>6, <2>2, <2>3, <2>4, <2>5 DEF Sound
  <2>7. cur'[d] = cu /\ sync'[d] = here /\ acur' = acur /\ held' = held
        /\ \A e \in Device \ {d} : cur'[e] = cur[e] /\ sync'[e] = sync[e]
    BY <1>1, <1>5, <2>1 DEF Domains
  <2>8. Domains'
    BY <1>1, <1>5, <2>1 DEF Domains
  <2> QED
    BY <1>2, <2>6, <2>7, <2>8, Frame
<1>12. CASE got.refused # <<>>
  <2>1. sync' = [sync EXCEPT ![d] = there] /\ UNCHANGED cur
    BY <1>1, <1>12
  <2>2. /\ there.reached \in [Home -> Nat] /\ DOMAIN there.refused = Home
        /\ there.reached[s] = r /\ there.refused[s] # <<>>
        /\ \A t \in Home \ {s} : there.reached[t] = sync[d].reached[t] /\ there.refused[t] = sync[d].refused[t]
    BY <1>3, <1>4, <1>6, <1>12 DEF Sound
  <2>3. \A t \in Home : there.refused[t] # <<>> =>
          /\ Retries(there, t)
          /\ cur[d][t] <= there.reached[t] /\ Upto(items, closed, there.stoken, t, there.reached[t])
    BY <1>3, <1>4, <1>6, <1>8, <1>9, <2>2 DEF Sound, Retries
  <2>4. \A t \in Home :
          \/ StillAhead(there, t)
          \/ Upto(items, closed, there.stoken, t, cur[d][t])
          \/ there.complete = FALSE
          \/ there.refused[t] # <<>>
          \/ held[d][t] > 0
    BY <1>6, <1>7, <1>10, <2>2
  <2>5. Sound(items, closed, newest, cur[d], acur[d], held[d], there)
    BY <1>3, <1>6, <2>2, <2>3, <2>4 DEF Sound
  <2> QED
    BY <1>1, <1>2, <2>1, <2>5, SyncFrame
<1> QED
  BY <1>11, <1>12
(* A shared folder that is not pulled was not named, or is closed.         *)
LEMMA PullNothingKeeps ==
  ASSUME CursorInv, NEW d \in Device, PullNothing(d)
  PROVE  CursorInv'
<1> DEFINE done == sync[d].complete /\ ~(sync[d].share = "unnamed" /\ LocalWork(d, "share"))
           sy == [sync[d] EXCEPT !.at = <<"settle", "all">>, !.complete = done]
<1>1. /\ UNCHANGED server /\ UNCHANGED <<cur, acur, held>>
      /\ sync[d].at = <<"pull", "share">> /\ sync[d].share # "changed"
      /\ sync' = [sync EXCEPT ![d] = sy]
  BY SyncIsRecord DEF PullNothing, Visited, At, store
<1>2. Numbered(items', newest', last') /\ Grown(items, closed, newest, items', closed', newest')
  BY <1>1, StillGrown DEF CursorInv
<1>3. Sound(items, closed, newest, cur[d], acur[d], held[d], sync[d])
  BY Shape
<1>4. /\ DOMAIN sy = DOMAIN sync[d] /\ sy.at = <<"settle", "all">>
      /\ sy.stoken = sync[d].stoken /\ sy.refused = sync[d].refused /\ sy.reached = sync[d].reached
      /\ sy.complete = done
  BY SyncIsRecord
<1>5. \A s \in Home : ~StillAhead(sync[d], s)
  BY <1>1 DEF StillAhead, Home
<1>6. \A s \in Home :
        \/ Upto(items, closed, sync[d].stoken, s, cur[d][s])
        \/ sync[d].complete = FALSE
        \/ sync[d].refused[s] # <<>>
        \/ held[d][s] > 0
  <2>1. sync[d].at # <<"idle", "all">>
    BY <1>1
  <2> QED
    BY <1>3, <1>5, <2>1 DEF Sound
<1> HIDE DEF sy
<1>7. \A s \in Home : Upto(items, closed, sy.stoken, s, cur[d][s]) \/ sy.complete = FALSE
                        \/ sy.refused[s] # <<>> \/ held[d][s] > 0
  BY <1>4, <1>6
<1>8. Sound(items, closed, newest, cur[d], acur[d], held[d], sy)
  BY <1>3, <1>4, <1>7 DEF Sound, Retries
<1> QED
  BY <1>1, <1>2, <1>8, SyncFrame

LEMMA FailedPullKeeps ==
  ASSUME CursorInv, NEW d \in Device, NEW s \in Home, FailedPull(d, s)
  PROVE  CursorInv'
<1> DEFINE sy == IF s = "vault" THEN NoSync
                 ELSE [sync[d] EXCEPT !.at = <<"settle", "all">>, !.complete = FALSE]
<1>1. /\ UNCHANGED server /\ UNCHANGED <<cur, acur, held>>
      /\ sync[d].at = <<"pull", s>>
      /\ sync' = [sync EXCEPT ![d] = sy]
  BY DEF FailedPull, At
<1>2. Numbered(items', newest', last') /\ Grown(items, closed, newest, items', closed', newest')
  BY <1>1, StillGrown DEF CursorInv
<1>3. Sound(items, closed, newest, cur[d], acur[d], held[d], sync[d])
  BY Shape
<1>4. CASE s = "vault"
  BY <1>1, <1>2, <1>4, BackToIdle, SyncFrame
<1>5. CASE s # "vault"
  <2>1. /\ DOMAIN sy = DOMAIN sync[d] /\ sy.at = <<"settle", "all">> /\ sy.complete = FALSE
        /\ sy.stoken = sync[d].stoken /\ sy.refused = sync[d].refused /\ sy.reached = sync[d].reached
    BY <1>5, SyncIsRecord
  <2> HIDE DEF sy
  <2>2. Sound(items, closed, newest, cur[d], acur[d], held[d], sy)
    BY <1>3, <2>1 DEF Sound, Retries
  <2> QED
    BY <1>1, <1>2, <2>2, SyncFrame
<1> QED
  BY <1>4, <1>5

(* A space that waits is held; one that moves has everything its pull saw. *)
LEMMA SettleKeeps ==
  ASSUME CursorInv, NEW d \in Device, Settle(d)
  PROVE  CursorInv'
<1>1. PICK waits \in [Home -> BOOLEAN], moves \in [Home -> BOOLEAN] :
        /\ \A s \in Home : moves[s] <=> (sync[d].refused[s] # <<>> /\ ~waits[s])
        /\ \A s \in Home : waits[s] => sync[d].refused[s] # <<>>
        /\ held' = [held EXCEPT ![d] = [s \in Home |->
             IF waits[s] THEN held[d][s] + 1 ELSE IF moves[s] THEN 0 ELSE held[d][s]]]
        /\ cur' = [cur EXCEPT ![d] = [s \in Home |->
             IF moves[s] THEN sync[d].reached[s] ELSE cur[d][s]]]
  <2> DEFINE vault == ApplyAll(d, "vault", sync[d].refused["vault"])
             both == FoldLeft(LAMBDA acc, it : Applied(acc, it, "share"),
                       [row |-> vault.row, refused |-> <<>>], sync[d].refused["share"])
             Left(s) == IF s = "vault" THEN vault.refused ELSE both.refused
             Had(s) == sync[d].refused[s] # <<>>
             Waits(s) == Had(s) /\ Left(s) # <<>> /\ held[d][s] + 1 < MaxHolds
             Moves(s) == Had(s) /\ ~Waits(s)
  <2>1. /\ held' = [held EXCEPT ![d] = [s \in Home |->
             IF Waits(s) THEN held[d][s] + 1 ELSE IF Moves(s) THEN 0 ELSE held[d][s]]]
        /\ cur' = [cur EXCEPT ![d] = [s \in Home |->
             IF Moves(s) THEN sync[d].reached[s] ELSE cur[d][s]]]
    BY DEF Settle
  <2> DEFINE w == [s \in Home |-> Waits(s)]
             m == [s \in Home |-> Moves(s)]
  <2>2. w \in [Home -> BOOLEAN] /\ m \in [Home -> BOOLEAN]
    OBVIOUS
  <2>3. \A s \in Home : (m[s] <=> Moves(s)) /\ (w[s] <=> Waits(s))
    OBVIOUS
  <2>4. \A s \in Home : Moves(s) <=> (sync[d].refused[s] # <<>> /\ ~Waits(s))
    OBVIOUS
  <2>5. \A s \in Home : Waits(s) => sync[d].refused[s] # <<>>
    OBVIOUS
  <2> HIDE DEF Waits, Moves, w, m
  <2> QED
    BY <2>1, <2>2, <2>3, <2>4, <2>5
<1> DEFINE sy == [sync[d] EXCEPT !.at = ToDrains(sync[d].open),
                                 !.refused = NoSync.refused, !.reached = NoSync.reached]
           cu == [s \in Home |-> IF moves[s] THEN sync[d].reached[s] ELSE cur[d][s]]
           he == [s \in Home |-> IF waits[s] THEN held[d][s] + 1 ELSE IF moves[s] THEN 0 ELSE held[d][s]]
<1>2. /\ UNCHANGED server /\ UNCHANGED acur
      /\ sync[d].at = <<"settle", "all">>
      /\ sync' = [sync EXCEPT ![d] = sy]
  BY SyncIsRecord DEF Settle, At
<1>3. Numbered(items', newest', last') /\ Grown(items, closed, newest, items', closed', newest')
  BY <1>2, StillGrown DEF CursorInv
<1>4. Sound(items, closed, newest, cur[d], acur[d], held[d], sync[d])
  BY Shape
<1>5. /\ DOMAIN sy = DOMAIN sync[d] /\ sy.stoken = sync[d].stoken /\ sy.complete = sync[d].complete
      /\ sy.reached \in [Home -> Nat] /\ DOMAIN sy.refused = Home
      /\ \A s \in Home : sy.refused[s] = <<>>
  BY SyncIsRecord DEF NoSync
<1>6. /\ cu \in [Home -> Nat] /\ he \in [Home -> Nat]
      /\ \A s \in Home :
           /\ cu[s] = IF moves[s] THEN sync[d].reached[s] ELSE cur[d][s]
           /\ he[s] = IF waits[s] THEN held[d][s] + 1 ELSE IF moves[s] THEN 0 ELSE held[d][s]
  BY <1>4 DEF Sound
<1>7. cur' = [cur EXCEPT ![d] = cu] /\ held' = [held EXCEPT ![d] = he]
  BY <1>1
<1> HIDE DEF sy, cu, he
<1>8. \A s \in Home : Upto(items, closed, acur[d], s, cu[s])
  <2>1. \A u \in DOMAIN items : items[u].num \in Nat
    BY DEF CursorInv, Numbered
  <2>2. \A s \in Home : cur[d][s] <= cu[s] /\ cur[d][s] \in Nat /\ cu[s] \in Nat
    <3> SUFFICES ASSUME NEW s \in Home
                 PROVE  cur[d][s] <= cu[s] /\ cur[d][s] \in Nat /\ cu[s] \in Nat
      OBVIOUS
    <3>1. cur[d][s] \in Nat /\ cu[s] \in Nat
      BY <1>4, <1>6 DEF Sound
    <3>2. CASE moves[s]
      <4>1. sync[d].refused[s] # <<>>
        BY <1>1, <3>2
      <4>2. cur[d][s] <= sync[d].reached[s]
        BY <1>4, <4>1 DEF Sound
      <4> QED
        BY <1>6, <3>1, <3>2, <4>2
    <3>3. CASE ~moves[s]
      BY <1>6, <3>1, <3>3
    <3> QED
      BY <3>1, <3>2, <3>3
  <2> QED
    BY <1>4, <2>1, <2>2 DEF Sound, Upto
<1>9. \A s \in Home :
        \/ Upto(items, closed, sy.stoken, s, cu[s])
        \/ sy.complete = FALSE
        \/ he[s] > 0
  <2> SUFFICES ASSUME NEW s \in Home
               PROVE  \/ Upto(items, closed, sy.stoken, s, cu[s])
                      \/ sy.complete = FALSE
                      \/ he[s] > 0
    OBVIOUS
  <2>1. CASE waits[s]
    BY <1>4, <1>6, <2>1 DEF Sound
  <2>2. CASE moves[s]
    BY <1>1, <1>4, <1>5, <1>6, <2>2 DEF Sound
  <2>3. CASE ~waits[s] /\ ~moves[s]
    <3>1. cu[s] = cur[d][s] /\ he[s] = held[d][s] /\ sync[d].refused[s] = <<>>
      BY <1>1, <1>6, <2>3
    <3>2. ~StillAhead(sync[d], s) /\ sync[d].at # <<"idle", "all">>
      BY <1>2 DEF StillAhead
    <3> QED
      BY <1>4, <1>5, <3>1, <3>2 DEF Sound
  <2> QED
    BY <2>1, <2>2, <2>3
<1>10. Sound(items, closed, newest, cu, acur[d], he, sy)
  BY <1>4, <1>5, <1>6, <1>8, <1>9 DEF Sound
<1>11. Domains
  BY DEF CursorInv
<1>12. cur'[d] = cu /\ sync'[d] = sy /\ held'[d] = he /\ acur' = acur
       /\ \A e \in Device \ {d} : cur'[e] = cur[e] /\ sync'[e] = sync[e] /\ held'[e] = held[e]
  BY <1>2, <1>7, <1>11 DEF Domains
<1>13. Domains'
  BY <1>2, <1>7, <1>11 DEF Domains
<1> QED
  BY <1>3, <1>10, <1>12, <1>13, Frame

(* The account's cursor moves when every space is at the number that was   *)
(* noted, and drops when the app is opened.                                *)
LEMMA EndKeeps ==
  ASSUME CursorInv, NEW d \in Device, End(d) \/ Restart(d)
  PROVE  CursorInv'
<1>1. UNCHANGED server /\ UNCHANGED <<cur, held>> /\ sync' = [sync EXCEPT ![d] = NoSync]
  BY DEF End, Restart
<1>2. Numbered(items', newest', last') /\ Grown(items, closed, newest, items', closed', newest')
  BY <1>1, StillGrown DEF CursorInv
<1>3. Sound(items, closed, newest, cur[d], acur[d], held[d], sync[d])
  BY Shape
<1>4. Domains /\ newest \in Nat
  BY DEF CursorInv, Numbered
<1>5. DOMAIN acur' = Device /\ \A e \in Device \ {d} : acur'[e] = acur[e]
  BY <1>4 DEF End, Restart, Domains
<1>6. /\ acur'[d] \in Int /\ acur'[d] <= newest
      /\ \A s \in Home : Upto(items, closed, acur'[d], s, cur[d][s])
  <2>1. CASE acur'[d] = acur[d]
    BY <1>3, <2>1 DEF Sound
  <2>2. CASE Restart(d)
    <3>1. \A u \in DOMAIN items : items[u].num \in Nat
      BY DEF CursorInv, Numbered
    <3>2. acur'[d] = -1
      BY <1>4, <2>2 DEF Restart, NoCursor, Domains
    <3>3. \A s \in Home : Upto(items, closed, -1, s, cur[d][s])
      BY <3>1 DEF Upto
    <3> QED
      BY <1>4, <3>2, <3>3
  <2>3. CASE End(d) /\ sync[d].complete /\ \A s \in Home : held[d][s] = 0
    <3>1. acur'[d] = sync[d].stoken /\ sync[d].at = <<"finish", "all">>
      BY <1>4, <2>3 DEF End, At, Domains
    <3>2. \A s \in Home : ~StillAhead(sync[d], s) /\ sync[d].refused[s] = <<>> /\ ~(held[d][s] > 0)
      BY <1>3, <2>3, <3>1 DEF StillAhead, Sound, Retries, Home
    <3>3. sync[d].complete = TRUE
      BY <2>3
    <3>4. sync[d].at # <<"idle", "all">> /\ sync[d].stoken \in Int /\ sync[d].stoken <= newest
      BY <1>3, <3>1 DEF Sound
    <3>5. \A s \in Home : Upto(items, closed, sync[d].stoken, s, cur[d][s])
      BY <1>3, <3>2, <3>3, <3>4 DEF Sound
    <3> QED
      BY <3>1, <3>4, <3>5
  <2>4. CASE End(d) /\ ~(sync[d].complete /\ \A s \in Home : held[d][s] = 0)
    <3>1. acur' = [acur EXCEPT ![d] = IF sync[d].complete /\ \A s \in Home : held[d][s] = 0
                                        THEN sync[d].stoken ELSE acur[d]]
      BY <2>4, Zenon DEF End
    <3>2. acur'[d] = acur[d]
      BY <1>4, <2>4, <3>1, Zenon DEF Domains
    <3> QED
      BY <2>1, <3>2
  <2> QED
    BY <2>2, <2>3, <2>4
<1>7. Sound(items, closed, newest, cur[d], acur'[d], held[d], NoSync)
  BY <1>3, <1>4, <1>6, IdleIsSound DEF Sound
<1>8. cur' = cur /\ held' = held /\ sync'[d] = NoSync
      /\ \A e \in Device \ {d} : acur'[e] = acur[e] /\ sync'[e] = sync[e]
  BY <1>1, <1>4, <1>5 DEF Domains
<1>9. Domains'
  BY <1>1, <1>4, <1>5 DEF Domains
<1> QED
  BY <1>2, <1>7, <1>8, <1>9, Frame

-----------------------------------------------------------------------------
LEMMA CursorInvStarts == RowsInit => CursorInv
<1> SUFFICES ASSUME RowsInit
             PROVE  CursorInv
  OBVIOUS
<1>1. Domains /\ items = <<>> /\ newest = 0
  BY DEF RowsInit, Domains
<1>2. Numbered(items, newest, last)
  BY DEF RowsInit, Numbered
<1>3. ASSUME NEW d \in Device
      PROVE  Sound(items, closed, newest, cur[d], acur[d], held[d], sync[d])
  <2>1. /\ cur[d] = [s \in Home |-> 0] /\ held[d] = [s \in Home |-> 0]
        /\ acur[d] = -1 /\ sync[d] = NoSync
    BY DEF RowsInit, NoCursor
  <2>2. \A n, s, c : Upto(items, closed, n, s, c)
    BY <1>1 DEF Upto
  <2>3. /\ newest \in Nat /\ acur[d] \in Int /\ acur[d] <= newest
        /\ cur[d] \in [Home -> Nat] /\ held[d] \in [Home -> Nat]
    BY <1>1, <2>1
  <2> QED
    BY <2>1, <2>2, <2>3, IdleIsSound
<1> QED
  BY <1>1, <1>2, <1>3 DEF CursorInv

LEMMA CursorInvStays == CursorInv /\ [RowsNext]_rowVars => CursorInv'
<1> SUFFICES ASSUME CursorInv, [RowsNext]_rowVars
             PROVE  CursorInv'
  OBVIOUS
<1>1. CASE UNCHANGED rowVars
  <2>1. UNCHANGED server /\ UNCHANGED <<cur, acur, held, sync>>
    BY <1>1 DEF rowVars, store
  <2> QED
    BY <2>1 DEF CursorInv, Numbered, Domains, server
<1>2. ASSUME NEW d \in Device, User(d)
      PROVE  CursorInv'
  BY <1>2, UserKeeps
<1>3. ASSUME NEW d \in Device, Sync(d)
      PROVE  CursorInv'
  <2>1. "vault" \in Home
    BY DEF Home
  <2> QED
    BY <1>3, <2>1, ListKeeps, PullNothingKeeps, SettleKeeps, EndKeeps, PullKeeps, DrainKeeps,
       SendKeeps, QuietPushKeeps DEF Sync
<1>4. ASSUME NEW d \in Device, Trouble(d)
      PROVE  CursorInv'
  <2>1. "vault" \in Home
    BY DEF Home
  <2> QED
    BY <1>4, <2>1, EndKeeps, DrainKeeps, FailedPullKeeps, QuietPushKeeps DEF Trouble
<1> QED
  BY <1>1, <1>2, <1>3, <1>4 DEF RowsNext

(* Whatever failed or was interrupted, and whatever the other devices did  *)
(* during a sync, the account's cursor is never ahead of a space.          *)
THEOREM CursorStaysBehind == RowsSpec => []AccountCursorBehind
<1>1. CursorInv => AccountCursorBehind
  BY DEF CursorInv, Sound, Upto, AccountCursorBehind, Uids, Numbered
<1> QED
  BY <1>1, CursorInvStarts, CursorInvStays, PTL DEF RowsSpec
-----------------------------------------------------------------------------
(***************************************************************************)
(* RoutedHome and UnsentSurvives, for any number of devices, whatever the  *)
(* users do and whatever fails.                                            *)
(*                                                                         *)
(* Both rest on what a sync carries from one step to a later one: the      *)
(* items it was refused and the item its push is about are items of the    *)
(* space it takes them for, and no item ever changes its space.  What the  *)
(* user does between two steps cannot undo that, and what it makes of the  *)
(* row meanwhile is checked when the answer is there.                      *)
(***************************************************************************)
(* What the pulled items come to, one after another.                         *)
Applications(base, its, s) == FoldLeft(LAMBDA acc, it : Applied(acc, it, s), base, its)

(* Each of the items F leaves V.                                             *)
Takes(V, F, s) == \A acc \in V, it \in F : Applied(acc, it, s) \in V

LEMMA ApplicationsRun ==
  ASSUME NEW V, NEW F, NEW s, NEW its \in Seq(F), NEW base \in V,
         Takes(V, F, s)
  PROVE  \E r \in [0 .. Len(its) -> V] :
           /\ r[0] = base /\ r[Len(its)] = Applications(base, its, s)
           /\ \A n \in 1 .. Len(its) : r[n] = Applied(r[n - 1], its[n], s)
<1>1. Len(its) \in Nat /\ DOMAIN its = 1 .. Len(its) /\ \A n \in 1 .. Len(its) : its[n] \in F
  OBVIOUS
<1> DEFINE U == DOMAIN its
           Largest(t) == CHOOSE m \in t : \A k \in t : m >= k
<1>2. ASSUME NEW t \in SUBSET U, t # {} PROVE Largest(t) \in t /\ \A k \in t : Largest(t) >= k
  BY <1>1, <1>2, LargestOne
<1> DEFINE pick == [t \in SUBSET U |-> Largest(t)]
           G == [p \in U \X V |-> Applied(p[2], its[p[1]], s)]
           Works(j) == j = [t \in SUBSET U |-> IF t = {} THEN base ELSE Applied(j[t \ {Largest(t)}], its[Largest(t)], s)]
<1>3. IsFiniteSet(U)
  BY <1>1, FS_Interval
<1>4. G \in [U \X V -> V] /\ \A n \in U, v \in V : G[<<n, v>>] = Applied(v, its[n], s)
  BY <1>1 DEF Takes
<1>5. \A t \in SUBSET U : pick[t] = Largest(t) /\ (t # {} => pick[t] \in t)
  BY <1>2
<1> HIDE DEF G, pick, Largest
<1>6. PICK it \in [SUBSET U -> V] : IsFoldBy(it, base, G, U, pick)
  BY <1>3, <1>4, <1>5, FoldByExists
<1>7. Works(it)
  <2>1. \A t \in SUBSET U : t # {} => /\ G[<<pick[t], it[t \ {pick[t]}]>>] = Applied(it[t \ {Largest(t)}], its[Largest(t)], s)
    BY <1>4, <1>5
  <2> QED BY <1>6, <2>1 DEF IsFoldBy
<1>8. PICK j : Works(j) /\ Applications(base, its, s) = j[U]
  BY <1>7, Zenon DEF Applications, FoldLeft, MapThenFoldSet, Max, Largest
<1> DEFINE r == [n \in 0 .. Len(its) |-> j[1 .. n]]
<1>9. j[{}] = base /\ \A t \in SUBSET U : t # {} => j[t] = Applied(j[t \ {Largest(t)}], its[Largest(t)], s)
  BY <1>8
<1>10. \A n \in U : /\ (1 .. n) \in SUBSET U /\ 1 .. n # {} /\ Largest(1 .. n) = n
                     /\ (1 .. n) \ {n} = 1 .. (n - 1) /\ n - 1 \in 0 .. Len(its)
  <2> SUFFICES ASSUME NEW n \in U
               PROVE  /\ (1 .. n) \in SUBSET U /\ 1 .. n # {} /\ Largest(1 .. n) = n
                      /\ (1 .. n) \ {n} = 1 .. (n - 1) /\ n - 1 \in 0 .. Len(its)
    OBVIOUS
  <2>1. n \in Nat /\ n >= 1 /\ n <= Len(its)
    BY <1>1
  <2>2. (1 .. n) \in SUBSET U /\ n \in 1 .. n
    BY <1>1, <2>1
  <2>3. Largest(1 .. n) \in 1 .. n /\ Largest(1 .. n) >= n
    BY <1>2, <2>2
  <2> QED BY <1>1, <2>1, <2>2, <2>3
<1>11. r[0] = base /\ \A n \in 1 .. Len(its) : r[n] = Applied(r[n - 1], its[n], s)
  <2>1. 0 \in 0 .. Len(its) /\ 1 .. 0 = {} /\ r[0] = j[{}]
    BY <1>1
  <2>2. ASSUME NEW n \in U PROVE r[n] = Applied(r[n - 1], its[n], s)
    <3>1. r[n] = j[1 .. n] /\ r[n - 1] = j[1 .. (n - 1)]
      <4>1. n \in 0 .. Len(its) /\ n - 1 \in 0 .. Len(its)
        BY <1>1, <1>10
      <4>2. \A m \in 0 .. Len(its) : r[m] = j[1 .. m]
        OBVIOUS
      <4> HIDE DEF r, U
      <4> QED BY <4>1, <4>2
    <3>2. j[1 .. n] = Applied(j[1 .. (n - 1)], its[n], s)
      BY <1>9, <1>10
    <3> QED BY <3>1, <3>2
  <2> QED BY <1>1, <1>9, <2>1, <2>2
<1>12. r[Len(its)] = Applications(base, its, s)
  BY <1>1, <1>8
<1> DEFINE Q == {n \in Nat : n <= Len(its) => r[n] \in V}
<1> HIDE DEF r
<1>13. Q = Nat
  <2>1. 0 \in Q
    BY <1>11
  <2>2. ASSUME NEW n \in Q PROVE n + 1 \in Q
    <3> SUFFICES ASSUME n + 1 <= Len(its) PROVE r[n + 1] \in V
      OBVIOUS
    <3>1. n + 1 \in 1 .. Len(its) /\ (n + 1) - 1 = n /\ r[n] \in V
      BY <1>1
    <3> QED BY <1>1, <1>11, <3>1 DEF Takes
  <2>3. Q \in SUBSET Nat
    OBVIOUS
  <2> HIDE DEF Q
  <2> QED BY <2>1, <2>2, <2>3, CountInduction
<1>14. r \in [0 .. Len(its) -> V]
  <2>1. r = [n \in 0 .. Len(its) |-> r[n]]
    BY DEF r
  <2>2. \A n \in 0 .. Len(its) : r[n] \in V
    BY <1>1, <1>13
  <2> QED BY <2>1, <2>2
<1> QED BY <1>11, <1>12, <1>14

(* Whatever each item leaves true, all of them leave true.                   *)
LEMMA ApplicationsStay ==
  ASSUME NEW V, NEW F, NEW s, NEW its \in Seq(F), NEW base \in V,
         Takes(V, F, s)
  PROVE  Applications(base, its, s) \in V
<1>1. PICK r \in [0 .. Len(its) -> V] :
           /\ r[0] = base /\ r[Len(its)] = Applications(base, its, s)
           /\ \A n \in 1 .. Len(its) : r[n] = Applied(r[n - 1], its[n], s)
  BY ApplicationsRun
<1>2. Len(its) \in 0 .. Len(its)
  OBVIOUS
<1> QED BY <1>1, <1>2

-----------------------------------------------------------------------------
(* The types of DeviceRows.                                                  *)
NoteRow == [home : Home \cup {"none"}, uid : Nat, text : SUBSET Nat, dirty : BOOLEAN,
            released : BOOLEAN, rev : Nat]
StoredItem == [space : Home, gone : BOOLEAN, text : SUBSET Nat, num : Nat]
PulledItem == [uid : Nat, gone : BOOLEAN, text : SUBSET Nat]
QueuedDeletion == [uid : Nat, space : Home]
PushedRow == [prev : Nat, uid : Nat, text : SUBSET Nat, rev : Nat, base : Nat]
Step == {"idle", "pull", "settle", "drain", "fetch", "send", "ack", "tail", "finish"}
Side == Home \cup {"all"}
SyncState == [at : Step \X Side, share : {"unnamed", "gone", "changed"}, stoken : Nat, open : SUBSET Home,
              complete : BOOLEAN, refused : [Home -> Seq(PulledItem)], reached : [Home -> Nat],
              push : PushedRow]

(* Item u is one of space s.                                                 *)
IsOf(it, u, s) == u \in DOMAIN it /\ it[u].space = s
PulledOf(it, s) == {p \in PulledItem : IsOf(it, p.uid, s)}

(* The items keep their spaces, and no two have a number.                    *)
SpacesKept(it, it2) == \A u \in DOMAIN it : u \in DOMAIN it2 /\ it2[u].space = it[u].space
Distinct(it) == \A u, v \in DOMAIN it : it[u].num = it[v].num => u = v

ServerTyped(it, co) ==
  /\ it \in Seq(StoredItem) /\ co \in Nat /\ Distinct(it)
  /\ \A u \in DOMAIN it : it[u].num <= co

LEMMA ItemsAre ==
  ASSUME NEW it, NEW co, ServerTyped(it, co)
  PROVE  /\ Len(it) \in Nat /\ DOMAIN it = 1 .. Len(it) /\ IsFiniteSet(DOMAIN it)
         /\ \A u \in DOMAIN it : /\ it[u] \in StoredItem /\ it[u].space \in Home /\ it[u].gone \in BOOLEAN
                                 /\ it[u].text \in SUBSET Nat /\ it[u].num \in Nat /\ u \in Nat
<1>1. it \in Seq(StoredItem)
  BY DEF ServerTyped
<1>2. Len(it) \in Nat /\ DOMAIN it = 1 .. Len(it) /\ \A u \in DOMAIN it : it[u] \in StoredItem
  BY <1>1
<1>3. IsFiniteSet(1 .. Len(it))
  BY <1>2, FS_Interval
<1>4. \A u \in DOMAIN it : /\ it[u].space \in Home /\ it[u].gone \in BOOLEAN
                           /\ it[u].text \in SUBSET Nat /\ it[u].num \in Nat /\ u \in Nat
  BY <1>2 DEF StoredItem
<1> QED BY <1>2, <1>3, <1>4

LEMMA ChangedAre ==
  ASSUME ServerTyped(items, newest), NEW d \in Device, NEW s \in Home
  PROVE  /\ IsFiniteSet(Changed(d, s)) /\ Cardinality(Changed(d, s)) \in Nat
         /\ \A u \in Changed(d, s) : u \in DOMAIN items /\ items[u].space = s /\ items[u].num > cur[d][s]
<1>1. IsFiniteSet(DOMAIN items)
  BY ItemsAre
<1>2. \A u \in Changed(d, s) : u \in DOMAIN items /\ items[u].space = s /\ items[u].num > cur[d][s]
  BY DEF Changed
<1>3. IsFiniteSet(Changed(d, s))
  BY <1>1, <1>2, FS_Subset
<1> QED BY <1>2, <1>3, FS_CardinalityType

LEMMA NewsInOrder ==
  ASSUME ServerTyped(items, newest), NEW d \in Device, NEW s \in Home, ~(s = "share" /\ closed)
  PROVE  \E q : /\ Ordered(q, [u \in Changed(d, s) |-> items[u].num], Changed(d, s))
                /\ News(d, s) = [i \in 1 .. Cardinality(Changed(d, s)) |->
                      [uid |-> q[i], gone |-> items[q[i]].gone, text |-> items[q[i]].text]]
<1> DEFINE S == Changed(d, s)
           key == [u \in S |-> items[u].num]
           Fine(q) == \A i, j \in DOMAIN q : i < j => items[q[i]].num < items[q[j]].num
<1>1. \A u \in S : u \in DOMAIN items
  BY ChangedAre
<1>2. IsFiniteSet(S)
  BY ChangedAre
<1>3. key \in [S -> Nat] /\ \A x, y \in S : key[x] = key[y] => x = y
  <2>1. \A u \in S : items[u].num \in Nat
    BY <1>1, ItemsAre
  <2>2. \A x, y \in S : items[x].num = items[y].num => x = y
    BY <1>1 DEF ServerTyped, Distinct
  <2> HIDE DEF S
  <2> QED BY <2>1, <2>2
<1>4. PICK p : Ordered(p, key, S)
  <2> HIDE DEF S, key
  <2> QED BY <1>2, <1>3, OrderExists
<1>5. p \in [1 .. Cardinality(S) -> S] /\ Fine(p)
  BY <1>4 DEF Ordered
<1>6. PICK q : /\ q = CHOOSE r \in [1 .. Cardinality(S) -> S] : Fine(r)
               /\ q \in [1 .. Cardinality(S) -> S] /\ Fine(q)
  <2> HIDE DEF Fine, S
  <2> QED BY <1>5
<1>7. Ordered(q, key, S)
  BY <1>6 DEF Ordered
<1>8. News(d, s) = [i \in DOMAIN q |-> [uid |-> q[i], gone |-> items[q[i]].gone, text |-> items[q[i]].text]]
  BY <1>6 DEF News
<1>9. DOMAIN q = 1 .. Cardinality(S)
  BY <1>6
<1> QED BY <1>7, <1>8, <1>9

(* News are items of the space as the server has them.                       *)
LEMMA NewsAreOf ==
  ASSUME ServerTyped(items, newest), NEW d \in Device, NEW s \in Home
  PROVE  News(d, s) \in Seq(PulledOf(items, s))
<1>1. CASE s = "share" /\ closed
  BY <1>1 DEF News
<1>2. CASE ~(s = "share" /\ closed)
  <2> DEFINE S == Changed(d, s)
  <2>1. PICK q : /\ Ordered(q, [u \in S |-> items[u].num], S)
                 /\ News(d, s) = [i \in 1 .. Cardinality(S) |->
                      [uid |-> q[i], gone |-> items[q[i]].gone, text |-> items[q[i]].text]]
    BY <1>2, NewsInOrder
  <2>3. Cardinality(S) \in Nat
    BY ChangedAre
  <2>4. ASSUME NEW u \in S PROVE [uid |-> u, gone |-> items[u].gone, text |-> items[u].text] \in PulledOf(items, s)
    <3>1. /\ u \in DOMAIN items /\ items[u].space = s /\ u \in Nat /\ items[u].gone \in BOOLEAN
          /\ items[u].text \in SUBSET Nat
      BY ChangedAre, ItemsAre
    <3> QED BY <3>1 DEF PulledOf, PulledItem, IsOf
  <2>5. q \in [1 .. Cardinality(S) -> S]
    BY <2>1 DEF Ordered
  <2> HIDE DEF S
  <2>6. News(d, s) \in [1 .. Cardinality(S) -> PulledOf(items, s)]
    BY <2>1, <2>4, <2>5
  <2> QED BY <2>3, <2>6, SeqDef
<1> QED BY <1>1, <1>2

-----------------------------------------------------------------------------
(* What holds of a device's row, of its queued deletions and of its sync,  *)
(* for the items as the server has them.                                   *)
RowFits(it, r) ==
  /\ r \in NoteRow
  /\ r.uid # 0 => IsOf(it, r.uid, r.home) /\ ~r.released
  /\ r # NoRow /\ r.uid = 0 => r.dirty

TombFits(it, tb) == tb \subseteq QueuedDeletion /\ \A t \in tb : IsOf(it, t.uid, t.space)

SyncFits(it, sy) ==
  /\ sy \in SyncState
  /\ \A s \in Home :
       /\ sy.refused[s] \in Seq(PulledOf(it, s))
       /\ sy.at = <<"send", s>> => sy.push.uid = 0 \/ IsOf(it, sy.push.uid, s)
       /\ sy.at = <<"ack", s>> => IsOf(it, sy.push.uid, s)

(* All that is needed of the server and of the devices.                    *)
RowsInv ==
  /\ ServerTyped(items, newest)
  /\ ops \in Nat
  /\ DOMAIN row = Device /\ DOMAIN tomb = Device /\ DOMAIN sync = Device
  /\ \A d \in Device : RowFits(items, row[d]) /\ TombFits(items, tomb[d]) /\ SyncFits(items, sync[d])

(* What a step of device d does: it leaves the other devices alone and its *)
(* own state in order, and no item changes its space.                      *)
Lands(d) ==
  /\ ServerTyped(items', newest')
  /\ SpacesKept(items, items')
  /\ ops' \in Nat
  /\ DOMAIN row' = Device /\ DOMAIN tomb' = Device /\ DOMAIN sync' = Device
  /\ \A e \in Device \ {d} : row'[e] = row[e] /\ tomb'[e] = tomb[e] /\ sync'[e] = sync[e]
  /\ RowFits(items', row'[d]) /\ TombFits(items', tomb'[d]) /\ SyncFits(items', sync'[d])

LEMMA FitsStable ==
  ASSUME NEW it, NEW it2, SpacesKept(it, it2), NEW r, NEW tb, NEW sy
  PROVE  /\ RowFits(it, r) => RowFits(it2, r)
         /\ TombFits(it, tb) => TombFits(it2, tb)
         /\ SyncFits(it, sy) => SyncFits(it2, sy)
<1>1. \A u, s : IsOf(it, u, s) => IsOf(it2, u, s)
  BY DEF IsOf, SpacesKept
<1>2. \A s : PulledOf(it, s) \subseteq PulledOf(it2, s)
  BY <1>1 DEF PulledOf
<1>3. \A s : Seq(PulledOf(it, s)) \subseteq Seq(PulledOf(it2, s))
  BY <1>2
<1>4. RowFits(it, r) => RowFits(it2, r)
  BY <1>1 DEF RowFits
<1>5. TombFits(it, tb) => TombFits(it2, tb)
  BY <1>1 DEF TombFits
<1>6. SyncFits(it, sy) => SyncFits(it2, sy)
  BY <1>1, <1>3 DEF SyncFits
<1> QED BY <1>4, <1>5, <1>6

LEMMA LandsKeeps ==
  ASSUME RowsInv, NEW d \in Device, Lands(d)
  PROVE  RowsInv'
<1>1. ASSUME NEW e \in Device
      PROVE  RowFits(items', row'[e]) /\ TombFits(items', tomb'[e]) /\ SyncFits(items', sync'[e])
  <2>1. CASE e = d
    BY <2>1 DEF Lands
  <2>2. CASE e # d
    <3>1. row'[e] = row[e] /\ tomb'[e] = tomb[e] /\ sync'[e] = sync[e] /\ SpacesKept(items, items')
      BY <2>2 DEF Lands
    <3>2. RowFits(items, row[e]) /\ TombFits(items, tomb[e]) /\ SyncFits(items, sync[e])
      BY DEF RowsInv
    <3> QED BY <3>1, <3>2, FitsStable
  <2> QED BY <2>1, <2>2
<1> QED BY <1>1 DEF RowsInv, Lands

(* A step that leaves the items alone.                                     *)
LEMMA ItemsRest ==
  ASSUME RowsInv, items' = items, newest' \in Nat, newest <= newest'
  PROVE  ServerTyped(items', newest') /\ SpacesKept(items, items')
<1>1. ServerTyped(items, newest)
  BY DEF RowsInv
<1>2. \A u \in DOMAIN items : items[u].num \in Nat
  BY <1>1, ItemsAre
<1>3. \A u \in DOMAIN items : items[u].num <= newest'
  BY <1>1, <1>2 DEF ServerTyped
<1>4. SpacesKept(items, items')
  BY DEF SpacesKept
<1> QED BY <1>1, <1>3, <1>4 DEF ServerTyped

LEMMA NoRowFits == ASSUME NEW it PROVE RowFits(it, NoRow)
  BY DEF RowFits, NoRow, NoteRow

LEMMA NoSyncFits == ASSUME NEW it PROVE SyncFits(it, NoSync)
<1>1. NoSync \in SyncState
  <2>1. NoPush \in PushedRow
    BY DEF NoPush, PushedRow
  <2>2. [s \in Home |-> <<>>] \in [Home -> Seq(PulledItem)]
    <3>1. <<>> \in Seq(PulledItem)
      BY EmptySeq
    <3> QED BY <3>1
  <2>3. <<"idle", "all">> \in Step \X Side
    BY DEF Step, Side
  <2>4. [s \in Home |-> 0] \in [Home -> Nat] /\ {} \in SUBSET Home
    OBVIOUS
  <2>5. TRUE \in BOOLEAN
    BY Zenon
  <2> QED BY <2>1, <2>2, <2>3, <2>4, <2>5 DEF NoSync, SyncState
<1>2. NoSync.at = <<"idle", "all">> /\ \A s \in Home : NoSync.refused[s] = <<>>
  BY DEF NoSync
<1>3. \A s \in Home : <<>> \in Seq(PulledOf(it, s))
  BY EmptySeq
<1>4. \A s \in Home : NoSync.at # <<"send", s>> /\ NoSync.at # <<"ack", s>>
  BY <1>2
<1> QED BY <1>1, <1>2, <1>3, <1>4, Zenon DEF SyncFits

-----------------------------------------------------------------------------
(* What a pulled item does to a row.                                       *)
Pulling(it, s) == [row : {r \in NoteRow : RowFits(it, r)}, refused : Seq(PulledOf(it, s))]

LEMMA AppliedFits ==
  ASSUME NEW it, DOMAIN it \subseteq Nat \ {0}, NEW s \in Home
  PROVE  Takes(Pulling(it, s), PulledOf(it, s), s)
<1> SUFFICES ASSUME NEW acc \in Pulling(it, s), NEW p \in PulledOf(it, s)
             PROVE  Applied(acc, p, s) \in Pulling(it, s)
  BY DEF Takes
<1>1. /\ acc.row \in NoteRow /\ RowFits(it, acc.row) /\ acc.refused \in Seq(PulledOf(it, s))
      /\ acc = [row |-> acc.row, refused |-> acc.refused]
  BY DEF Pulling
<1>2. p \in PulledItem /\ IsOf(it, p.uid, s) /\ p.uid # 0 /\ p.uid \in Nat /\ p.text \in SUBSET Nat
  BY DEF PulledOf, PulledItem, IsOf
<1>3. RowFits(it, Deleted(acc.row, p, s))
  <2>1. [acc.row EXCEPT !.uid = 0, !.released = TRUE] \in NoteRow
    BY <1>1 DEF NoteRow
  <2>2. CASE acc.row.dirty
    BY <1>1, <2>1, <2>2 DEF Deleted, RowFits, NoteRow
  <2>3. CASE ~acc.row.dirty
    BY <1>1, <2>3, NoRowFits DEF Deleted
  <2> QED BY <2>2, <2>3
<1>4. RowFits(it, Written(acc.row, p, s))
  <2>1. Written(acc.row, p, s) \in NoteRow
    BY <1>1, <1>2 DEF NoteRow, Written
  <2> QED BY <1>1, <1>2, <2>1 DEF Written, RowFits, NoteRow
<1>5. \A r \in NoteRow : RowFits(it, r) => [acc EXCEPT !.row = r] \in Pulling(it, s)
  BY <1>1 DEF Pulling
<1>6. Append(acc.refused, p) \in Seq(PulledOf(it, s))
  BY <1>1
<1>7. [acc EXCEPT !.refused = Append(@, p)] \in Pulling(it, s)
  BY <1>1, <1>6 DEF Pulling
<1>8. Deleted(acc.row, p, s) \in NoteRow /\ Written(acc.row, p, s) \in NoteRow
  BY <1>3, <1>4 DEF RowFits
<1> QED BY <1>3, <1>4, <1>5, <1>7, <1>8 DEF Applied

(* It never takes an edit that was not sent.                               *)
Unsent(it, s, T) == {acc \in Pulling(it, s) : acc.row.dirty /\ T \subseteq acc.row.text}

LEMMA AppliedKeeps ==
  ASSUME NEW it, DOMAIN it \subseteq Nat \ {0}, NEW s \in Home, NEW T
  PROVE  Takes(Unsent(it, s, T), PulledOf(it, s), s)
<1> SUFFICES ASSUME NEW acc \in Unsent(it, s, T), NEW p \in PulledOf(it, s)
             PROVE  Applied(acc, p, s) \in Unsent(it, s, T)
  BY DEF Takes
<1>1. Applied(acc, p, s) \in Pulling(it, s)
  BY AppliedFits DEF Takes, Unsent
<1>2. /\ acc.row \in NoteRow /\ acc.row.dirty /\ T \subseteq acc.row.text
      /\ acc = [row |-> acc.row, refused |-> acc.refused]
  BY DEF Unsent, Pulling
<1>3. Deleted(acc.row, p, s).dirty /\ T \subseteq Deleted(acc.row, p, s).text
  BY <1>2 DEF Deleted, NoteRow
<1>4. Written(acc.row, p, s).dirty /\ T \subseteq Written(acc.row, p, s).text
  BY <1>2 DEF Written, NoteRow
<1>5. \A r : [acc EXCEPT !.row = r].row = r
  BY <1>2
<1>6. [acc EXCEPT !.refused = Append(@, p)].row = acc.row
  BY <1>2
<1>7. Applied(acc, p, s).row.dirty /\ T \subseteq Applied(acc, p, s).row.text
  BY <1>2, <1>3, <1>4, <1>5, <1>6 DEF Applied
<1> QED BY <1>1, <1>7 DEF Unsent

(* What a sync makes of the items it pulls.                                *)
LEMMA PullFits ==
  ASSUME RowsInv, NEW s \in Home, NEW its \in Seq(PulledOf(items, s)), NEW r, RowFits(items, r)
  PROVE  LET base == [row |-> r, refused |-> <<>>]
         IN  /\ Applications(base, its, s) \in Pulling(items, s)
             /\ r.dirty => Applications(base, its, s) \in Unsent(items, s, r.text)
<1> DEFINE base == [row |-> r, refused |-> <<>>]
<1>1. DOMAIN items \subseteq Nat \ {0}
  <2>1. Len(items) \in Nat /\ DOMAIN items = 1 .. Len(items)
    BY ItemsAre DEF RowsInv
  <2> QED BY <2>1
<1>2. base \in Pulling(items, s)
  BY DEF Pulling, RowFits
<1>3. r.dirty => base \in Unsent(items, s, r.text)
  BY <1>2 DEF Unsent
<1> HIDE DEF base
<1>4. Applications(base, its, s) \in Pulling(items, s)
  BY <1>1, <1>2, AppliedFits, ApplicationsStay
<1>5. r.dirty => Applications(base, its, s) \in Unsent(items, s, r.text)
  BY <1>1, <1>3, AppliedKeeps, ApplicationsStay
<1> QED BY <1>4, <1>5 DEF base

-----------------------------------------------------------------------------
(* What a device does to the server's items.                               *)
LEMMA PutFits ==
  ASSUME RowsInv, NEW s \in Home, NEW it \in StoredItem, it.space = s, it.num = newest + 1,
         NEW u, u = Len(items) + 1 \/ IsOf(items, u, s), PutRow(u, it)
  PROVE  /\ ServerTyped(items', newest')
         /\ SpacesKept(items, items')
         /\ IsOf(items', u, s)
<1>1. newest \in Nat /\ newest' = newest + 1
  BY DEF RowsInv, ServerTyped, PutRow
<1>2. /\ Len(items) \in Nat /\ DOMAIN items = 1 .. Len(items) /\ items \in Seq(StoredItem)
      /\ \A v \in DOMAIN items : items[v].num \in Nat /\ items[v].num <= newest
  BY ItemsAre DEF RowsInv, ServerTyped
<1>3. \A v, w \in DOMAIN items : items[v].num = items[w].num => v = w
  BY DEF RowsInv, ServerTyped, Distinct
<1>4. /\ items' \in Seq(StoredItem) /\ u \in DOMAIN items' /\ items'[u] = it
      /\ \A v \in DOMAIN items : v \in DOMAIN items' /\ (v # u => items'[v] = items[v])
      /\ \A v \in DOMAIN items' : v # u => v \in DOMAIN items
  <2>1. CASE u \in DOMAIN items
    <3>1. items' = [items EXCEPT ![u] = it]
      BY <2>1 DEF PutRow
    <3> QED BY <1>2, <2>1, <3>1
  <2>2. CASE u \notin DOMAIN items
    <3>1. items' = Append(items, it) /\ u = Len(items) + 1
      BY <2>2 DEF PutRow, IsOf
    <3>2. /\ items' \in Seq(StoredItem) /\ Len(items') = Len(items) + 1
          /\ \A v \in 1 .. Len(items) : items'[v] = items[v] /\ items'[Len(items) + 1] = it
      BY <1>2, <3>1, AppendProperties
    <3>3. DOMAIN items' = 1 .. Len(items) + 1 /\ items'[Len(items) + 1] = it
      BY <1>2, <3>1, <3>2
    <3> QED BY <1>2, <3>1, <3>2, <3>3
  <2> QED BY <2>1, <2>2
<1>5. \A v \in DOMAIN items' : items'[v].num <= newest' /\ (v # u => items'[v].num < newest')
  BY <1>1, <1>2, <1>4
<1>6. ASSUME NEW v \in DOMAIN items', NEW w \in DOMAIN items', items'[v].num = items'[w].num PROVE v = w
  <2>1. items'[u].num = newest' /\ newest' \in Nat
    BY <1>1, <1>4
  <2>2. CASE v = u
    BY <1>5, <1>6, <2>1, <2>2
  <2>3. CASE w = u
    BY <1>5, <1>6, <2>1, <2>3
  <2>4. CASE v # u /\ w # u
    BY <1>3, <1>4, <1>6, <2>4
  <2> QED BY <2>2, <2>3, <2>4
<1>7. ServerTyped(items', newest')
  BY <1>1, <1>4, <1>5, <1>6 DEF ServerTyped, Distinct
<1>8. u \in DOMAIN items => items[u].space = s
  BY <1>2 DEF IsOf
<1>9. SpacesKept(items, items')
  BY <1>4, <1>8 DEF SpacesKept
<1> QED BY <1>4, <1>7, <1>9 DEF IsOf

LEMMA DeletesFit ==
  ASSUME RowsInv, NEW d \in Device, NEW s \in Home, ServerDeletes(d, s)
  PROVE  ServerTyped(items', newest') /\ SpacesKept(items, items')
<1> DEFINE new == {u \in DOMAIN items : u \in Queued(d, s) /\ ~items[u].gone}
           upto(u) == {v \in new : v <= u}
<1>1. /\ newest \in Nat /\ Len(items) \in Nat /\ DOMAIN items = 1 .. Len(items)
      /\ \A u \in DOMAIN items : items[u] \in StoredItem /\ items[u].num \in Nat /\ items[u].num <= newest
  BY ItemsAre DEF RowsInv, ServerTyped
<1>2. \A v, w \in DOMAIN items : items[v].num = items[w].num => v = w
  BY DEF RowsInv, ServerTyped, Distinct
<1>3. \A u \in new : u \in DOMAIN items /\ items[u].space = s /\ u \in Nat
  <2>1. TombFits(items, tomb[d])
    BY DEF RowsInv
  <2> QED BY <1>1, <2>1 DEF Queued, TombFits, IsOf
<1>4. IsFiniteSet(new)
  BY <1>1, ItemsAre, FS_Subset DEF RowsInv
<1>5. /\ newest' = newest + Cardinality(new)
      /\ items' = [u \in DOMAIN items |->
           IF u \in new
             THEN [space |-> s, gone |-> TRUE, text |-> {}, num |-> newest + Cardinality(upto(u))]
             ELSE items[u]]
  BY DEF ServerDeletes
<1> HIDE DEF new
<1>6. Cardinality(new) \in Nat
  BY <1>4, FS_CardinalityType
<1>7. ASSUME NEW u \in new
      PROVE  /\ IsFiniteSet(upto(u)) /\ Cardinality(upto(u)) \in Nat /\ 0 < Cardinality(upto(u))
             /\ Cardinality(upto(u)) <= Cardinality(new)
  <2>1. upto(u) \subseteq new /\ u \in upto(u)
    BY <1>3
  <2> HIDE DEF upto
  <2>2. IsFiniteSet(upto(u)) /\ Cardinality(upto(u)) <= Cardinality(new)
    BY <1>4, <2>1, FS_Subset
  <2>3. Cardinality(upto(u)) \in Nat /\ Cardinality(upto(u)) # 0
    BY <2>1, <2>2, FS_CardinalityType, FS_EmptySet
  <2> QED BY <2>2, <2>3
<1>8. ASSUME NEW u \in new, NEW v \in new, u < v
      PROVE  Cardinality(upto(u)) < Cardinality(upto(v))
  <2>1. upto(u) \subseteq upto(v) /\ v \in upto(v) /\ v \notin upto(u)
    BY <1>3, <1>8
  <2>2. IsFiniteSet(upto(v)) /\ Cardinality(upto(u)) \in Nat /\ Cardinality(upto(v)) \in Nat
    BY <1>7
  <2> HIDE DEF upto
  <2>3. Cardinality(upto(u)) <= Cardinality(upto(v)) /\ Cardinality(upto(v)) # Cardinality(upto(u))
    BY <2>1, <2>2, FS_Subset
  <2> QED BY <2>2, <2>3
<1>9. /\ DOMAIN items' = DOMAIN items
      /\ \A u \in new : /\ items'[u].num = newest + Cardinality(upto(u)) /\ items'[u].space = s
                        /\ items'[u] = [space |-> s, gone |-> TRUE, text |-> {}, num |-> newest + Cardinality(upto(u))]
      /\ \A u \in DOMAIN items : u \notin new => items'[u] = items[u]
  BY <1>3, <1>5
<1> HIDE DEF upto
<1>10. \A u \in new : /\ items'[u].num \in Nat /\ newest < items'[u].num /\ items'[u].num <= newest'
                      /\ items'[u] \in StoredItem
  <2> SUFFICES ASSUME NEW u \in new
               PROVE  /\ items'[u].num \in Nat /\ newest < items'[u].num /\ items'[u].num <= newest'
                      /\ items'[u] \in StoredItem
    OBVIOUS
  <2>1. PICK c \in Nat : c = Cardinality(upto(u)) /\ 0 < c /\ c <= Cardinality(new)
    BY <1>7
  <2>2. /\ items'[u].num = newest + c
        /\ items'[u] = [space |-> s, gone |-> TRUE, text |-> {}, num |-> newest + c]
    BY <1>9, <2>1
  <2>3. newest + c \in Nat /\ newest < newest + c /\ newest + c <= newest'
    BY <1>1, <1>5, <1>6, <2>1
  <2>4. [space |-> s, gone |-> TRUE, text |-> {}, num |-> newest + c] \in StoredItem
    BY <2>3 DEF StoredItem
  <2> QED BY <2>2, <2>3, <2>4
<1>11. newest' \in Nat /\ newest <= newest'
  BY <1>1, <1>5, <1>6
<1>12. \A u \in DOMAIN items : items'[u] \in StoredItem /\ items'[u].num <= newest'
  BY <1>1, <1>9, <1>10, <1>11
<1>13. items' \in Seq(StoredItem)
  <2>1. items' \in [1 .. Len(items) -> StoredItem]
    BY <1>1, <1>5, <1>9, <1>12
  <2> QED BY <1>1, <2>1, SeqDef
<1>14. ASSUME NEW v \in DOMAIN items, NEW w \in DOMAIN items, items'[v].num = items'[w].num PROVE v = w
  <2>1. CASE v \in new /\ w \in new
    <3>1. Cardinality(upto(v)) = Cardinality(upto(w))
      <4>1. PICK b \in Nat : b = Cardinality(upto(v))
        BY <1>7, <2>1
      <4>2. PICK c \in Nat : c = Cardinality(upto(w))
        BY <1>7, <2>1
      <4>3. newest + b = newest + c
        BY <1>9, <1>14, <2>1, <4>1, <4>2
      <4> QED BY <1>1, <4>1, <4>2, <4>3
    <3>2. ~(v < w) /\ ~(w < v) /\ v \in Nat /\ w \in Nat
      BY <1>3, <1>7, <1>8, <2>1, <3>1
    <3> QED BY <3>2
  <2>2. CASE v \in new /\ w \notin new
    BY <1>1, <1>9, <1>10, <1>14, <2>2
  <2>3. CASE v \notin new /\ w \in new
    BY <1>1, <1>9, <1>10, <1>14, <2>3
  <2>4. CASE v \notin new /\ w \notin new
    BY <1>2, <1>9, <1>14, <2>4
  <2> QED BY <2>1, <2>2, <2>3, <2>4
<1>15. SpacesKept(items, items')
  BY <1>3, <1>9 DEF SpacesKept
<1> QED BY <1>9, <1>11, <1>12, <1>13, <1>14, <1>15 DEF ServerTyped, Distinct

-----------------------------------------------------------------------------
(* What is known of a device before its step.                              *)
LEMMA Before ==
  ASSUME RowsInv, NEW d \in Device
  PROVE  /\ RowFits(items, row[d]) /\ row[d] \in NoteRow
         /\ TombFits(items, tomb[d])
         /\ SyncFits(items, sync[d]) /\ sync[d] \in SyncState
         /\ DOMAIN row = Device /\ DOMAIN tomb = Device /\ DOMAIN sync = Device
         /\ ops \in Nat /\ newest \in Nat
         /\ ServerTyped(items, newest)
  BY DEF RowsInv, RowFits, SyncFits, ServerTyped

(* What a user does.                                                       *)
LEMMA RetiredFits ==
  ASSUME RowsInv, NEW d \in Device
  PROVE  TombFits(items, tomb[d] \cup Retired(row[d]))
<1>1. CASE row[d].uid = 0
  BY <1>1, Before DEF Retired
<1>2. CASE row[d].uid # 0
  <2>1. row[d].uid \in DOMAIN items /\ items[row[d].uid].space = row[d].home /\ row[d].uid \in Nat
    BY <1>2, Before DEF RowFits, IsOf, NoteRow
  <2>2. row[d].home \in Home
    BY <2>1, Before, ItemsAre
  <2>3. [uid |-> row[d].uid, space |-> row[d].home] \in QueuedDeletion
    BY <2>1, <2>2 DEF QueuedDeletion
  <2> QED BY <1>2, <2>1, <2>3, Before DEF TombFits, Retired, IsOf
<1> QED BY <1>1, <1>2

LEMMA RehomeFits ==
  ASSUME RowsInv, NEW d \in Device, NEW s \in Home, NEW rev \in Nat, Rehome(d, s, rev)
  PROVE  /\ DOMAIN row' = Device /\ DOMAIN tomb' = Device
         /\ \A e \in Device \ {d} : row'[e] = row[e] /\ tomb'[e] = tomb[e]
         /\ RowFits(items, row'[d]) /\ TombFits(items, tomb'[d])
<1>1. /\ tomb' = [tomb EXCEPT ![d] = @ \cup Retired(row[d])]
      /\ row' = [row EXCEPT ![d] = [@ EXCEPT !.home = s, !.uid = 0, !.dirty = TRUE, !.released = FALSE, !.rev = rev]]
  BY DEF Rehome
<1>2. PICK r : r = [row[d] EXCEPT !.home = s, !.uid = 0, !.dirty = TRUE, !.released = FALSE, !.rev = rev]
  OBVIOUS
<1>3. r \in NoteRow /\ r.uid = 0 /\ r.dirty
  BY <1>2, Before DEF NoteRow
<1>4. RowFits(items, r)
  BY <1>3 DEF RowFits
<1>5. row'[d] = r /\ tomb'[d] = tomb[d] \cup Retired(row[d])
  BY <1>1, <1>2, Before
<1>6. TombFits(items, tomb'[d])
  BY <1>5, RetiredFits
<1> QED BY <1>1, <1>4, <1>5, <1>6, Before

LEMMA UserLands ==
  ASSUME RowsInv, NEW d \in Device, User(d)
  PROVE  Lands(d)
<1>1. ASSUME NEW s \in Home, Create(d, s) PROVE Lands(d)
  <2>1. /\ ops' = 1 /\ UNCHANGED <<items, newest, tomb, sync>>
        /\ row' = [row EXCEPT ![d] = [home |-> s, uid |-> 0, text |-> {1}, dirty |-> TRUE,
                                released |-> FALSE, rev |-> 1]]
    BY <1>1 DEF Create, server
  <2>2. PICK r : r = [home |-> s, uid |-> 0, text |-> {1}, dirty |-> TRUE, released |-> FALSE, rev |-> 1]
    OBVIOUS
  <2>3. RowFits(items, r)
    BY <2>2 DEF RowFits, NoteRow
  <2>4. row'[d] = r /\ DOMAIN row' = Device /\ \A e \in Device \ {d} : row'[e] = row[e]
    BY <2>1, <2>2, Before
  <2>5. ServerTyped(items', newest') /\ SpacesKept(items, items')
    BY <2>1, Before, ItemsRest
  <2> QED BY <2>1, <2>3, <2>4, <2>5, Before DEF Lands
<1>2. ASSUME NEW s \in Home, Move(d, s) PROVE Lands(d)
  <2>1. ops' = ops + 1 /\ UNCHANGED <<items, newest, sync>> /\ Rehome(d, s, ops')
    BY <1>2 DEF Move, Does, server
  <2>2. ops' \in Nat
    BY <2>1, Before
  <2> QED BY <2>1, <2>2, Before, RehomeFits, ItemsRest DEF Lands
<1>3. CASE Edit(d)
  <2>1. /\ ops' = ops + 1 /\ UNCHANGED <<items, newest, tomb, sync>>
        /\ row' = [row EXCEPT ![d].text = @ \cup {ops'}, ![d].dirty = TRUE, ![d].rev = ops']
    BY <1>3 DEF Edit, Does, server
  <2>2. PICK o \in Nat : o = ops'
    BY <2>1, Before
  <2>3. PICK r : r = [row[d] EXCEPT !.text = @ \cup {o}, !.dirty = TRUE, !.rev = o]
    OBVIOUS
  <2>4. r \in NoteRow /\ r.uid = row[d].uid /\ r.home = row[d].home /\ r.released = row[d].released /\ r.dirty
    BY <2>3, Before DEF NoteRow
  <2>5. RowFits(items, r)
    <3>1. row[d].uid # 0 => IsOf(items, row[d].uid, row[d].home) /\ ~row[d].released
      BY Before DEF RowFits
    <3> QED BY <2>4, <3>1 DEF RowFits
  <2>6. row'[d] = r /\ DOMAIN row' = Device /\ \A e \in Device \ {d} : row'[e] = row[e]
    BY <2>1, <2>2, <2>3, Before
  <2> QED BY <2>1, <2>2, <2>5, <2>6, Before, ItemsRest DEF Lands
<1>4. CASE Delete(d)
  <2>1. /\ ops' = ops + 1 /\ UNCHANGED <<items, newest, sync>>
        /\ row' = [row EXCEPT ![d] = NoRow]
        /\ tomb' = [tomb EXCEPT ![d] = @ \cup Retired(row[d])]
    BY <1>4 DEF Delete, Does, server
  <2>2. ops' \in Nat
    BY <2>1, Before
  <2>3. /\ row'[d] = NoRow /\ tomb'[d] = tomb[d] \cup Retired(row[d])
        /\ DOMAIN row' = Device /\ DOMAIN tomb' = Device
        /\ \A e \in Device \ {d} : row'[e] = row[e] /\ tomb'[e] = tomb[e]
    BY <2>1, Before
  <2> QED BY <2>1, <2>2, <2>3, Before, NoRowFits, RetiredFits, ItemsRest DEF Lands
<1>5. ASSUME NEW reaches \in BOOLEAN, StopSharing(d, reaches) PROVE Lands(d)
  <2>1. ops' = ops + 1 /\ UNCHANGED <<items, sync>>
    BY <1>5 DEF StopSharing, Does
  <2>2. ops' \in Nat
    BY <2>1, Before
  <2>3. newest' = newest \/ newest' = newest + 1
    BY <1>5 DEF StopSharing
  <2>4. newest' \in Nat /\ newest <= newest'
    BY <2>3, Before
  <2>5. CASE row[d].home = "share"
    <3>1. Rehome(d, "vault", row[d].rev) /\ row[d].rev \in Nat /\ "vault" \in Home
      BY <1>5, <2>5, Before DEF StopSharing, NoteRow, Home
    <3> QED BY <2>1, <2>2, <2>4, <3>1, Before, RehomeFits, ItemsRest DEF Lands
  <2>6. CASE row[d].home # "share"
    <3>1. UNCHANGED <<row, tomb>>
      BY <1>5, <2>6 DEF StopSharing
    <3> QED BY <2>1, <2>2, <2>4, <3>1, Before, ItemsRest DEF Lands
  <2> QED BY <2>5, <2>6
<1> QED BY <1>1, <1>2, <1>3, <1>4, <1>5 DEF User

-----------------------------------------------------------------------------
(* Where a sync is while it sends nothing.                                 *)
NotSending(a) == a \in Step \X Side /\ \A s \in Home : a # <<"send", s>> /\ a # <<"ack", s>>

LEMMA NextPlaces ==
  ASSUME NEW open, NEW s \in Home
  PROVE  /\ NotSending(ToDrains(open)) /\ NotSending(AfterDrain(s, open)) /\ NotSending(AfterPush(s, open))
         /\ NotSending(Finish) /\ NotSending(<<"settle", "all">>) /\ NotSending(<<"pull", s>>)
         /\ NotSending(<<"tail", s>>) /\ NotSending(<<"fetch", s>>)
<1>1. \A t \in Home : NotSending(<<"drain", t>>) /\ NotSending(<<"fetch", t>>)
                      /\ NotSending(<<"tail", t>>) /\ NotSending(<<"pull", t>>)
  BY DEF NotSending, Step, Side
<1>2. NotSending(Finish) /\ NotSending(<<"settle", "all">>)
  BY DEF NotSending, Step, Side, Finish
<1>3. "vault" \in Home /\ "share" \in Home
  BY DEF Home
<1> HIDE DEF Finish
<1>4. NotSending(ToVaultPush(open))
  BY <1>1, <1>2, <1>3 DEF ToVaultPush
<1>5. NotSending(ToDrainShare(open))
  BY <1>1, <1>3, <1>4 DEF ToDrainShare
<1>6. NotSending(ToDrains(open))
  BY <1>1, <1>3, <1>5 DEF ToDrains
<1>7. NotSending(AfterDrain(s, open))
  BY <1>1, <1>3, <1>5 DEF AfterDrain
<1>8. NotSending(AfterPush(s, open))
  BY <1>2, <1>4 DEF AfterPush
<1> QED BY <1>1, <1>2, <1>6, <1>7, <1>8

(* A sync that goes on, with what it has refused so far.                   *)
LEMMA Onward ==
  ASSUME NEW it, NEW sy, SyncFits(it, sy), NEW a, NotSending(a)
  PROVE  /\ SyncFits(it, [sy EXCEPT !.at = a])
         /\ SyncFits(it, [sy EXCEPT !.at = a, !.push = NoPush])
         /\ \A c \in BOOLEAN : SyncFits(it, [sy EXCEPT !.at = a, !.complete = c])
<1>1. /\ sy \in SyncState
      /\ \A s \in Home : sy.refused[s] \in Seq(PulledOf(it, s)) /\ a # <<"send", s>> /\ a # <<"ack", s>>
      /\ a \in Step \X Side
  BY DEF SyncFits, NotSending
<1>2. NoPush \in PushedRow
  BY DEF NoPush, PushedRow
<1>3. \A sy2 \in SyncState : sy2.at = a /\ sy2.refused = sy.refused => SyncFits(it, sy2)
  BY <1>1 DEF SyncFits
<1>4. [sy EXCEPT !.at = a] \in SyncState /\ [sy EXCEPT !.at = a, !.push = NoPush] \in SyncState
  BY <1>1, <1>2 DEF SyncState
<1>5. \A c \in BOOLEAN : [sy EXCEPT !.at = a, !.complete = c] \in SyncState
  BY <1>1 DEF SyncState
<1>6. /\ [sy EXCEPT !.at = a].at = a /\ [sy EXCEPT !.at = a].refused = sy.refused
      /\ [sy EXCEPT !.at = a, !.push = NoPush].at = a
      /\ [sy EXCEPT !.at = a, !.push = NoPush].refused = sy.refused
      /\ \A c : [sy EXCEPT !.at = a, !.complete = c].at = a /\ [sy EXCEPT !.at = a, !.complete = c].refused = sy.refused
  BY <1>1 DEF SyncState
<1> QED BY <1>3, <1>4, <1>5, <1>6

(* A step that changes nothing of the device but its sync.                 *)
LEMMA SyncLands ==
  ASSUME RowsInv, NEW d \in Device, NEW sy, sync' = [sync EXCEPT ![d] = sy],
         row' = row, tomb' = tomb, ops' = ops,
         ServerTyped(items', newest'), SpacesKept(items, items'), SyncFits(items', sy)
  PROVE  Lands(d)
<1>1. sync'[d] = sy /\ DOMAIN sync' = Device /\ \A e \in Device \ {d} : sync'[e] = sync[e]
  BY Before
<1>2. RowFits(items', row'[d]) /\ TombFits(items', tomb'[d])
  BY Before, FitsStable
<1> QED BY <1>1, <1>2, Before DEF Lands

LEMMA QuietLands ==
  ASSUME RowsInv, NEW d \in Device, NEW sy, sync' = [sync EXCEPT ![d] = sy],
         UNCHANGED <<server, row, tomb, ops>>, SyncFits(items, sy)
  PROVE  Lands(d)
<1>1. items' = items /\ newest' = newest /\ row' = row /\ tomb' = tomb /\ ops' = ops
  BY DEF server
<1>2. ServerTyped(items', newest') /\ SpacesKept(items, items')
  BY <1>1, Before, ItemsRest
<1> QED BY <1>1, <1>2, SyncLands

LEMMA FailureFits ==
  ASSUME RowsInv, NEW d \in Device, NEW s \in Home
  PROVE  SyncFits(items, AfterFailure(d, s))
<1>1. CASE s = "vault"
  BY <1>1, NoSyncFits DEF AfterFailure
<1>2. CASE s # "vault"
  <2> DEFINE a == IF At(d, "drain", s) THEN AfterDrain(s, sync[d].open) ELSE AfterPush(s, sync[d].open)
  <2>1. NotSending(a)
    BY NextPlaces
  <2> HIDE DEF a
  <2>2. SyncFits(items, [sync[d] EXCEPT !.at = a, !.push = NoPush])
    BY <2>1, Before, Onward
  <2> QED BY <1>2, <2>2 DEF AfterFailure, a
<1> QED BY <1>1, <1>2

-----------------------------------------------------------------------------
(* The steps of a sync.                                                    *)
LEMMA ListLands ==
  ASSUME RowsInv, NEW d \in Device, List(d)
  PROVE  Lands(d)
<1> DEFINE visit == Named(d, "vault") \/ LocalWork(d, "vault")
           a == <<"pull", IF visit THEN "vault" ELSE "share">>
           open == IF visit THEN {"vault"} ELSE {}
           said == IF ~Named(d, "share") THEN "unnamed" ELSE IF closed THEN "gone" ELSE "changed"
           sy == [NoSync EXCEPT !.at = a, !.open = open, !.stoken = newest, !.share = said]
<1>1. sync' = [sync EXCEPT ![d] = sy] /\ UNCHANGED <<server, row, tomb, ops>>
  BY DEF List, store
<1>2. NotSending(a) /\ open \in SUBSET Home /\ said \in {"unnamed", "gone", "changed"} /\ newest \in Nat
  BY Before, NextPlaces DEF Home
<1> HIDE DEF a, open, said
<1>3. SyncFits(items, NoSync)
  BY NoSyncFits
<1>4. SyncFits(items, [NoSync EXCEPT !.at = a])
  BY <1>2, <1>3, Onward
<1>5. PICK sz : sz = [NoSync EXCEPT !.at = a]
  OBVIOUS
<1>6. sz \in SyncState /\ sy = [sz EXCEPT !.open = open, !.stoken = newest, !.share = said]
  BY <1>4, <1>5 DEF SyncFits, NoSync
<1>7. sy \in SyncState /\ sy.at = sz.at /\ sy.push = sz.push /\ sy.refused = sz.refused
  BY <1>2, <1>6 DEF SyncState
<1>8. SyncFits(items, sy)
  BY <1>4, <1>5, <1>7 DEF SyncFits
<1> QED BY <1>1, <1>8, QuietLands

LEMMA DrainLands ==
  ASSUME RowsInv, NEW d \in Device, NEW s \in Home, Drain(d, s) \/ FailedDrain(d, s)
  PROVE  Lands(d)
<1>1. ServerDeletes(d, s) \/ UNCHANGED server
  BY DEF Drain, FailedDrain
<1>2. ServerTyped(items', newest') /\ SpacesKept(items, items')
  <2>1. CASE UNCHANGED server
    BY <2>1, Before, ItemsRest DEF server
  <2> QED BY <1>1, <2>1, DeletesFit
<1>3. CASE Drain(d, s)
  <2> DEFINE a == IF At(d, "drain", s) THEN AfterDrain(s, sync[d].open) ELSE AfterPush(s, sync[d].open)
             sy == [sync[d] EXCEPT !.at = a]
  <2>1. /\ sync' = [sync EXCEPT ![d] = sy] /\ row' = row /\ ops' = ops
        /\ tomb' = [tomb EXCEPT ![d] = {t \in @ : t.space # s}]
    BY <1>3 DEF Drain
  <2>2. NotSending(a)
    BY NextPlaces
  <2> HIDE DEF a
  <2>3. SyncFits(items', sy)
    <3>1. SyncFits(items', sync[d])
      BY <1>2, Before, FitsStable
    <3> QED BY <2>2, <3>1, Onward
  <2>4. RowFits(items', row'[d])
    BY <1>2, <2>1, Before, FitsStable
  <2>5. TombFits(items', tomb'[d])
    <3>1. TombFits(items', tomb[d])
      BY <1>2, Before, FitsStable
    <3>2. tomb'[d] \subseteq tomb[d]
      BY <2>1, Before
    <3> QED BY <3>1, <3>2 DEF TombFits
  <2>6. sync'[d] = sy
    BY <2>1, Before
  <2> HIDE DEF sy
  <2> QED BY <1>2, <2>1, <2>3, <2>4, <2>5, <2>6, Before DEF Lands
<1>4. CASE FailedDrain(d, s)
  <2>1. sync' = [sync EXCEPT ![d] = AfterFailure(d, s)] /\ row' = row /\ tomb' = tomb /\ ops' = ops
    BY <1>4 DEF FailedDrain, store
  <2>2. SyncFits(items', AfterFailure(d, s))
    BY <1>2, FailureFits, FitsStable
  <2> QED BY <1>2, <2>1, <2>2, SyncLands
<1> QED BY <1>3, <1>4

LEMMA FetchLands ==
  ASSUME RowsInv, NEW d \in Device, NEW s \in Home, Fetch(d, s)
  PROVE  Lands(d)
<1>1. UNCHANGED <<server, row, tomb, ops>>
  BY DEF Fetch, store
<1>2. CASE row[d].dirty /\ row[d].home = s
  <2> DEFINE b == IF row[d].uid = 0 THEN 0 ELSE items[row[d].uid].num
             p == [prev |-> row[d].uid, uid |-> row[d].uid, text |-> row[d].text, rev |-> row[d].rev, base |-> b]
             sy == [sync[d] EXCEPT !.at = <<"send", s>>, !.push = p]
  <2>1. sync' = [sync EXCEPT ![d] = sy]
    BY <1>2 DEF Fetch
  <2>2. row[d] \in NoteRow /\ (row[d].uid # 0 => IsOf(items, row[d].uid, s))
    BY <1>2, Before DEF RowFits
  <2>3. b \in Nat
    BY <2>2, Before, ItemsAre DEF IsOf
  <2> HIDE DEF b
  <2>4. p \in PushedRow /\ p.uid = row[d].uid
    BY <2>2, <2>3 DEF NoteRow, PushedRow
  <2> HIDE DEF p
  <2>5. sync[d] \in SyncState /\ \A t \in Home : sync[d].refused[t] \in Seq(PulledOf(items, t))
    BY Before DEF SyncFits
  <2>6. <<"send", s>> \in Step \X Side
    BY DEF Step, Side
  <2>7. sy \in SyncState /\ sy.at = <<"send", s>> /\ sy.push = p /\ sy.refused = sync[d].refused
    BY <2>4, <2>5, <2>6 DEF SyncState
  <2> HIDE DEF sy
  <2>8. ASSUME NEW t \in Home
        PROVE  /\ sy.at = <<"send", t>> => sy.push.uid = 0 \/ IsOf(items, sy.push.uid, t)
               /\ sy.at # <<"ack", t>>
    BY <2>2, <2>4, <2>7
  <2>9. SyncFits(items, sy)
    BY <2>5, <2>7, <2>8 DEF SyncFits
  <2> QED BY <1>1, <2>1, <2>9, QuietLands
<1>3. CASE ~(row[d].dirty /\ row[d].home = s)
  <2>1. sync' = [sync EXCEPT ![d] = [sync[d] EXCEPT !.at = <<"tail", s>>]]
    BY <1>3, Before DEF Fetch
  <2>2. SyncFits(items, [sync[d] EXCEPT !.at = <<"tail", s>>])
    BY Before, NextPlaces, Onward
  <2> QED BY <1>1, <2>1, <2>2, QuietLands
<1> QED BY <1>2, <1>3

LEMMA SendLands ==
  ASSUME RowsInv, NEW d \in Device, NEW s \in Home, Send(d, s)
  PROVE  Lands(d)
<1> DEFINE p == sync[d].push
           u == IF p.uid = 0 THEN Len(items) + 1 ELSE p.uid
           g == p.uid # 0 /\ items[u].gone
           it == [space |-> s, gone |-> g, text |-> p.text, num |-> newest + 1]
           sy == [sync[d] EXCEPT !.at = <<"ack", s>>, !.push.uid = u]
<1>1. /\ sync' = [sync EXCEPT ![d] = sy] /\ row' = row /\ tomb' = tomb /\ ops' = ops
      /\ PutRow(u, it) /\ sync[d].at = <<"send", s>>
  BY Before DEF Send, store, At
<1>2. sync[d] \in SyncState /\ p \in PushedRow /\ (p.uid = 0 \/ IsOf(items, p.uid, s))
  BY <1>1, Before DEF SyncFits, SyncState
<1>3. u = Len(items) + 1 \/ IsOf(items, u, s)
  BY <1>2
<1>4. u \in Nat
  BY <1>2, Before, ItemsAre DEF PushedRow
<1>5. g \in BOOLEAN
  OBVIOUS
<1>6. p.text \in SUBSET Nat /\ newest + 1 \in Nat
  BY <1>2, Before DEF PushedRow
<1> HIDE DEF g
<1>7. it \in StoredItem
  BY <1>5, <1>6 DEF StoredItem
<1>8. it.space = s /\ it.num = newest + 1
  OBVIOUS
<1> HIDE DEF it, u
<1>9. ServerTyped(items', newest') /\ SpacesKept(items, items') /\ IsOf(items', u, s)
  BY <1>1, <1>3, <1>7, <1>8, PutFits
<1>10. PICK q : q = [p EXCEPT !.uid = u]
  OBVIOUS
<1>11. q \in PushedRow /\ q.uid = u
  BY <1>2, <1>4, <1>10 DEF PushedRow
<1>12. <<"ack", s>> \in Step \X Side
  BY DEF Step, Side
<1>13. sy = [sync[d] EXCEPT !.at = <<"ack", s>>, !.push = q]
  BY <1>2, <1>10 DEF SyncState
<1> HIDE DEF sy
<1>14. sy \in SyncState /\ sy.at = <<"ack", s>> /\ sy.push = q /\ sy.refused = sync[d].refused
  BY <1>2, <1>11, <1>12, <1>13 DEF SyncState
<1>15. ASSUME NEW t \in Home
       PROVE  /\ sy.at # <<"send", t>> /\ (sy.at = <<"ack", t>> => t = s)
              /\ sy.refused[t] \in Seq(PulledOf(items', t))
  <2>1. SyncFits(items', sync[d])
    BY <1>9, Before, FitsStable
  <2> QED BY <1>14, <2>1 DEF SyncFits
<1>16. SyncFits(items', sy)
  BY <1>9, <1>11, <1>14, <1>15 DEF SyncFits
<1> QED BY <1>1, <1>9, <1>16, SyncLands

LEMMA ConflictLands ==
  ASSUME RowsInv, NEW d \in Device, NEW s \in Home, Conflict(d, s)
  PROVE  Lands(d)
<1> DEFINE p == sync[d].push
           b == items[p.uid].num
           t == p.text \cup (IF items[p.uid].gone THEN {} ELSE items[p.uid].text)
           sy == [sync[d] EXCEPT !.push.base = b, !.push.text = t]
<1>1. /\ sync' = [sync EXCEPT ![d] = sy] /\ UNCHANGED <<server, row, tomb, ops>>
      /\ sync[d].at = <<"send", s>> /\ p.uid # 0
  BY Before DEF Conflict, store, At
<1>2. sync[d] \in SyncState /\ p \in PushedRow /\ IsOf(items, p.uid, s)
  BY <1>1, Before DEF SyncFits, SyncState
<1>3. b \in Nat /\ items[p.uid].text \in SUBSET Nat
  BY <1>2, Before, ItemsAre DEF IsOf
<1>4. t \in SUBSET Nat
  BY <1>2, <1>3 DEF PushedRow
<1> HIDE DEF b, t
<1>5. PICK q : q = [p EXCEPT !.base = b, !.text = t]
  OBVIOUS
<1>6. q \in PushedRow /\ q.uid = p.uid
  BY <1>2, <1>3, <1>4, <1>5 DEF PushedRow
<1>7. sy = [sync[d] EXCEPT !.push = q]
  BY <1>2, <1>5 DEF SyncState
<1> HIDE DEF sy
<1>8. sy \in SyncState /\ sy.at = sync[d].at /\ sy.push = q /\ sy.refused = sync[d].refused
  BY <1>2, <1>6, <1>7 DEF SyncState
<1>9. SyncFits(items, sy)
  BY <1>6, <1>8, Before DEF SyncFits
<1> QED BY <1>1, <1>9, QuietLands

LEMMA AckLands ==
  ASSUME RowsInv, NEW d \in Device, NEW s \in Home, Ack(d, s)
  PROVE  Lands(d)
<1> DEFINE p == sync[d].push
<1>1. /\ sync' = [sync EXCEPT ![d] = [sync[d] EXCEPT !.at = <<"tail", s>>, !.push = NoPush]]
      /\ UNCHANGED <<server, ops>> /\ sync[d].at = <<"ack", s>>
  BY Before DEF Ack, At
<1>2. sync[d] \in SyncState /\ p \in PushedRow /\ IsOf(items, p.uid, s)
  BY <1>1, Before DEF SyncFits, SyncState
<1>3. ServerTyped(items', newest') /\ SpacesKept(items, items') /\ items' = items
  BY <1>1, Before, ItemsRest DEF server
<1>4. SyncFits(items, [sync[d] EXCEPT !.at = <<"tail", s>>, !.push = NoPush])
  BY Before, NextPlaces, Onward
<1>5. CASE Receives(row[d], p, s)
  <2>1. row' = [row EXCEPT ![d] = Receipt(row[d], p)] /\ tomb' = tomb
    BY <1>5, Before DEF Ack
  <2>2. PICK b \in BOOLEAN : b <=> (row[d].dirty /\ row[d].rev # p.rev)
    OBVIOUS
  <2>3. Receipt(row[d], p) = [row[d] EXCEPT !.uid = p.uid, !.released = FALSE, !.dirty = b]
    BY <2>2, Before DEF Receipt, NoteRow
  <2>4. PICK r : r = Receipt(row[d], p)
    OBVIOUS
  <2>5. r \in NoteRow /\ r.uid = p.uid /\ r.home = s /\ ~r.released
    BY <1>2, <1>5, <2>2, <2>3, <2>4, Before DEF NoteRow, PushedRow, Receives
  <2>6. p.uid # 0
    BY <1>2, Before, ItemsAre DEF IsOf
  <2>7. RowFits(items, r)
    BY <1>2, <2>5, <2>6 DEF RowFits
  <2>8. row'[d] = r /\ DOMAIN row' = Device /\ \A e \in Device \ {d} : row'[e] = row[e]
    BY <2>1, <2>4, Before
  <2>9. /\ sync'[d] = [sync[d] EXCEPT !.at = <<"tail", s>>, !.push = NoPush]
        /\ DOMAIN sync' = Device /\ \A e \in Device \ {d} : sync'[e] = sync[e]
    BY <1>1, Before
  <2> HIDE DEF p
  <2> QED BY <1>1, <1>3, <1>4, <2>1, <2>7, <2>8, <2>9, Before DEF Lands
<1>6. CASE ~Receives(row[d], p, s)
  <2>1. tomb' = [tomb EXCEPT ![d] = tomb[d] \cup {[uid |-> p.uid, space |-> s]}] /\ row' = row
    BY <1>6, Before DEF Ack
  <2>2. TombFits(items, tomb[d] \cup {[uid |-> p.uid, space |-> s]})
    <3>1. [uid |-> p.uid, space |-> s] \in QueuedDeletion
      BY <1>2 DEF QueuedDeletion, PushedRow
    <3> QED BY <1>2, <3>1, Before DEF TombFits
  <2>3. /\ tomb'[d] = tomb[d] \cup {[uid |-> p.uid, space |-> s]}
        /\ DOMAIN tomb' = Device /\ \A e \in Device \ {d} : tomb'[e] = tomb[e]
    BY <2>1, Before
  <2>4. /\ sync'[d] = [sync[d] EXCEPT !.at = <<"tail", s>>, !.push = NoPush]
        /\ DOMAIN sync' = Device /\ \A e \in Device \ {d} : sync'[e] = sync[e]
    BY <1>1, Before
  <2> HIDE DEF p
  <2> QED BY <1>1, <1>3, <1>4, <2>1, <2>2, <2>3, <2>4, Before DEF Lands
<1> QED BY <1>5, <1>6

LEMMA SimpleLands ==
  ASSUME RowsInv, NEW d \in Device,
         \/ PullNothing(d) \/ ClosedPush(d) \/ End(d) \/ VaultFull(d) \/ Restart(d)
         \/ \E s \in Home : FailedPush(d, s)
  PROVE  Lands(d)
<1>1. CASE PullNothing(d)
  <2>1. PICK c \in BOOLEAN : c <=> (sync[d].complete /\ ~(sync[d].share = "unnamed" /\ LocalWork(d, "share")))
    OBVIOUS
  <2>2. /\ sync' = [sync EXCEPT ![d] = [sync[d] EXCEPT !.at = <<"settle", "all">>, !.complete = c]]
        /\ UNCHANGED <<server, row, tomb, ops>>
    BY <1>1, <2>1, Before DEF PullNothing, store, SyncState
  <2>3. "share" \in Home
    BY DEF Home
  <2>4. SyncFits(items, [sync[d] EXCEPT !.at = <<"settle", "all">>, !.complete = c])
    BY <2>3, Before, NextPlaces, Onward
  <2> QED BY <2>2, <2>4, QuietLands
<1>2. CASE ClosedPush(d)
  <2>1. sync' = [sync EXCEPT ![d] = AfterFailure(d, "share")] /\ UNCHANGED <<server, row, tomb, ops>> /\ "share" \in Home
    BY <1>2 DEF ClosedPush, store, Home
  <2> QED BY <2>1, FailureFits, QuietLands
<1>3. CASE End(d) \/ Restart(d)
  <2>1. sync' = [sync EXCEPT ![d] = NoSync] /\ UNCHANGED <<server, row, tomb, ops>>
    BY <1>3 DEF End, Restart
  <2> QED BY <2>1, NoSyncFits, QuietLands
<1>4. CASE VaultFull(d)
  <2>1. /\ sync' = [sync EXCEPT ![d] = [sync[d] EXCEPT !.at = Finish, !.push = NoPush]]
        /\ UNCHANGED <<server, row, tomb, ops>> /\ "vault" \in Home
    BY <1>4, Before DEF VaultFull, store, Home
  <2>2. SyncFits(items, [sync[d] EXCEPT !.at = Finish, !.push = NoPush])
    BY <2>1, Before, NextPlaces, Onward
  <2> QED BY <2>1, <2>2, QuietLands
<1>5. ASSUME NEW s \in Home, FailedPush(d, s) PROVE Lands(d)
  <2>1. sync' = [sync EXCEPT ![d] = AfterFailure(d, s)] /\ UNCHANGED <<server, row, tomb, ops>>
    BY <1>5 DEF FailedPush, store
  <2> QED BY <2>1, FailureFits, QuietLands
<1> QED BY <1>1, <1>2, <1>3, <1>4, <1>5

-----------------------------------------------------------------------------
(* The steps that apply what was pulled.                                   *)
Survives(d) == row[d].dirty => row'[d] # NoRow /\ row[d].text \subseteq row'[d].text

LEMMA DirtyIsARow == \A r : r.dirty => r # NoRow
  BY DEF NoRow

LEMMA AppliedAre ==
  ASSUME RowsInv, NEW d \in Device, NEW s \in Home, NEW its \in Seq(PulledOf(items, s))
  PROVE  /\ ApplyAll(d, s, its) \in Pulling(items, s)
         /\ row[d].dirty => ApplyAll(d, s, its) \in Unsent(items, s, row[d].text)
<1>1. ApplyAll(d, s, its) = Applications([row |-> row[d], refused |-> <<>>], its, s)
  BY DEF ApplyAll, Applications
<1> QED BY <1>1, Before, PullFits

(* Where only the row and the sync change, and not the server.             *)
LEMMA RowLands ==
  ASSUME RowsInv, NEW d \in Device, NEW r, NEW sy,
         row' = [row EXCEPT ![d] = r], sync' = [sync EXCEPT ![d] = sy],
         UNCHANGED <<server, tomb, ops>>, RowFits(items, r), SyncFits(items, sy)
  PROVE  Lands(d)
<1>1. items' = items /\ newest' = newest /\ tomb' = tomb /\ ops' = ops
  BY DEF server
<1>2. ServerTyped(items', newest') /\ SpacesKept(items, items')
  BY <1>1, Before, ItemsRest
<1>3. /\ sync'[d] = sy /\ DOMAIN sync' = Device /\ \A e \in Device \ {d} : sync'[e] = sync[e]
      /\ row'[d] = r /\ DOMAIN row' = Device /\ \A e \in Device \ {d} : row'[e] = row[e]
  BY Before
<1> QED BY <1>1, <1>2, <1>3, Before DEF Lands

LEMMA PullLands ==
  ASSUME RowsInv, CursorInv, NEW d \in Device, NEW s \in Home, Pull(d, s)
  PROVE  Lands(d) /\ Survives(d)
<1> DEFINE got == ApplyAll(d, s, News(d, s))
           a == IF s = "vault" THEN <<"pull", "share">> ELSE <<"settle", "all">>
           here == [sync[d] EXCEPT !.at = a, !.open = @ \cup {s}]
<1>1. News(d, s) \in Seq(PulledOf(items, s))
  BY Before, NewsAreOf
<1>2. got \in Pulling(items, s) /\ (row[d].dirty => got \in Unsent(items, s, row[d].text))
  BY <1>1, AppliedAre
<1>3. /\ row' = [row EXCEPT ![d] = got.row] /\ UNCHANGED <<server, tomb, ops>>
      /\ IF got.refused = <<>> THEN sync' = [sync EXCEPT ![d] = here]
         ELSE sync' = [sync EXCEPT ![d] = [here EXCEPT !.refused[s] = got.refused, !.reached[s] = Reached(d, s)]]
      /\ IF got.refused = <<>> THEN TRUE ELSE cur' = cur
  BY DEF Pull, Pulled
<1>4. "share" \in Home /\ NotSending(a)
  BY NextPlaces DEF Home
<1> HIDE DEF got, a
<1>5. RowFits(items, got.row) /\ got.refused \in Seq(PulledOf(items, s))
  BY <1>2 DEF Pulling
<1>6. sync[d] \in SyncState
  BY Before
<1>7. PICK sz : sz = [sync[d] EXCEPT !.at = a]
  OBVIOUS
<1>8. SyncFits(items, sz) /\ sz \in SyncState
  BY <1>4, <1>7, Before, Onward DEF SyncFits
<1>9. PICK o \in SUBSET Home : o = sync[d].open \cup {s}
  BY <1>6 DEF SyncState
<1>10. here = [sz EXCEPT !.open = o]
  BY <1>6, <1>7, <1>9 DEF SyncState
<1>11. here \in SyncState /\ here.at = sz.at /\ here.push = sz.push /\ here.refused = sz.refused /\ here.at = a
  BY <1>6, <1>7, <1>8, <1>9, <1>10 DEF SyncState
<1> HIDE DEF here
<1>12. SyncFits(items, here)
  BY <1>8, <1>11 DEF SyncFits
<1>13. ASSUME got.refused = <<>> PROVE Lands(d)
  <2>1. sync' = [sync EXCEPT ![d] = here]
    BY <1>3, <1>13
  <2>2. row' = [row EXCEPT ![d] = got.row] /\ UNCHANGED <<server, tomb, ops>>
    BY <1>3
  <2> QED BY <1>5, <1>12, <2>1, <2>2, RowLands
<1>14. ASSUME got.refused # <<>> PROVE Lands(d)
  <2>1. Reached(d, s) \in Nat
    <3>1. last \in [Home -> Nat] /\ cur[d] \in [Home -> Nat]
      BY Shape DEF CursorInv, Sound, Numbered
    <3> QED BY <3>1 DEF Reached, Home
  <2>2. PICK f : f = [here.refused EXCEPT ![s] = got.refused]
    OBVIOUS
  <2>3. PICK n : n = [here.reached EXCEPT ![s] = Reached(d, s)]
    OBVIOUS
  <2>4. f \in [Home -> Seq(PulledItem)] /\ \A t \in Home : f[t] \in Seq(PulledOf(items, t))
    <3>1. got.refused \in Seq(PulledItem)
      <4>1. PulledOf(items, s) \subseteq PulledItem
        BY DEF PulledOf
      <4> QED BY <1>5, <4>1
    <3>2. here.refused \in [Home -> Seq(PulledItem)] /\ \A t \in Home : here.refused[t] \in Seq(PulledOf(items, t))
      BY <1>11, <1>12 DEF SyncFits, SyncState
    <3> QED BY <1>5, <2>2, <3>1, <3>2
  <2>5. n \in [Home -> Nat]
    BY <1>11, <2>1, <2>3 DEF SyncState
  <2>6. PICK sy : sy = [here EXCEPT !.refused = f, !.reached = n]
    OBVIOUS
  <2>7. sy \in SyncState /\ sy.at = here.at /\ sy.push = here.push /\ sy.refused = f
    BY <1>11, <2>4, <2>5, <2>6 DEF SyncState
  <2>8. SyncFits(items, sy)
    BY <1>12, <2>4, <2>7 DEF SyncFits
  <2>9. sync' = [sync EXCEPT ![d] = sy]
    BY <1>3, <1>11, <1>14, <2>2, <2>3, <2>6 DEF SyncState
  <2>10. row' = [row EXCEPT ![d] = got.row] /\ UNCHANGED <<server, tomb, ops>>
    BY <1>3
  <2> QED BY <1>5, <2>8, <2>9, <2>10, RowLands
<1>15. Survives(d)
  <2>1. row'[d] = got.row
    BY <1>3, Before
  <2> QED BY <1>2, <2>1, DirtyIsARow DEF Survives, Unsent
<1> QED BY <1>13, <1>14, <1>15

LEMMA FailedPullLands ==
  ASSUME RowsInv, NEW d \in Device, NEW s \in Home, FailedPull(d, s)
  PROVE  Lands(d) /\ Survives(d)
<1>1. PICK n \in 0 .. Len(News(d, s)) :
        row' = [row EXCEPT ![d] = ApplyAll(d, s, SubSeq(News(d, s), 1, n)).row]
  BY DEF FailedPull
<1>2. UNCHANGED <<server, tomb, ops>>
  BY DEF FailedPull
<1>3. News(d, s) \in Seq(PulledOf(items, s))
  BY Before, NewsAreOf
<1>4. SubSeq(News(d, s), 1, n) \in Seq(PulledOf(items, s))
  BY <1>3, SubSeqProperties
<1>5. PICK got : got = ApplyAll(d, s, SubSeq(News(d, s), 1, n))
  OBVIOUS
<1>6. got \in Pulling(items, s) /\ (row[d].dirty => got \in Unsent(items, s, row[d].text))
  BY <1>4, <1>5, AppliedAre
<1>7. RowFits(items, got.row)
  BY <1>6 DEF Pulling
<1>8. PICK sy : sync' = [sync EXCEPT ![d] = sy] /\ SyncFits(items, sy)
  <2>1. CASE s = "vault"
    <3>1. sync' = [sync EXCEPT ![d] = NoSync]
      BY <2>1 DEF FailedPull
    <3> QED BY <3>1, NoSyncFits
  <2>2. CASE s # "vault"
    <3>1. sync' = [sync EXCEPT ![d] = [sync[d] EXCEPT !.at = <<"settle", "all">>, !.complete = FALSE]]
      BY <2>2, Before DEF FailedPull
    <3>2. FALSE \in BOOLEAN
      BY Zenon
    <3>3. SyncFits(items, [sync[d] EXCEPT !.at = <<"settle", "all">>, !.complete = FALSE])
      BY <3>2, Before, NextPlaces, Onward
    <3> QED BY <3>1, <3>3
  <2> QED BY <2>1, <2>2
<1>9. row' = [row EXCEPT ![d] = got.row]
  BY <1>1, <1>5
<1>10. Lands(d)
  BY <1>2, <1>7, <1>8, <1>9, RowLands
<1>11. row'[d] = got.row
  BY <1>9, Before
<1> QED BY <1>6, <1>10, <1>11, DirtyIsARow DEF Survives, Unsent

LEMMA SettleLands ==
  ASSUME RowsInv, NEW d \in Device, Settle(d)
  PROVE  Lands(d) /\ Survives(d)
<1>1. PICK vault : vault = ApplyAll(d, "vault", sync[d].refused["vault"])
  OBVIOUS
<1>2. PICK both : both = Applications([row |-> vault.row, refused |-> <<>>], sync[d].refused["share"], "share")
  OBVIOUS
<1>3. /\ row' = [row EXCEPT ![d] = both.row]
      /\ sync' = [sync EXCEPT ![d] = [sync[d] EXCEPT !.at = ToDrains(sync[d].open),
                              !.refused = NoSync.refused, !.reached = NoSync.reached]]
      /\ UNCHANGED <<server, tomb, ops>>
  BY <1>1, <1>2, Before DEF Settle, Applications
<1>4. "vault" \in Home /\ "share" \in Home
  BY DEF Home
<1>5. /\ sync[d] \in SyncState
      /\ \A s \in Home : sync[d].refused[s] \in Seq(PulledOf(items, s))
  BY Before DEF SyncFits
<1>6. vault \in Pulling(items, "vault") /\ (row[d].dirty => vault \in Unsent(items, "vault", row[d].text))
  BY <1>1, <1>4, <1>5, AppliedAre
<1>7. RowFits(items, vault.row)
  BY <1>6 DEF Pulling
<1>8. both \in Pulling(items, "share") /\ (vault.row.dirty => both \in Unsent(items, "share", vault.row.text))
  BY <1>2, <1>4, <1>5, <1>7, PullFits
<1>9. RowFits(items, both.row)
  BY <1>8 DEF Pulling
<1>10. row[d].dirty => both.row.dirty /\ row[d].text \subseteq both.row.text
  BY <1>6, <1>8 DEF Unsent
<1>11. PICK a : a = ToDrains(sync[d].open) /\ NotSending(a)
  BY <1>4, NextPlaces
<1>12. SyncFits(items, [sync[d] EXCEPT !.at = a, !.refused = NoSync.refused, !.reached = NoSync.reached])
  <2>1. NoSync.refused \in [Home -> Seq(PulledItem)] /\ NoSync.reached \in [Home -> Nat]
        /\ \A s \in Home : NoSync.refused[s] \in Seq(PulledOf(items, s))
    BY NoSyncFits DEF SyncFits, SyncState
  <2>2. PICK sz : sz = [sync[d] EXCEPT !.at = a]
    OBVIOUS
  <2>3. SyncFits(items, sz) /\ sz \in SyncState
    BY <1>11, <2>2, Before, Onward DEF SyncFits
  <2>4. PICK f \in [Home -> Seq(PulledItem)], n \in [Home -> Nat] : f = NoSync.refused /\ n = NoSync.reached
    BY <2>1
  <2>5. PICK sy : sy = [sz EXCEPT !.refused = f, !.reached = n]
    OBVIOUS
  <2>6. sy \in SyncState /\ sy.at = sz.at /\ sy.push = sz.push /\ sy.refused = f
    BY <2>3, <2>4, <2>5 DEF SyncState
  <2>7. SyncFits(items, sy)
    BY <2>1, <2>3, <2>4, <2>6 DEF SyncFits
  <2>8. sy = [sync[d] EXCEPT !.at = a, !.refused = NoSync.refused, !.reached = NoSync.reached]
    BY <1>5, <2>2, <2>4, <2>5 DEF SyncState
  <2> QED BY <2>7, <2>8
<1>13. Lands(d)
  BY <1>3, <1>9, <1>11, <1>12, RowLands
<1>14. row'[d] = both.row
  BY <1>3, Before
<1> QED BY <1>10, <1>13, <1>14, DirtyIsARow DEF Survives

-----------------------------------------------------------------------------
LEMMA SyncKeeps ==
  ASSUME RowsInv, CursorInv, NEW d \in Device, Sync(d) \/ Trouble(d)
  PROVE  Lands(d) /\ Survives(d)
<1>1. ASSUME row' = row PROVE Survives(d)
  BY <1>1, DirtyIsARow DEF Survives
<1>2. CASE Settle(d)
  BY <1>2, SettleLands
<1>3. ASSUME NEW s \in Home, Pull(d, s) PROVE Lands(d) /\ Survives(d)
  BY <1>3, PullLands
<1>4. ASSUME NEW s \in Home, FailedPull(d, s) PROVE Lands(d) /\ Survives(d)
  BY <1>4, FailedPullLands
<1>5. CASE PullNothing(d) \/ ClosedPush(d) \/ End(d) \/ VaultFull(d) \/ Restart(d)
  <2>1. row' = row
    BY <1>5 DEF PullNothing, ClosedPush, End, VaultFull, Restart, store
  <2> QED BY <1>1, <1>5, <2>1, SimpleLands
<1>6. ASSUME NEW s \in Home, FailedPush(d, s) PROVE Lands(d) /\ Survives(d)
  <2>1. row' = row
    BY <1>6 DEF FailedPush, store
  <2> QED BY <1>1, <1>6, <2>1, SimpleLands
<1>7. CASE List(d)
  <2>1. row' = row
    BY <1>7 DEF List, store
  <2> QED BY <1>1, <1>7, <2>1, ListLands
<1>8. ASSUME NEW s \in Home, Drain(d, s) \/ FailedDrain(d, s) PROVE Lands(d) /\ Survives(d)
  <2>1. row' = row
    BY <1>8 DEF Drain, FailedDrain, store
  <2> QED BY <1>1, <1>8, <2>1, DrainLands
<1>9. ASSUME NEW s \in Home, Fetch(d, s) \/ Send(d, s) \/ Conflict(d, s) PROVE Lands(d) /\ Survives(d)
  <2>1. row' = row
    BY <1>9 DEF Fetch, Send, Conflict, store
  <2> QED BY <1>1, <1>9, <2>1, FetchLands, SendLands, ConflictLands
<1>10. ASSUME NEW s \in Home, Ack(d, s) PROVE Lands(d) /\ Survives(d)
  <2>1. \/ row'[d] = row[d]
        \/ row'[d] = Receipt(row[d], sync[d].push) /\ Receives(row[d], sync[d].push, s)
    <3>1. CASE Receives(row[d], sync[d].push, s)
      <4>1. row' = [row EXCEPT ![d] = Receipt(row[d], sync[d].push)]
        BY <1>10, <3>1, Before DEF Ack
      <4> QED BY <3>1, <4>1, Before
    <3>2. CASE ~Receives(row[d], sync[d].push, s)
      BY <1>10, <3>2 DEF Ack
    <3> QED BY <3>1, <3>2
  <2>2. Receives(row[d], sync[d].push, s) => Receipt(row[d], sync[d].push) # NoRow
    <3>1. Receipt(row[d], sync[d].push).home = row[d].home
      BY Before DEF Receipt, NoteRow
    <3>2. NoRow.home = "none" /\ s # "none"
      BY DEF NoRow, Home
    <3> QED BY <3>1, <3>2 DEF Receives
  <2>3. Receipt(row[d], sync[d].push).text = row[d].text
    BY Before DEF Receipt, NoteRow
  <2>4. Survives(d)
    BY <2>1, <2>2, <2>3, DirtyIsARow DEF Survives
  <2> QED BY <1>10, <2>4, AckLands
<1>11. CASE Sync(d)
  BY <1>2, <1>3, <1>5, <1>7, <1>8, <1>9, <1>10, <1>11 DEF Sync
<1>12. CASE Trouble(d)
  BY <1>4, <1>5, <1>6, <1>8, <1>12 DEF Trouble
<1> QED BY <1>11, <1>12

LEMMA RowsBegin == RowsInit => RowsInv
<1> SUFFICES ASSUME RowsInit PROVE RowsInv
  OBVIOUS
<1>1. /\ items = <<>> /\ newest = 0 /\ ops = 0
      /\ row = [d \in Device |-> NoRow] /\ tomb = [d \in Device |-> {}] /\ sync = [d \in Device |-> NoSync]
  BY DEF RowsInit
<1>2. ServerTyped(items, newest)
  <2>1. <<>> \in Seq(StoredItem)
    BY EmptySeq
  <2>2. DOMAIN items = {}
    BY <1>1
  <2> QED BY <1>1, <2>1, <2>2 DEF ServerTyped, Distinct
<1>3. \A d \in Device : RowFits(items, row[d]) /\ TombFits(items, tomb[d]) /\ SyncFits(items, sync[d])
  <2> SUFFICES ASSUME NEW d \in Device
               PROVE  RowFits(items, row[d]) /\ TombFits(items, tomb[d]) /\ SyncFits(items, sync[d])
    OBVIOUS
  <2>1. row[d] = NoRow /\ tomb[d] = {} /\ sync[d] = NoSync
    BY <1>1
  <2>2. TombFits(items, {})
    BY DEF TombFits
  <2> QED BY <2>1, <2>2, NoRowFits, NoSyncFits
<1> QED BY <1>1, <1>2, <1>3 DEF RowsInv

LEMMA RowsRest ==
  ASSUME RowsInv, UNCHANGED rowVars
  PROVE  RowsInv'
  BY DEF RowsInv, rowVars, server, store

LEMMA RowsGoOn == RowsInv /\ CursorInv /\ [RowsNext]_rowVars => RowsInv'
<1> SUFFICES ASSUME RowsInv, CursorInv, [RowsNext]_rowVars PROVE RowsInv'
  OBVIOUS
<1>1. CASE UNCHANGED rowVars
  BY <1>1, RowsRest
<1>2. ASSUME NEW d \in Device, User(d) PROVE RowsInv'
  BY <1>2, UserLands, LandsKeeps
<1>3. ASSUME NEW d \in Device, Sync(d) \/ Trouble(d) PROVE RowsInv'
  BY <1>3, SyncKeeps, LandsKeeps
<1> QED BY <1>1, <1>2, <1>3 DEF RowsNext

LEMMA RowsAreAlways == RowsSpec => [](RowsInv /\ CursorInv)
<1>1. RowsInv /\ CursorInv /\ [RowsNext]_rowVars => (RowsInv /\ CursorInv)'
  BY RowsGoOn, CursorInvStays
<1> QED BY <1>1, RowsBegin, CursorInvStarts, PTL DEF RowsSpec

(* RoutedHome, for any number of devices, whatever the users do and        *)
(* whatever fails.                                                         *)
THEOREM RowsAreRoutedHome == RowsSpec => []RoutedHome
<1>1. RowsInv => RoutedHome
  <2> SUFFICES ASSUME RowsInv, NEW d \in Device
               PROVE  /\ row[d].uid # 0 => items[row[d].uid].space = row[d].home /\ ~row[d].released
                      /\ row[d] # NoRow /\ row[d].uid = 0 => row[d].dirty
                      /\ \A t \in tomb[d] : items[t.uid].space = t.space
    BY DEF RoutedHome
  <2> QED BY Before DEF RowFits, TombFits, IsOf
<1> QED BY <1>1, RowsAreAlways, PTL

(* UnsentSurvives, for any number of devices, whatever the users do and    *)
(* whatever fails.                                                         *)
THEOREM UnsentAlwaysSurvives == RowsSpec => UnsentSurvives
<1>1. RowsInv /\ CursorInv /\ [RowsNext]_rowVars =>
        [\A d \in Device : row[d].dirty /\ ops' = ops => row'[d] # NoRow /\ row[d].text \subseteq row'[d].text]_rowVars
  <2> SUFFICES ASSUME RowsInv, CursorInv, [RowsNext]_rowVars, NEW d \in Device, row[d].dirty, ops' = ops
               PROVE  UNCHANGED rowVars \/ (row'[d] # NoRow /\ row[d].text \subseteq row'[d].text)
    OBVIOUS
  <2>1. ASSUME NEW e \in Device, User(e) PROVE FALSE
    <3>1. ops \in Nat
      BY DEF RowsInv
    <3>2. ops' = ops + 1 \/ (ops = 0 /\ ops' = 1)
      BY <2>1 DEF User, Create, Move, Edit, Delete, StopSharing, Does
    <3> QED BY <3>1, <3>2
  <2>2. ASSUME NEW e \in Device, Sync(e) \/ Trouble(e)
        PROVE  row'[d] # NoRow /\ row[d].text \subseteq row'[d].text
    <3>1. Lands(e) /\ Survives(e)
      BY <2>2, SyncKeeps
    <3>2. CASE e = d
      BY <3>1, <3>2 DEF Survives
    <3>3. CASE e # d
      <4>1. row'[d] = row[d]
        BY <3>1, <3>3 DEF Lands
      <4> QED BY <4>1, DirtyIsARow
    <3> QED BY <3>2, <3>3
  <2> QED BY <2>1, <2>2 DEF RowsNext
<1> QED BY <1>1, RowsAreAlways, PTL DEF RowsSpec, UnsentSurvives

-----------------------------------------------------------------------------
(***************************************************************************)
(* NothingSkipped and SentOnce, for any number of devices and whatever     *)
(* fails, where users edit and delete the note and do not move it.         *)
(*                                                                         *)
(* Such a note has one space.  Its row is there on every device and so are *)
(* its items, nothing pulled is refused, and a push is about the item the  *)
(* row had when it was read.                                               *)
(***************************************************************************)
(* What users do where notes do not move.                                  *)
StayPut == Kinds \subseteq {"edit", "delete"}

(* The note has one space, s: its row is there on every device, and so are *)
(* its items.  A sync refuses nothing, and pushes only there.              *)
StaysAt(s, r, sy) ==
  /\ r = NoRow \/ r.home = s
  /\ \A t \in Home :
       /\ sy.refused[t] = <<>>
       /\ sy.at \in {<<"send", t>>, <<"ack", t>>} =>
            t = s /\ (sy.push.prev # 0 => sy.push.uid = sy.push.prev)

(* Before the note is created nobody has it.                               *)
Unborn ==
  /\ items = <<>>
  /\ \A d \in Device : /\ row[d] = NoRow
                       /\ \A t \in Home : sync[d].at \notin {<<"send", t>>, <<"ack", t>>}

AtHome(s) ==
  /\ s \in Home
  /\ ~closed
  /\ \A u \in DOMAIN items : items[u].space = s
  /\ ops = 0 => Unborn
  /\ \A d \in Device : StaysAt(s, row[d], sync[d])

(* No cursor is above the server's counter.                                *)
CursorsBelow == \A d \in Device, t \in Home : cur[d][t] <= newest

HomeInv == RowsInv /\ CursorInv /\ CursorsBelow /\ \E s \in Home : AtHome(s)

-----------------------------------------------------------------------------
(* A space the note is not in has nothing.                                 *)
LEMMA NothingElsewhere ==
  ASSUME RowsInv, NEW s, AtHome(s), NEW d \in Device, NEW t \in Home, t # s \/ items = <<>>
  PROVE  News(d, t) = <<>>
<1>1. News(d, t) \in Seq(PulledOf(items, t))
  BY Before, NewsAreOf
<1>2. PulledOf(items, t) = {}
  BY DEF PulledOf, IsOf, AtHome
<1>3. Len(News(d, t)) = 0
  BY <1>1, <1>2
<1> QED BY <1>1, <1>3, EmptySeq

(* Nothing pulled is refused.                                              *)
Plain(s) == {acc \in Pulling(items, s) : acc.refused = <<>> /\ (acc.row = NoRow \/ acc.row.home = s)}

LEMMA PlainStays ==
  ASSUME RowsInv, NEW s \in Home
  PROVE  Takes(Plain(s), PulledOf(items, s), s)
<1> SUFFICES ASSUME NEW acc \in Plain(s), NEW p \in PulledOf(items, s)
             PROVE  Applied(acc, p, s) \in Plain(s)
  BY DEF Takes
<1>1. Applied(acc, p, s) \in Pulling(items, s)
  <2>1. DOMAIN items \subseteq Nat \ {0}
    <3>1. Len(items) \in Nat /\ DOMAIN items = 1 .. Len(items)
      BY ItemsAre DEF RowsInv
    <3> QED BY <3>1
  <2> QED BY <2>1, AppliedFits DEF Takes, Plain
<1>2. /\ acc.row \in NoteRow /\ acc.refused = <<>> /\ (acc.row = NoRow \/ acc.row.home = s)
      /\ acc = [row |-> acc.row, refused |-> acc.refused]
  BY DEF Plain, Pulling
<1>3. Deleted(acc.row, p, s) = NoRow \/ Deleted(acc.row, p, s).home = s
  BY <1>2 DEF Deleted, NoteRow
<1>4. Written(acc.row, p, s).home = s
  BY <1>2 DEF Written, NoteRow
<1>5. MayClaim(acc.row, s)
  BY <1>2 DEF MayClaim
<1>6. \A r : [acc EXCEPT !.row = r].row = r /\ [acc EXCEPT !.row = r].refused = <<>>
  BY <1>2
<1>7. /\ Applied(acc, p, s).refused = <<>>
      /\ (Applied(acc, p, s).row = NoRow \/ Applied(acc, p, s).row.home = s)
  BY <1>3, <1>4, <1>5, <1>6 DEF Applied
<1> QED BY <1>1, <1>7 DEF Plain

LEMMA PlainAtFirst ==
  ASSUME RowsInv, NEW s, AtHome(s), NEW d \in Device
  PROVE  [row |-> row[d], refused |-> <<>>] \in Plain(s) /\ s \in Home
<1>1. RowFits(items, row[d]) /\ row[d] \in NoteRow /\ (row[d] = NoRow \/ row[d].home = s)
  BY Before DEF AtHome, StaysAt
<1>2. <<>> \in Seq(PulledOf(items, s))
  BY EmptySeq
<1> QED BY <1>1, <1>2 DEF Plain, Pulling, AtHome

(* What is pulled, as the items it is applied to come one after another.   *)
LEMMA PlainRun ==
  ASSUME RowsInv, NEW s, AtHome(s), NEW d \in Device, NEW its \in Seq(PulledOf(items, s))
  PROVE  \E r \in [0 .. Len(its) -> Plain(s)] :
           /\ r[0] = [row |-> row[d], refused |-> <<>>] /\ r[Len(its)] = ApplyAll(d, s, its)
           /\ \A n \in 1 .. Len(its) : r[n] = Applied(r[n - 1], its[n], s)
<1>1. ApplyAll(d, s, its) = Applications([row |-> row[d], refused |-> <<>>], its, s)
  BY DEF ApplyAll, Applications
<1> QED BY <1>1, PlainAtFirst, PlainStays, ApplicationsRun

LEMMA EmptyPull ==
  ASSUME RowsInv, NEW d \in Device, NEW t \in Home
  PROVE  ApplyAll(d, t, <<>>) = [row |-> row[d], refused |-> <<>>]
<1>1. PICK base : base = [row |-> row[d], refused |-> <<>>]
  OBVIOUS
<1>2. PICK its \in Seq({}) : its = <<>> /\ Len(its) = 0
  BY EmptySeq
<1>3. Takes({base}, {}, t) /\ base \in {base}
  BY DEF Takes
<1>4. Applications(base, its, t) \in {base}
  BY <1>2, <1>3, ApplicationsStay
<1> QED BY <1>1, <1>2, <1>4 DEF ApplyAll, Applications

(* What a pull does.                                                       *)
LEMMA PullAt ==
  ASSUME HomeInv, NEW s, AtHome(s), NEW d \in Device, NEW t \in Home, NEW its \in Seq(PulledOf(items, t)),
         t = s \/ its = <<>>
  PROVE  /\ ApplyAll(d, t, its).refused = <<>>
         /\ ApplyAll(d, t, its).row = NoRow \/ ApplyAll(d, t, its).row.home = s
         /\ t # s => ApplyAll(d, t, its).row = row[d]
<1>1. RowsInv
  BY DEF HomeInv
<1>2. CASE t = s
  <2>1. PICK r \in [0 .. Len(its) -> Plain(s)] : r[Len(its)] = ApplyAll(d, s, its)
    <3>1. its \in Seq(PulledOf(items, s)) /\ AtHome(s)
      BY <1>2
    <3>2. \E r \in [0 .. Len(its) -> Plain(s)] :
            /\ r[0] = [row |-> row[d], refused |-> <<>>] /\ r[Len(its)] = ApplyAll(d, s, its)
            /\ \A n \in 1 .. Len(its) : r[n] = Applied(r[n - 1], its[n], s)
      BY ONLY <1>1, <3>1, PlainRun, d \in Device
    <3> QED BY ONLY <3>2
  <2>2. Len(its) \in 0 .. Len(its)
    OBVIOUS
  <2> QED BY <1>2, <2>1, <2>2 DEF Plain
<1>3. CASE t # s
  <2>1. ApplyAll(d, t, its) = [row |-> row[d], refused |-> <<>>]
    BY <1>1, <1>3, EmptyPull
  <2> QED BY <1>3, <2>1 DEF AtHome, StaysAt
<1> QED BY <1>2, <1>3

-----------------------------------------------------------------------------
(* A step of device d where the note stays at s.                           *)
Homely(s, d) ==
  /\ closed' = closed
  /\ \A u \in DOMAIN items' : items'[u].space = s
  /\ StaysAt(s, row'[d], sync'[d])
  /\ ops' = 0 => /\ items' = <<>> /\ row'[d] = NoRow
                 /\ \A t \in Home : sync'[d].at \notin {<<"send", t>>, <<"ack", t>>}

LEMMA HomelyKeeps ==
  ASSUME RowsInv, NEW s, AtHome(s), NEW d \in Device, Lands(d), Homely(s, d), ops' = 0 => ops = 0
  PROVE  AtHome(s)'
<1>1. \A e \in Device \ {d} : row'[e] = row[e] /\ sync'[e] = sync[e]
  BY DEF Lands
<1>2. \A e \in Device : StaysAt(s, row'[e], sync'[e])
  BY <1>1 DEF Homely, AtHome
<1>3. ops' = 0 => Unborn'
  <2> SUFFICES ASSUME ops' = 0 PROVE Unborn'
    OBVIOUS
  <2>1. Unborn
    BY DEF AtHome
  <2> QED BY <1>1, <2>1 DEF Unborn, Homely
<1> QED BY <1>2, <1>3 DEF AtHome, Homely

LEMMA StaysQuiet ==
  ASSUME NEW s, NEW r, NEW sy, StaysAt(s, r, sy), NEW sy2, sy2.refused = sy.refused, NotSending(sy2.at)
  PROVE  StaysAt(s, r, sy2)
  BY DEF StaysAt, NotSending

LEMMA IdleStays ==
  ASSUME NEW s, NEW r, r = NoRow \/ r.home = s
  PROVE  StaysAt(s, r, NoSync) /\ \A t \in Home : NoSync.at \notin {<<"send", t>>, <<"ack", t>>}
<1>1. NoSync.at = <<"idle", "all">> /\ \A t \in Home : NoSync.refused[t] = <<>>
  BY DEF NoSync
<1>2. \A t \in Home : NoSync.at # <<"send", t>> /\ NoSync.at # <<"ack", t>>
  BY <1>1
<1> QED BY <1>1, <1>2, Zenon DEF StaysAt

(* A step that changes the device's sync and leaves the items and the row. *)
LEMMA HomelySync ==
  ASSUME RowsInv, NEW s, AtHome(s), NEW d \in Device, NEW sy, sync' = [sync EXCEPT ![d] = sy],
         items' = items, closed' = closed, row'[d] = row[d], ops' = ops,
         StaysAt(s, row[d], sy), \A t \in Home : sy.at \notin {<<"send", t>>, <<"ack", t>>}
  PROVE  Homely(s, d)
<1>1. sync'[d] = sy /\ row'[d] = row[d]
  BY Before
<1> QED BY <1>1 DEF Homely, AtHome, Unborn

(* As the last, where the sync goes on to a step that sends nothing.       *)
LEMMA HomelyGoesOn ==
  ASSUME RowsInv, NEW s, AtHome(s), NEW d \in Device, NEW sy, sync' = [sync EXCEPT ![d] = sy],
         items' = items, closed' = closed, row'[d] = row[d], ops' = ops,
         sy.refused = sync[d].refused, NotSending(sy.at)
  PROVE  Homely(s, d)
<1>1. StaysAt(s, row[d], sy)
  BY StaysQuiet DEF AtHome
<1>2. \A t \in Home : sy.at \notin {<<"send", t>>, <<"ack", t>>}
  BY DEF NotSending
<1> QED BY <1>1, <1>2, HomelySync

LEMMA HomelyIdle ==
  ASSUME RowsInv, NEW s, AtHome(s), NEW d \in Device, sync' = [sync EXCEPT ![d] = NoSync],
         items' = items, closed' = closed, row'[d] = row[d], ops' = ops
  PROVE  Homely(s, d)
<1>1. row[d] = NoRow \/ row[d].home = s
  BY DEF AtHome, StaysAt
<1> QED BY <1>1, IdleStays, HomelySync

LEMMA HomelyFailure ==
  ASSUME RowsInv, NEW s, AtHome(s), NEW d \in Device, NEW t \in Home, sync' = [sync EXCEPT ![d] = AfterFailure(d, t)],
         items' = items, closed' = closed, row'[d] = row[d], ops' = ops
  PROVE  Homely(s, d)
<1>1. CASE t = "vault"
  BY <1>1, HomelyIdle DEF AfterFailure
<1>2. CASE t # "vault"
  <2> DEFINE a == IF At(d, "drain", t) THEN AfterDrain(t, sync[d].open) ELSE AfterPush(t, sync[d].open)
             sy == [sync[d] EXCEPT !.at = a, !.push = NoPush]
  <2>1. NotSending(a)
    BY NextPlaces
  <2> HIDE DEF a
  <2>2. sy.refused = sync[d].refused /\ sy.at = a
    BY Before DEF SyncState
  <2>3. sync' = [sync EXCEPT ![d] = sy]
    BY <1>2 DEF AfterFailure, a
  <2> HIDE DEF sy
  <2> QED BY <2>1, <2>2, <2>3, HomelyGoesOn
<1> QED BY <1>1, <1>2

LEMMA UserHomely ==
  ASSUME StayPut, RowsInv, NEW s, AtHome(s), NEW d \in Device, Edit(d) \/ Delete(d)
  PROVE  Homely(s, d) /\ ops' # 0
<1>1. items' = items /\ closed' = closed /\ sync' = sync /\ ops' = ops + 1 /\ row[d] # NoRow
  BY DEF Edit, Delete, Does, server
<1>2. ops' # 0
  BY <1>1, Before
<1>3. row'[d] = NoRow \/ row'[d].home = s
  <2>1. CASE Delete(d)
    BY <2>1, Before DEF Delete
  <2>2. CASE Edit(d)
    <3>1. row' = [row EXCEPT ![d].text = @ \cup {ops'}, ![d].dirty = TRUE, ![d].rev = ops']
      BY <2>2 DEF Edit
    <3>2. row'[d].home = row[d].home
      BY <3>1, Before DEF NoteRow
    <3> QED BY <1>1, <3>2 DEF AtHome, StaysAt
  <2> QED BY <2>1, <2>2
<1>4. StaysAt(s, row'[d], sync'[d])
  <2>1. StaysAt(s, row[d], sync[d])
    BY DEF AtHome
  <2> QED BY <1>1, <1>3, <2>1 DEF StaysAt
<1> QED BY <1>1, <1>2, <1>4 DEF Homely, AtHome

LEMMA SimpleHomely ==
  ASSUME RowsInv, NEW s, AtHome(s), NEW d \in Device,
         \/ List(d) \/ PullNothing(d) \/ ClosedPush(d) \/ End(d) \/ VaultFull(d) \/ Restart(d)
         \/ \E t \in Home : FailedPush(d, t)
  PROVE  Homely(s, d)
<1>1. items' = items /\ closed' = closed /\ row'[d] = row[d] /\ ops' = ops
  BY DEF List, PullNothing, ClosedPush, End, VaultFull, Restart, FailedPush, server, store
<1>2. CASE List(d)
  <2> DEFINE visit == Named(d, "vault") \/ LocalWork(d, "vault")
             a == <<"pull", IF visit THEN "vault" ELSE "share">>
             open == IF visit THEN {"vault"} ELSE {}
             said == IF ~Named(d, "share") THEN "unnamed" ELSE IF closed THEN "gone" ELSE "changed"
             sy == [NoSync EXCEPT !.at = a, !.open = open, !.stoken = newest, !.share = said]
  <2>1. sync' = [sync EXCEPT ![d] = sy] /\ sync[d] = NoSync
    BY <1>2 DEF List
  <2>2. NotSending(a)
    BY NextPlaces DEF Home
  <2> HIDE DEF a, open, said
  <2>3. sy.refused = NoSync.refused /\ sy.at = a
    BY DEF NoSync
  <2> HIDE DEF sy
  <2> QED BY <1>1, <2>1, <2>2, <2>3, HomelyGoesOn
<1>3. CASE PullNothing(d)
  <2> DEFINE c == sync[d].complete /\ ~(sync[d].share = "unnamed" /\ LocalWork(d, "share"))
             sy == [sync[d] EXCEPT !.at = <<"settle", "all">>, !.complete = c]
  <2>1. sync' = [sync EXCEPT ![d] = sy]
    BY <1>3, Before DEF PullNothing, SyncState
  <2>2. NotSending(<<"settle", "all">>)
    BY NextPlaces DEF Home
  <2> HIDE DEF c
  <2>3. sy.refused = sync[d].refused /\ sy.at = <<"settle", "all">>
    BY Before DEF SyncState
  <2> HIDE DEF sy
  <2> QED BY <1>1, <2>1, <2>2, <2>3, HomelyGoesOn
<1>4. CASE ClosedPush(d)
  BY <1>4 DEF ClosedPush, AtHome
<1>5. CASE End(d) \/ Restart(d)
  <2>1. sync' = [sync EXCEPT ![d] = NoSync]
    BY <1>5 DEF End, Restart
  <2> QED BY <1>1, <2>1, HomelyIdle
<1>6. CASE VaultFull(d)
  <2> DEFINE sy == [sync[d] EXCEPT !.at = Finish, !.push = NoPush]
  <2>1. sync' = [sync EXCEPT ![d] = sy]
    BY <1>6, Before DEF VaultFull
  <2>2. NotSending(Finish)
    BY NextPlaces DEF Home
  <2>3. sy.refused = sync[d].refused /\ sy.at = Finish
    BY Before DEF SyncState
  <2> HIDE DEF sy
  <2> QED BY <1>1, <2>1, <2>2, <2>3, HomelyGoesOn
<1>7. ASSUME NEW t \in Home, FailedPush(d, t) PROVE Homely(s, d)
  <2>1. sync' = [sync EXCEPT ![d] = AfterFailure(d, t)]
    BY <1>7 DEF FailedPush
  <2> QED BY <1>1, <2>1, HomelyFailure
<1> QED BY <1>2, <1>3, <1>4, <1>5, <1>6, <1>7

(* What a pull and a settling do to the row, the cursors and the sync.     *)
PullDone(d, t) ==
  [sync[d] EXCEPT !.at = IF t = "vault" THEN <<"pull", "share">> ELSE <<"settle", "all">>,
                  !.open = sync[d].open \cup {t}]

LEMMA PullIs ==
  ASSUME HomeInv, NEW s, AtHome(s), NEW d \in Device, NEW t \in Home, Pull(d, t)
  PROVE  /\ ApplyAll(d, t, News(d, t)).row = NoRow \/ ApplyAll(d, t, News(d, t)).row.home = s
         /\ t # s \/ items = <<>> => ApplyAll(d, t, News(d, t)).row = row[d]
         /\ row' = [row EXCEPT ![d] = ApplyAll(d, t, News(d, t)).row]
         /\ cur' = [cur EXCEPT ![d][t] = Reached(d, t)]
         /\ sync' = [sync EXCEPT ![d] = PullDone(d, t)]
         /\ UNCHANGED <<items, closed, newest, tomb, ops>>
<1>1. RowsInv
  BY DEF HomeInv
<1>2. News(d, t) \in Seq(PulledOf(items, t)) /\ (t = s \/ News(d, t) = <<>>)
  BY <1>1, Before, NewsAreOf, NothingElsewhere
<1>3. /\ ApplyAll(d, t, News(d, t)).refused = <<>>
      /\ ApplyAll(d, t, News(d, t)).row = NoRow \/ ApplyAll(d, t, News(d, t)).row.home = s
      /\ t # s => ApplyAll(d, t, News(d, t)).row = row[d]
  BY <1>2, PullAt
<1>4. items = <<>> => ApplyAll(d, t, News(d, t)).row = row[d]
  <2> SUFFICES ASSUME items = <<>> PROVE ApplyAll(d, t, News(d, t)).row = row[d]
    OBVIOUS
  <2>1. ApplyAll(d, t, News(d, t)) = [row |-> row[d], refused |-> <<>>]
    BY <1>1, NothingElsewhere, EmptyPull
  <2> QED BY <2>1
<1>5. /\ row' = [row EXCEPT ![d] = ApplyAll(d, t, News(d, t)).row]
      /\ cur' = [cur EXCEPT ![d][t] = Reached(d, t)]
      /\ UNCHANGED <<items, closed, newest, tomb, ops>>
  BY <1>3 DEF Pull, Pulled, server
<1>6. sync' = [sync EXCEPT ![d] = PullDone(d, t)]
  BY <1>3 DEF Pull, Pulled, PullDone
<1> QED BY <1>3, <1>4, <1>5, <1>6

SettleDone(d) ==
  [sync[d] EXCEPT !.at = ToDrains(sync[d].open), !.refused = NoSync.refused, !.reached = NoSync.reached]

LEMMA SettleIs ==
  ASSUME RowsInv, CursorInv, NEW s, AtHome(s), NEW d \in Device, Settle(d)
  PROVE  /\ \A e \in Device : row'[e] = row[e] /\ \A t \in Home : cur'[e][t] = cur[e][t]
         /\ sync' = [sync EXCEPT ![d] = SettleDone(d)]
         /\ UNCHANGED <<items, closed, newest, tomb, ops>>
<1> DEFINE vault == ApplyAll(d, "vault", sync[d].refused["vault"])
           both == FoldLeft(LAMBDA acc, it : Applied(acc, it, "share"),
                       [row |-> vault.row, refused |-> <<>>], sync[d].refused["share"])
           Left(t) == IF t = "vault" THEN vault.refused ELSE both.refused
           Had(t) == sync[d].refused[t] # <<>>
           Waits(t) == Had(t) /\ Left(t) # <<>> /\ held[d][t] + 1 < MaxHolds
           Moves(t) == Had(t) /\ ~Waits(t)
<1>1. /\ row' = [row EXCEPT ![d] = both.row]
      /\ cur' = [cur EXCEPT ![d] = [t \in Home |-> IF Moves(t) THEN sync[d].reached[t] ELSE cur[d][t]]]
      /\ UNCHANGED <<items, closed, newest, tomb, ops>>
      /\ sync' = [sync EXCEPT ![d].at = ToDrains(sync[d].open),
                              ![d].refused = NoSync.refused, ![d].reached = NoSync.reached]
  BY DEF Settle, server
<1>2. "vault" \in Home /\ "share" \in Home
  BY DEF Home
<1>3. \A t \in Home : sync[d].refused[t] = <<>>
  BY DEF AtHome, StaysAt
<1>4. vault.row = row[d]
  BY <1>2, <1>3, EmptyPull
<1>5. both = [row |-> row[d], refused |-> <<>>]
  <2>1. ApplyAll(d, "share", <<>>) = [row |-> row[d], refused |-> <<>>]
    BY <1>2, EmptyPull
  <2> HIDE DEF vault
  <2> QED BY <1>2, <1>3, <1>4, <2>1 DEF ApplyAll
<1>6. \A e \in Device : row'[e] = row[e]
  <2> HIDE DEF both
  <2>1. both.row = row[d]
    BY <1>5
  <2> QED BY <1>1, <2>1, Before
<1>7. \A e \in Device : \A t \in Home : cur'[e][t] = cur[e][t]
  <2>1. \A t \in Home : ~Moves(t)
    BY <1>3
  <2> HIDE DEF Moves
  <2>2. DOMAIN cur = Device
    BY DEF CursorInv, Domains
  <2> QED BY <1>1, <2>1, <2>2
<1>8. sync' = [sync EXCEPT ![d] = SettleDone(d)]
  BY <1>1, Before DEF SettleDone
<1> QED BY <1>1, <1>6, <1>7, <1>8

LEMMA PullHomely ==
  ASSUME HomeInv, NEW s, AtHome(s), NEW d \in Device, NEW t \in Home, Pull(d, t)
  PROVE  Homely(s, d)
<1> DEFINE a == IF t = "vault" THEN <<"pull", "share">> ELSE <<"settle", "all">>
           sy == PullDone(d, t)
           got == ApplyAll(d, t, News(d, t))
<1>1. RowsInv
  BY DEF HomeInv
<1>2. /\ got.row = NoRow \/ got.row.home = s
      /\ items = <<>> => got.row = row[d]
      /\ row' = [row EXCEPT ![d] = got.row] /\ sync' = [sync EXCEPT ![d] = sy]
      /\ UNCHANGED <<items, closed, ops>>
  BY PullIs
<1>3. NotSending(a)
  BY NextPlaces DEF Home
<1> HIDE DEF got, a
<1>4. sy.refused = sync[d].refused /\ sy.at = a
  BY <1>1, Before DEF SyncState, PullDone, a
<1> HIDE DEF sy
<1>5. row'[d] = got.row /\ sync'[d] = sy
  BY <1>1, <1>2, Before
<1>6. StaysAt(s, row'[d], sync'[d])
  <2>1. StaysAt(s, row[d], sy)
    BY <1>3, <1>4, StaysQuiet DEF AtHome
  <2> QED BY <1>2, <1>5, <2>1 DEF StaysAt
<1>7. \A u \in Home : sync'[d].at \notin {<<"send", u>>, <<"ack", u>>}
  BY <1>3, <1>4, <1>5 DEF NotSending
<1> QED BY <1>2, <1>5, <1>6, <1>7 DEF Homely, AtHome, Unborn

LEMMA FailedPullIs ==
  ASSUME HomeInv, NEW s, AtHome(s), NEW d \in Device, NEW t \in Home, FailedPull(d, t)
  PROVE  \E n \in 0 .. Len(News(d, t)) :
           /\ SubSeq(News(d, t), 1, n) \in Seq(PulledOf(items, t))
           /\ row' = [row EXCEPT ![d] = ApplyAll(d, t, SubSeq(News(d, t), 1, n)).row]
           /\ t # s \/ items = <<>> => n = 0 /\ row'[d] = row[d]
           /\ row'[d] = NoRow \/ row'[d].home = s
<1>1. RowsInv
  BY DEF HomeInv
<1>2. PICK n \in 0 .. Len(News(d, t)) :
        row' = [row EXCEPT ![d] = ApplyAll(d, t, SubSeq(News(d, t), 1, n)).row]
  BY DEF FailedPull
<1>3. News(d, t) \in Seq(PulledOf(items, t))
  BY <1>1, Before, NewsAreOf
<1>4. PICK its \in Seq(PulledOf(items, t)) : its = SubSeq(News(d, t), 1, n)
  <2>1. Len(News(d, t)) \in Nat /\ n \in Nat /\ n <= Len(News(d, t))
    BY <1>3
  <2>2. \A i \in 1 .. n : i \in 1 .. Len(News(d, t)) /\ News(d, t)[i] \in PulledOf(items, t)
    BY <1>3, <2>1
  <2>3. SubSeq(News(d, t), 1, n) \in Seq(PulledOf(items, t))
    BY <1>3, <2>1, <2>2, SubSeqProperties
  <2> QED BY <2>3
<1>5. t # s \/ items = <<>> => n = 0 /\ its = <<>>
  <2> SUFFICES ASSUME t # s \/ items = <<>> PROVE n = 0 /\ its = <<>>
    OBVIOUS
  <2>1. News(d, t) = <<>>
    BY <1>1, NothingElsewhere
  <2>2. n = 0
    BY <2>1, EmptySeq
  <2>3. Len(its) = 0
    BY <1>3, <1>4, <2>2, SubSeqProperties
  <2> QED BY <2>2, <2>3, EmptySeq
<1>6. /\ ApplyAll(d, t, its).row = NoRow \/ ApplyAll(d, t, its).row.home = s
  BY <1>5, PullAt
<1>7. row'[d] = ApplyAll(d, t, its).row
  BY <1>1, <1>2, <1>4, Before
<1>8. t # s \/ items = <<>> => row'[d] = row[d]
  <2> SUFFICES ASSUME t # s \/ items = <<>> PROVE row'[d] = row[d]
    OBVIOUS
  <2>1. ApplyAll(d, t, its) = [row |-> row[d], refused |-> <<>>]
    BY <1>1, <1>5, EmptyPull
  <2> QED BY <1>7, <2>1
<1> QED BY <1>2, <1>4, <1>5, <1>6, <1>7, <1>8

LEMMA FailedPullHomely ==
  ASSUME HomeInv, NEW s, AtHome(s), NEW d \in Device, NEW t \in Home, FailedPull(d, t)
  PROVE  Homely(s, d)
<1>1. RowsInv
  BY DEF HomeInv
<1>2. /\ row'[d] = NoRow \/ row'[d].home = s
      /\ items = <<>> => row'[d] = row[d]
  BY FailedPullIs
<1>3. UNCHANGED <<items, closed, ops>>
  BY DEF FailedPull, server
<1>4. StaysAt(s, row'[d], sync'[d]) /\ \A u \in Home : sync'[d].at \notin {<<"send", u>>, <<"ack", u>>}
  <2>1. CASE t = "vault"
    <3>1. sync'[d] = NoSync
      BY <1>1, <2>1, Before DEF FailedPull
    <3> QED BY <1>2, <3>1, IdleStays
  <2>2. CASE t # "vault"
    <3>1. sync'[d] = [sync[d] EXCEPT !.at = <<"settle", "all">>, !.complete = FALSE]
      BY <1>1, <2>2, Before DEF FailedPull
    <3>2. PICK sy : sy = sync'[d]
      OBVIOUS
    <3>3. sy.at = <<"settle", "all">> /\ sy.refused = sync[d].refused
      BY <1>1, <3>1, <3>2, Before DEF SyncState
    <3>4. NotSending(<<"settle", "all">>)
      BY NextPlaces DEF Home
    <3>5. StaysAt(s, row[d], sy)
      BY <3>3, <3>4, StaysQuiet DEF AtHome
    <3> QED BY <1>2, <3>2, <3>3, <3>4, <3>5 DEF StaysAt, NotSending
  <2> QED BY <2>1, <2>2
<1> QED BY <1>2, <1>3, <1>4 DEF Homely, AtHome, Unborn

LEMMA SettleHomely ==
  ASSUME RowsInv, CursorInv, NEW s, AtHome(s), NEW d \in Device, Settle(d)
  PROVE  Homely(s, d)
<1> DEFINE a == ToDrains(sync[d].open)
           sy == SettleDone(d)
<1>1. row'[d] = row[d] /\ sync' = [sync EXCEPT ![d] = sy] /\ UNCHANGED <<items, closed, ops>>
  BY SettleIs
<1>2. NotSending(a)
  BY NextPlaces DEF Home
<1> HIDE DEF a
<1>3. sy.refused = NoSync.refused /\ sy.at = a
  BY Before DEF SyncState, SettleDone, a
<1> HIDE DEF sy
<1>4. row[d] = NoRow \/ row[d].home = s
  BY DEF AtHome, StaysAt
<1>5. StaysAt(s, row[d], sy)
  BY <1>2, <1>3, <1>4, IdleStays, StaysQuiet
<1>6. \A t \in Home : sy.at \notin {<<"send", t>>, <<"ack", t>>}
  BY <1>2, <1>3 DEF NotSending
<1> QED BY <1>1, <1>5, <1>6, HomelySync

(* Where the items keep their spaces and none is new, they stay at s.      *)
LEMMA DrainHomely ==
  ASSUME RowsInv, NEW s, AtHome(s), NEW d \in Device, NEW t \in Home, Drain(d, t) \/ FailedDrain(d, t)
  PROVE  Homely(s, d)
<1>1. row' = row /\ ops' = ops /\ (ServerDeletes(d, t) \/ UNCHANGED server)
  BY DEF Drain, FailedDrain, store
<1>2. SpacesKept(items, items')
  BY <1>1, DeletesFit DEF server, SpacesKept
<1>3. closed' = closed /\ DOMAIN items' = DOMAIN items
  BY <1>1 DEF ServerDeletes, server
<1>4. items = <<>> => items' = <<>>
  <2>1. CASE UNCHANGED server
    BY <2>1 DEF server
  <2>2. CASE ServerDeletes(d, t)
    <3> SUFFICES ASSUME items = <<>> PROVE items' = <<>>
      OBVIOUS
    <3>1. DOMAIN items' = {} /\ items' \in Seq(StoredItem)
      BY <1>3, <2>2, DeletesFit DEF ServerTyped
    <3>2. Len(items') = 0
      BY <3>1
    <3> QED BY <3>1, <3>2, EmptySeq
  <2> QED BY <1>1, <2>1, <2>2
<1>5. PICK sy : /\ sync' = [sync EXCEPT ![d] = sy] /\ StaysAt(s, row[d], sy)
                /\ \A u \in Home : sy.at \notin {<<"send", u>>, <<"ack", u>>}
  <2>1. StaysAt(s, row[d], sync[d]) /\ (row[d] = NoRow \/ row[d].home = s)
    BY DEF AtHome, StaysAt
  <2> DEFINE a == IF At(d, "drain", t) THEN AfterDrain(t, sync[d].open) ELSE AfterPush(t, sync[d].open)
  <2>2. NotSending(a)
    BY NextPlaces
  <2> HIDE DEF a
  <2>3. CASE Drain(d, t)
    <3> DEFINE sy == [sync[d] EXCEPT !.at = a]
    <3>1. sync' = [sync EXCEPT ![d] = sy]
      BY <2>3, Before DEF Drain, a
    <3>2. sy.refused = sync[d].refused /\ sy.at = a
      BY Before DEF SyncState
    <3> HIDE DEF sy
    <3> QED BY <2>1, <2>2, <3>1, <3>2, StaysQuiet DEF NotSending
  <2>4. CASE FailedDrain(d, t) /\ t = "vault"
    <3>1. sync' = [sync EXCEPT ![d] = NoSync]
      BY <2>4 DEF FailedDrain, AfterFailure
    <3> QED BY <2>1, <3>1, IdleStays
  <2>5. CASE FailedDrain(d, t) /\ t # "vault"
    <3> DEFINE sy == [sync[d] EXCEPT !.at = a, !.push = NoPush]
    <3>1. sync' = [sync EXCEPT ![d] = sy]
      BY <2>5, Before DEF FailedDrain, AfterFailure, a
    <3>2. sy.refused = sync[d].refused /\ sy.at = a
      BY Before DEF SyncState
    <3> HIDE DEF sy
    <3> QED BY <2>1, <2>2, <3>1, <3>2, StaysQuiet DEF NotSending
  <2> QED BY <2>3, <2>4, <2>5
<1>6. sync'[d] = sy /\ row'[d] = row[d]
  BY <1>1, <1>5, Before
<1>7. \A u \in DOMAIN items' : items'[u].space = s
  BY <1>2, <1>3 DEF SpacesKept, AtHome
<1> QED BY <1>1, <1>3, <1>4, <1>5, <1>6, <1>7 DEF Homely, AtHome, Unborn

LEMMA FetchHomely ==
  ASSUME RowsInv, NEW s, AtHome(s), NEW d \in Device, NEW t \in Home, Fetch(d, t)
  PROVE  Homely(s, d)
<1>1. items' = items /\ closed' = closed /\ row'[d] = row[d] /\ ops' = ops
  BY DEF Fetch, server, store
<1>2. CASE row[d].dirty /\ row[d].home = t
  <2> DEFINE p == [prev |-> row[d].uid, uid |-> row[d].uid, text |-> row[d].text, rev |-> row[d].rev,
                   base |-> IF row[d].uid = 0 THEN 0 ELSE items[row[d].uid].num]
             sy == [sync[d] EXCEPT !.at = <<"send", t>>, !.push = p]
  <2>1. sync' = [sync EXCEPT ![d] = sy]
    BY <1>2 DEF Fetch
  <2>2. row[d] # NoRow
    BY <1>2, DirtyIsARow
  <2>3. t = s /\ ops # 0
    BY <1>2, <2>2 DEF AtHome, StaysAt, Unborn
  <2>4. p.prev = p.uid
    OBVIOUS
  <2> HIDE DEF p
  <2>5. sy.refused = sync[d].refused /\ sy.at = <<"send", t>> /\ sy.push = p
    BY Before DEF SyncState
  <2>6. sync'[d] = sy
    BY <2>1, Before
  <2> HIDE DEF sy
  <2>7. \A u \in Home : sync[d].refused[u] = <<>>
    BY DEF AtHome, StaysAt
  <2>8. \A u \in Home : sy.at \in {<<"send", u>>, <<"ack", u>>} => u = t
    BY <2>5
  <2>9. StaysAt(s, row'[d], sync'[d])
    BY <1>1, <1>2, <2>3, <2>4, <2>5, <2>6, <2>7, <2>8 DEF StaysAt
  <2> QED BY <1>1, <2>3, <2>9 DEF Homely, AtHome
<1>3. CASE ~(row[d].dirty /\ row[d].home = t)
  <2> DEFINE sy == [sync[d] EXCEPT !.at = <<"tail", t>>]
  <2>1. sync' = [sync EXCEPT ![d] = sy]
    BY <1>3, Before DEF Fetch
  <2>2. sy.refused = sync[d].refused /\ sy.at = <<"tail", t>>
    BY Before DEF SyncState
  <2>3. NotSending(<<"tail", t>>)
    BY NextPlaces
  <2> HIDE DEF sy
  <2> QED BY <1>1, <2>1, <2>2, <2>3, HomelyGoesOn
<1> QED BY <1>2, <1>3

LEMMA ConflictHomely ==
  ASSUME RowsInv, NEW s, AtHome(s), NEW d \in Device, NEW t \in Home, Conflict(d, t)
  PROVE  Homely(s, d)
<1>1. items' = items /\ closed' = closed /\ row'[d] = row[d] /\ ops' = ops /\ sync[d].at = <<"send", t>>
  BY DEF Conflict, server, store, At
<1> DEFINE b == items[sync[d].push.uid].num
           x == sync[d].push.text \cup (IF items[sync[d].push.uid].gone THEN {} ELSE items[sync[d].push.uid].text)
           sy == [sync[d] EXCEPT !.push.base = b, !.push.text = x]
<1>2. sync' = [sync EXCEPT ![d] = sy]
  BY Before DEF Conflict
<1> HIDE DEF b, x
<1>3. /\ sy.refused = sync[d].refused /\ sy.at = sync[d].at
      /\ sy.push.prev = sync[d].push.prev /\ sy.push.uid = sync[d].push.uid
  BY Before DEF SyncState, PushedRow
<1>4. sync'[d] = sy
  BY <1>2, Before
<1> HIDE DEF sy
<1>5. StaysAt(s, row[d], sync[d]) /\ ops # 0
  BY <1>1 DEF AtHome, Unborn
<1>6. StaysAt(s, row[d], sy)
  BY <1>3, <1>5 DEF StaysAt
<1> QED BY <1>1, <1>4, <1>5, <1>6 DEF Homely, AtHome

LEMMA SendHomely ==
  ASSUME RowsInv, NEW s, AtHome(s), NEW d \in Device, NEW t \in Home, Send(d, t)
  PROVE  Homely(s, d) /\ t = s
<1> DEFINE p == sync[d].push
           u == IF p.uid = 0 THEN Len(items) + 1 ELSE p.uid
           it == [space |-> t, gone |-> p.uid # 0 /\ items[u].gone, text |-> p.text, num |-> newest + 1]
           sy == [sync[d] EXCEPT !.at = <<"ack", t>>, !.push.uid = u]
<1>1. /\ sync' = [sync EXCEPT ![d] = sy] /\ row'[d] = row[d] /\ ops' = ops
      /\ PutRow(u, it) /\ sync[d].at = <<"send", t>> /\ closed' = closed
  BY Before DEF Send, store, At, PutRow
<1>2. t = s /\ ops # 0 /\ (p.prev # 0 => p.uid = p.prev)
  BY <1>1 DEF AtHome, StaysAt, Unborn
<1>3. it.space = t
  OBVIOUS
<1>4. p.prev # 0 => u = p.prev
  BY <1>2
<1> HIDE DEF it, u
<1>5. \A v \in DOMAIN items' : (v \in DOMAIN items /\ items'[v] = items[v]) \/ items'[v] = it
  <2>1. /\ Len(items) \in Nat /\ DOMAIN items = 1 .. Len(items) /\ items \in Seq(StoredItem)
    BY Before, ItemsAre DEF ServerTyped
  <2>2. CASE u \in DOMAIN items
    BY <1>1, <2>2 DEF PutRow
  <2>3. CASE u \notin DOMAIN items
    <3>1. items' = Append(items, it)
      BY <1>1, <2>3 DEF PutRow
    <3>2. DOMAIN items' = 1 .. Len(items) + 1 /\ items'[Len(items) + 1] = it
          /\ \A v \in 1 .. Len(items) : items'[v] = items[v]
      BY <2>1, <3>1, Appended DEF Range
    <3> QED BY <2>1, <3>2
  <2> QED BY <2>2, <2>3
<1>6. \A v \in DOMAIN items' : items'[v].space = s
  BY <1>2, <1>3, <1>5 DEF AtHome
<1>7. sy.refused = sync[d].refused /\ sy.at = <<"ack", t>> /\ sy.push.prev = p.prev /\ sy.push.uid = u
  BY Before DEF SyncState, PushedRow
<1>8. sync'[d] = sy
  BY <1>1, Before
<1> HIDE DEF sy
<1>9. StaysAt(s, row[d], sync[d])
  BY DEF AtHome
<1>10. \A v \in Home : sy.at \in {<<"send", v>>, <<"ack", v>>} => v = t
  BY <1>7
<1>11. StaysAt(s, row[d], sy)
  BY <1>2, <1>4, <1>7, <1>9, <1>10 DEF StaysAt
<1> QED BY <1>1, <1>2, <1>6, <1>8, <1>11 DEF Homely, AtHome

LEMMA AckHomely ==
  ASSUME RowsInv, NEW s, AtHome(s), NEW d \in Device, NEW t \in Home, Ack(d, t)
  PROVE  Homely(s, d)
<1> DEFINE sy == [sync[d] EXCEPT !.at = <<"tail", t>>, !.push = NoPush]
<1>1. /\ items' = items /\ closed' = closed /\ ops' = ops /\ sync[d].at = <<"ack", t>>
      /\ sync' = [sync EXCEPT ![d] = sy]
  BY Before DEF Ack, server, At
<1>2. sync'[d] = sy
  BY <1>1, Before
<1>3. sy.refused = sync[d].refused /\ sy.at = <<"tail", t>>
  BY Before DEF SyncState
<1> HIDE DEF sy
<1>4. NotSending(<<"tail", t>>) /\ StaysAt(s, row[d], sync[d]) /\ ops # 0
  BY <1>1, NextPlaces DEF AtHome, Unborn
<1>5. StaysAt(s, row[d], sy)
  BY <1>3, <1>4, StaysQuiet
<1>6. row'[d] = NoRow \/ row'[d].home = s
  <2>1. CASE Receives(row[d], sync[d].push, t)
    <3>1. row'[d] = Receipt(row[d], sync[d].push)
      BY <2>1, Before DEF Ack
    <3>2. row'[d].home = row[d].home
      BY <3>1, Before DEF Receipt, NoteRow
    <3> QED BY <1>4, <2>1, <3>2 DEF StaysAt, Receives
  <2>2. CASE ~Receives(row[d], sync[d].push, t)
    BY <1>4, <2>2 DEF Ack, StaysAt
  <2> QED BY <2>1, <2>2
<1>7. StaysAt(s, row'[d], sync'[d])
  BY <1>2, <1>5, <1>6 DEF StaysAt
<1> QED BY <1>1, <1>4, <1>7 DEF Homely, AtHome

-----------------------------------------------------------------------------
LEMMA UserIs ==
  ASSUME StayPut, NEW d \in Device, User(d)
  PROVE  Edit(d) \/ Delete(d) \/ \E t \in Home : Create(d, t)
<1>1. ~Does("move") /\ ~Does("stop")
  BY DEF StayPut, Does
<1> QED BY <1>1 DEF User, Move, StopSharing

(* The counter only grows, and only a pull moves a cursor.                 *)
LEMMA CursorStep ==
  ASSUME StayPut, HomeInv, NEW s, AtHome(s), NEW d \in Device, User(d) \/ Sync(d) \/ Trouble(d)
  PROVE  /\ newest \in Nat /\ newest' \in Nat /\ newest <= newest'
         /\ \A e \in Device, t \in Home :
              \/ cur'[e][t] = cur[e][t]
              \/ e = d /\ Pull(d, t) /\ cur'[d][t] = Reached(d, t)
<1> DEFINE MovesOn == \A e \in Device, t \in Home :
                      \/ cur'[e][t] = cur[e][t]
                      \/ e = d /\ Pull(d, t) /\ cur'[d][t] = Reached(d, t)
           GoesUp == newest' \in Nat /\ newest <= newest'
<1>1. /\ RowsInv /\ CursorInv /\ newest \in Nat /\ Numbered(items, newest, last)
      /\ DOMAIN cur = Device /\ \A e \in Device : DOMAIN cur[e] = Home
  BY DEF HomeInv, RowsInv, ServerTyped, CursorInv, Domains, Sound
<1>2. newest' = newest => GoesUp
  BY <1>1
<1>3. cur' = cur => MovesOn
  OBVIOUS
<1> SUFFICES GoesUp /\ MovesOn
  BY <1>1
<1> HIDE DEF GoesUp, MovesOn
<1>4. ASSUME NEW t \in Home, Create(d, t) \/ Edit(d) \/ Delete(d) PROVE GoesUp /\ MovesOn
  <2>1. newest' = newest /\ cur' = cur
    BY <1>4 DEF Create, Edit, Delete, server
  <2> QED BY <1>2, <1>3, <2>1
<1>5. CASE List(d) \/ PullNothing(d) \/ ClosedPush(d) \/ End(d) \/ VaultFull(d) \/ Restart(d)
  <2>1. newest' = newest /\ cur' = cur
    BY <1>5 DEF List, PullNothing, ClosedPush, End, VaultFull, Restart, server, store
  <2> QED BY <1>2, <1>3, <2>1
<1>6. CASE Settle(d)
  <2>1. newest' = newest /\ \A e \in Device : \A t \in Home : cur'[e][t] = cur[e][t]
    BY <1>1, <1>6, SettleIs
  <2> QED BY <1>2, <2>1 DEF MovesOn
<1>7. ASSUME NEW t \in Home, Pull(d, t) PROVE GoesUp /\ MovesOn
  <2>1. newest' = newest /\ cur' = [cur EXCEPT ![d][t] = Reached(d, t)]
    BY <1>7, PullIs
  <2>2. MovesOn
    BY <1>1, <1>7, <2>1 DEF MovesOn
  <2> QED BY <1>2, <2>1, <2>2
<1>8. ASSUME NEW t \in Home, Fetch(d, t) \/ Conflict(d, t) \/ Ack(d, t) \/ FailedPull(d, t) \/ FailedPush(d, t)
      PROVE  GoesUp /\ MovesOn
  <2>1. newest' = newest /\ cur' = cur
    BY <1>8 DEF Fetch, Conflict, Ack, FailedPull, FailedPush, server, store
  <2> QED BY <1>2, <1>3, <2>1
<1>9. ASSUME NEW t \in Home, Send(d, t) PROVE GoesUp /\ MovesOn
  <2>1. newest' = newest + 1 /\ cur' = cur
    BY <1>9 DEF Send, PutRow, store
  <2> QED BY <1>1, <1>3, <2>1 DEF GoesUp
<1>10. ASSUME NEW t \in Home, Drain(d, t) \/ FailedDrain(d, t) PROVE GoesUp /\ MovesOn
  <2>1. cur' = cur /\ (ServerDeletes(d, t) \/ newest' = newest)
    BY <1>10 DEF Drain, FailedDrain, server, store
  <2>2. ServerDeletes(d, t) => GoesUp
    BY <1>1, DeletesGrow DEF Grown, GoesUp
  <2> QED BY <1>2, <1>3, <2>1, <2>2
<1>11. CASE User(d)
  <2>1. "vault" \in Home
    BY DEF Home
  <2> QED BY <1>4, <1>11, <2>1, UserIs
<1>12. CASE Sync(d)
  BY <1>5, <1>6, <1>7, <1>8, <1>9, <1>10, <1>12 DEF Sync
<1>13. CASE Trouble(d)
  BY <1>5, <1>8, <1>10, <1>13 DEF Trouble
<1> QED BY <1>11, <1>12, <1>13

LEMMA StaysBelow ==
  ASSUME StayPut, HomeInv, NEW s, AtHome(s), NEW d \in Device, User(d) \/ Sync(d) \/ Trouble(d)
  PROVE  CursorsBelow'
<1> SUFFICES ASSUME NEW e \in Device, NEW t \in Home PROVE cur'[e][t] <= newest'
  BY DEF CursorsBelow
<1>1. /\ cur[e][t] \in Nat /\ cur[e][t] <= newest /\ last[t] \in Nat /\ last[t] <= newest
  BY DEF HomeInv, CursorsBelow, CursorInv, Sound, Numbered
<1>2. /\ newest \in Nat /\ newest' \in Nat /\ newest <= newest'
      /\ \/ cur'[e][t] = cur[e][t]
         \/ e = d /\ cur'[d][t] = Reached(d, t)
  BY CursorStep
<1>3. Reached(e, t) = cur[e][t] \/ Reached(e, t) = last[t]
  BY DEF Reached
<1> QED BY <1>1, <1>2, <1>3

LEMMA StaysHome ==
  ASSUME StayPut, HomeInv, NEW s, AtHome(s), NEW d \in Device,
         Edit(d) \/ Delete(d) \/ Sync(d) \/ Trouble(d)
  PROVE  AtHome(s)'
<1>1. RowsInv /\ CursorInv
  BY DEF HomeInv
<1>2. CASE Edit(d) \/ Delete(d)
  <2>1. Homely(s, d) /\ ops' # 0
    BY <1>1, <1>2, UserHomely
  <2>2. Lands(d)
    BY <1>1, <1>2, UserLands DEF User
  <2> QED BY <1>1, <2>1, <2>2, HomelyKeeps
<1>3. CASE Sync(d) \/ Trouble(d)
  <2>1. Lands(d)
    BY <1>1, <1>3, SyncKeeps
  <2>2. ops' = ops
    <3>1. Sync(d) => ops' = ops
      BY DEF Sync, List, PullNothing, Settle, ClosedPush, End, Pull, Drain, Fetch, Send, Conflict, Ack
    <3>2. Trouble(d) => ops' = ops
      BY DEF Trouble, VaultFull, Restart, FailedPull, FailedDrain, FailedPush
    <3> QED BY <1>3, <3>1, <3>2
  <2>3. CASE Sync(d)
    <3>1. CASE List(d) \/ PullNothing(d) \/ ClosedPush(d) \/ End(d)
      BY <1>1, <2>1, <2>2, <3>1, SimpleHomely, HomelyKeeps
    <3>2. CASE Settle(d)
      BY <1>1, <2>1, <2>2, <3>2, SettleHomely, HomelyKeeps
    <3>3. ASSUME NEW t \in Home, Pull(d, t) \/ Drain(d, t) \/ Fetch(d, t) \/ Send(d, t) \/ Conflict(d, t) \/ Ack(d, t)
          PROVE  Homely(s, d)
      BY <1>1, <3>3, PullHomely, DrainHomely, FetchHomely, SendHomely, ConflictHomely, AckHomely
    <3>4. ASSUME Homely(s, d) PROVE AtHome(s)'
      BY <1>1, <2>1, <2>2, <3>4, HomelyKeeps
    <3> QED BY <2>3, <3>1, <3>2, <3>3, <3>4 DEF Sync
  <2>4. CASE Trouble(d)
    <3>1. Homely(s, d)
      BY <1>1, <2>4, SimpleHomely, FailedPullHomely, DrainHomely DEF Trouble
    <3> QED BY <1>1, <2>1, <2>2, <3>1, HomelyKeeps
  <2> QED BY <1>3, <2>3, <2>4
<1> QED BY <1>2, <1>3

LEMMA CreatesAtHome ==
  ASSUME HomeInv, NEW d \in Device, NEW t \in Home, Create(d, t)
  PROVE  AtHome(t)' /\ Unborn
<1>1. RowsInv /\ ops = 0
  BY DEF HomeInv, Create
<1>2. PICK s : AtHome(s)
  BY DEF HomeInv
<1>3. Unborn /\ ~closed
  BY <1>1, <1>2 DEF AtHome
<1>4. items' = items /\ closed' = closed /\ sync' = sync /\ ops' = 1
  BY DEF Create, server
<1>5. \A e \in Device : row'[e] = NoRow \/ row'[e].home = t
  BY <1>1, <1>3, Before DEF Create, Unborn
<1>6. \A e \in Device : StaysAt(s, row[e], sync[e])
  BY <1>2 DEF AtHome
<1>7. \A e \in Device : StaysAt(t, row'[e], sync'[e])
  BY <1>3, <1>4, <1>5, <1>6 DEF StaysAt, Unborn
<1>8. DOMAIN items' = {}
  BY <1>3, <1>4 DEF Unborn
<1> QED BY <1>3, <1>4, <1>7, <1>8 DEF AtHome

LEMMA HomeBegins == RowsInit => HomeInv
<1> SUFFICES ASSUME RowsInit PROVE HomeInv
  OBVIOUS
<1>1. RowsInv /\ CursorInv
  BY RowsBegin, CursorInvStarts
<1>2. CursorsBelow
  BY DEF RowsInit, CursorsBelow
<1>3. AtHome("vault")
  <2>1. /\ items = <<>> /\ ~closed /\ "vault" \in Home
        /\ \A d \in Device : row[d] = NoRow /\ sync[d] = NoSync
    BY DEF RowsInit, Home
  <2>2. DOMAIN items = {}
    BY <2>1
  <2>3. \A d \in Device : StaysAt("vault", row[d], sync[d]) /\ \A t \in Home : sync[d].at \notin {<<"send", t>>, <<"ack", t>>}
    BY <2>1, IdleStays
  <2>4. Unborn
    BY <2>1, <2>3, Zenon DEF Unborn
  <2> QED BY <2>1, <2>2, <2>3, <2>4 DEF AtHome
<1>4. "vault" \in Home
  BY DEF Home
<1> QED BY <1>1, <1>2, <1>3, <1>4 DEF HomeInv

LEMMA HomeRests ==
  ASSUME UNCHANGED rowVars, NEW s, AtHome(s)
  PROVE  AtHome(s)'
  BY DEF AtHome, Unborn, StaysAt, rowVars, server, store

LEMMA HomeGoesOn ==
  ASSUME StayPut, HomeInv, [RowsNext]_rowVars
  PROVE  HomeInv'
<1>1. RowsInv' /\ CursorInv'
  BY RowsGoOn, CursorInvStays DEF HomeInv
<1>2. PICK s : AtHome(s) /\ s \in Home
  BY DEF HomeInv
<1>3. CASE UNCHANGED rowVars
  <2>1. AtHome(s)'
    BY <1>2, <1>3, HomeRests
  <2>2. CursorsBelow'
    BY <1>3 DEF HomeInv, CursorsBelow, rowVars, server, store
  <2> QED BY <1>1, <1>2, <2>1, <2>2 DEF HomeInv
<1>4. ASSUME NEW d \in Device, User(d) \/ Sync(d) \/ Trouble(d) PROVE HomeInv'
  <2>1. CursorsBelow'
    BY <1>2, <1>4, StaysBelow
  <2>2. \E t \in Home : AtHome(t)'
    <3>1. CASE \E t \in Home : Create(d, t)
      BY <3>1, CreatesAtHome
    <3>2. CASE ~\E t \in Home : Create(d, t)
      <4>1. Edit(d) \/ Delete(d) \/ Sync(d) \/ Trouble(d)
        BY <1>4, <3>2, UserIs
      <4> QED BY <1>2, <4>1, StaysHome
    <3> QED BY <3>1, <3>2
  <2> QED BY <1>1, <2>1, <2>2 DEF HomeInv
<1> QED BY <1>3, <1>4 DEF RowsNext

-----------------------------------------------------------------------------
(***************************************************************************)
(* NothingSkipped.  What makes it inductive is which item of the note a    *)
(* device knows: its row's item is the one it passed or a later one, and   *)
(* so is that of a deletion it has queued.                                 *)
(***************************************************************************)
Follows(it, x, u) == x \in DOMAIN it /\ (x = u \/ it[x].num > it[u].num)
Holding(it, r, u) == it[u].text \subseteq r.text /\ Follows(it, r.uid, u)
QueuedSince(it, tb, u) == \E t \in tb : Follows(it, t.uid, u)
GoneSince(it, u) == \E v \in DOMAIN it : it[v].gone /\ it[v].num > it[u].num

AccountedFor(it, r, tb, u) ==
  ~it[u].gone => Holding(it, r, u) \/ QueuedSince(it, tb, u) \/ GoneSince(it, u)

Accounts(d) ==
  \A u \in DOMAIN items :
    items[u].num <= cur[d][items[u].space] => AccountedFor(items, row[d], tomb[d], u)

Accounted == \A d \in Device : Accounts(d)

(* An item that comes after all of T accounts for them and for itself.     *)
LEMMA AppliedAccounts ==
  ASSUME NEW it, NEW s, NEW tb, NEW acc, NEW p, NEW T,
         acc.row \in NoteRow, acc = [row |-> acc.row, refused |-> acc.refused],
         acc.row = NoRow \/ acc.row.home = s,
         p.uid \in DOMAIN it, p.gone = it[p.uid].gone, p.text = it[p.uid].text,
         \A u \in T : AccountedFor(it, acc.row, tb, u) /\ it[p.uid].num > it[u].num
  PROVE  \A u \in T \cup {p.uid} : AccountedFor(it, Applied(acc, p, s).row, tb, u)
<1> SUFFICES ASSUME NEW u \in T \cup {p.uid}, ~it[u].gone
             PROVE  AccountedFor(it, Applied(acc, p, s).row, tb, u)
  BY DEF AccountedFor
<1>1. CASE p.gone
  BY <1>1 DEF AccountedFor, GoneSince
<1>2. CASE ~p.gone
  <2>1. MayClaim(acc.row, s)
    BY DEF MayClaim
  <2>2. Applied(acc, p, s).row = Written(acc.row, p, s)
    BY <1>2, <2>1 DEF Applied
  <2>3. Written(acc.row, p, s).uid = p.uid /\ Written(acc.row, p, s).text = acc.row.text \cup p.text
    BY DEF Written, NoteRow
  <2>4. Follows(it, p.uid, u)
    BY DEF Follows
  <2>5. u = p.uid => Holding(it, Written(acc.row, p, s), u)
    BY <2>3, <2>4 DEF Holding
  <2>6. u \in T /\ Holding(it, acc.row, u) => Holding(it, Written(acc.row, p, s), u)
    BY <2>3, <2>4 DEF Holding
  <2> QED BY <2>2, <2>5, <2>6 DEF AccountedFor
<1> QED BY <1>1, <1>2

LEMMA PullAccounts ==
  ASSUME HomeInv, NEW s, AtHome(s), NEW d \in Device,
         \A u \in DOMAIN items : items[u].num <= cur[d][s] => AccountedFor(items, row[d], tomb[d], u),
         NEW its \in Seq(PulledOf(items, s)), Len(its) <= Len(News(d, s)),
         \A i \in 1 .. Len(its) : its[i] = News(d, s)[i]
  PROVE  LET r == ApplyAll(d, s, its).row
         IN  /\ \A u \in DOMAIN items : items[u].num <= cur[d][s] => AccountedFor(items, r, tomb[d], u)
             /\ Len(its) = Len(News(d, s)) => \A u \in DOMAIN items : AccountedFor(items, r, tomb[d], u)
<1>1. RowsInv /\ s \in Home /\ ~closed /\ cur[d][s] \in Nat /\ ServerTyped(items, newest)
  BY DEF HomeInv, AtHome, RowsInv, CursorInv, Sound
<1>2. \A u \in DOMAIN items : items[u].num \in Nat /\ items[u].space = s
  BY <1>1, ItemsAre DEF AtHome
<1> DEFINE S == Changed(d, s)
           key == [u \in S |-> items[u].num]
<1>3. PICK q : /\ Ordered(q, key, S)
               /\ News(d, s) = [i \in 1 .. Cardinality(S) |->
                      [uid |-> q[i], gone |-> items[q[i]].gone, text |-> items[q[i]].text]]
  BY <1>1, NewsInOrder
<1>4. /\ IsFiniteSet(S) /\ Cardinality(S) \in Nat
      /\ \A u \in S : u \in DOMAIN items /\ items[u].num > cur[d][s]
  BY <1>1, ChangedAre
<1>5. \A u \in DOMAIN items : items[u].num > cur[d][s] => u \in S
  BY <1>2 DEF Changed
<1> HIDE DEF S
<1>6. key \in [S -> Nat] /\ \A u \in S : key[u] = items[u].num
  BY <1>2, <1>4
<1> HIDE DEF key
<1>7. /\ \A i \in 1 .. Cardinality(S) : q[i] \in S
      /\ \A i, j \in 1 .. Cardinality(S) : i < j => items[q[i]].num < items[q[j]].num
  BY <1>3, <1>6 DEF Ordered
<1>8. \A u \in S : \E i \in 1 .. Cardinality(S) : q[i] = u
  BY <1>3, <1>4, <1>6, OrderedIsAll
<1>9. Len(News(d, s)) = Cardinality(S) /\ Len(its) \in Nat
  BY <1>3, <1>4
<1>10. \A i \in 1 .. Len(its) : /\ its[i].uid = q[i] /\ its[i].gone = items[q[i]].gone
                                /\ its[i].text = items[q[i]].text /\ i \in 1 .. Cardinality(S)
  <2> SUFFICES ASSUME NEW i \in 1 .. Len(its)
               PROVE  /\ its[i].uid = q[i] /\ its[i].gone = items[q[i]].gone
                      /\ its[i].text = items[q[i]].text /\ i \in 1 .. Cardinality(S)
    OBVIOUS
  <2>1. i \in 1 .. Cardinality(S)
    BY <1>4, <1>9
  <2>2. its[i] = [uid |-> q[i], gone |-> items[q[i]].gone, text |-> items[q[i]].text]
    BY <1>3, <2>1
  <2> QED BY <2>1, <2>2
<1>11. PICK r \in [0 .. Len(its) -> Plain(s)] :
           /\ r[0] = [row |-> row[d], refused |-> <<>>] /\ r[Len(its)] = ApplyAll(d, s, its)
           /\ \A n \in 1 .. Len(its) : r[n] = Applied(r[n - 1], its[n], s)
  BY <1>1, PlainRun
<1> DEFINE Seen(n) == {u \in DOMAIN items : items[u].num <= cur[d][s] \/ \E j \in 1 .. n : q[j] = u}
           Q == {n \in Nat : n <= Len(its) => \A u \in Seen(n) : AccountedFor(items, r[n].row, tomb[d], u)}
<1>12. 0 \in Q
  BY <1>11
<1>13. ASSUME NEW n \in Q PROVE n + 1 \in Q
  <2> SUFFICES ASSUME n + 1 <= Len(its) PROVE \A u \in Seen(n + 1) : AccountedFor(items, r[n + 1].row, tomb[d], u)
    OBVIOUS
  <2>1. n \in 0 .. Len(its) /\ n + 1 \in 1 .. Len(its) /\ (n + 1) - 1 = n
    BY <1>9
  <2>2. r[n] \in Plain(s) /\ r[n + 1] = Applied(r[n], its[n + 1], s)
    BY <1>11, <2>1
  <2>3. /\ r[n].row \in NoteRow /\ (r[n].row = NoRow \/ r[n].row.home = s)
        /\ r[n] = [row |-> r[n].row, refused |-> r[n].refused]
    BY <2>2 DEF Plain, Pulling
  <2>4. q[n + 1] \in DOMAIN items /\ q[n + 1] \in S
    BY <1>4, <1>7, <1>10, <2>1
  <2>5. \A u \in Seen(n) : items[q[n + 1]].num > items[u].num
    <3> SUFFICES ASSUME NEW u \in Seen(n) PROVE items[q[n + 1]].num > items[u].num
      OBVIOUS
    <3>1. CASE items[u].num <= cur[d][s]
      BY <1>1, <1>2, <1>4, <2>4, <3>1
    <3>2. ASSUME NEW j \in 1 .. n, q[j] = u PROVE items[q[n + 1]].num > items[u].num
      <4>1. j \in 1 .. Cardinality(S) /\ n + 1 \in 1 .. Cardinality(S) /\ j < n + 1
        BY <1>4, <1>9, <1>10, <2>1
      <4>2. items[q[j]].num < items[q[n + 1]].num
        BY <1>7, <4>1
      <4> QED BY <1>2, <2>4, <3>2, <4>2
    <3> QED BY <3>1, <3>2
  <2>6. \A u \in Seen(n) : AccountedFor(items, r[n].row, tomb[d], u)
    BY <2>1
  <2>7. \A u \in Seen(n + 1) : u \in Seen(n) \/ u = q[n + 1]
    <3>1. \A j \in 1 .. n + 1 : j \in 1 .. n \/ j = n + 1
      OBVIOUS
    <3> QED BY <3>1
  <2>8. its[n + 1].uid = q[n + 1] /\ its[n + 1].gone = items[q[n + 1]].gone /\ its[n + 1].text = items[q[n + 1]].text
    BY <1>10, <2>1
  <2> HIDE DEF Seen, Q
  <2>9. \A u \in Seen(n) \cup {q[n + 1]} : AccountedFor(items, r[n + 1].row, tomb[d], u)
    <3>1. PICK acc, p, T : acc = r[n] /\ p = its[n + 1] /\ T = Seen(n)
      OBVIOUS
    <3>2. \A u \in T \cup {p.uid} : AccountedFor(items, Applied(acc, p, s).row, tomb[d], u)
      BY <2>3, <2>4, <2>5, <2>6, <2>8, <3>1, AppliedAccounts
    <3> QED BY <2>2, <2>8, <3>1, <3>2
  <2> QED BY <2>7, <2>9
<1>14. Q = Nat
  <2> HIDE DEF Q
  <2>1. Q \in SUBSET Nat
    BY DEF Q
  <2> QED BY <1>12, <1>13, <2>1, CountInduction
<1>15. \A u \in Seen(Len(its)) : AccountedFor(items, r[Len(its)].row, tomb[d], u)
  BY <1>9, <1>14
<1>16. Len(its) = Len(News(d, s)) => \A u \in DOMAIN items : u \in Seen(Len(its))
  BY <1>1, <1>2, <1>5, <1>8, <1>9
<1> QED BY <1>11, <1>15, <1>16

-----------------------------------------------------------------------------
(* The server puts its changes after those it has, and a deleted item      *)
(* stays one.                                                              *)
GoesOn(it, it2, n) ==
  /\ \A u \in DOMAIN it : /\ u \in DOMAIN it2 /\ (it2[u] = it[u] \/ it2[u].num > n)
                          /\ it[u].gone => it2[u].gone
  /\ \A u \in DOMAIN it2 : u \in DOMAIN it \/ it2[u].num > n

LEMMA SendGoesOn ==
  ASSUME RowsInv, NEW d \in Device, NEW t \in Home, Send(d, t)
  PROVE  GoesOn(items, items', newest)
<1> DEFINE p == sync[d].push
           u == IF p.uid = 0 THEN Len(items) + 1 ELSE p.uid
           it == [space |-> t, gone |-> p.uid # 0 /\ items[u].gone, text |-> p.text, num |-> newest + 1]
<1>1. PutRow(u, it)
  BY DEF Send
<1>2. /\ newest \in Nat /\ Len(items) \in Nat /\ DOMAIN items = 1 .. Len(items) /\ items \in Seq(StoredItem)
  BY Before, ItemsAre DEF ServerTyped
<1>3. it.num > newest /\ (u \in DOMAIN items /\ items[u].gone => it.gone)
  <2>1. u \in DOMAIN items => p.uid # 0
    BY <1>2
  <2>2. it.num = newest + 1 /\ newest + 1 > newest
    BY <1>2
  <2>3. it.gone = (p.uid # 0 /\ items[u].gone)
    OBVIOUS
  <2> HIDE DEF it, u
  <2> QED BY <2>1, <2>2, <2>3
<1> HIDE DEF it, u
<1>4. CASE u \in DOMAIN items
  <2>1. items' = [items EXCEPT ![u] = it]
    BY <1>1, <1>4 DEF PutRow
  <2> QED BY <1>3, <1>4, <2>1 DEF GoesOn
<1>5. CASE u \notin DOMAIN items
  <2>1. items' = Append(items, it)
    BY <1>1, <1>5 DEF PutRow
  <2>2. /\ DOMAIN items' = 1 .. Len(items) + 1 /\ items'[Len(items) + 1] = it
        /\ \A v \in 1 .. Len(items) : items'[v] = items[v]
    BY <1>2, <2>1, Appended DEF Range
  <2> QED BY <1>2, <1>3, <2>2 DEF GoesOn
<1> QED BY <1>4, <1>5

LEMMA DeletesGoOn ==
  ASSUME RowsInv, NEW d \in Device, NEW t \in Home, ServerDeletes(d, t)
  PROVE  /\ GoesOn(items, items', newest)
         /\ \A u \in DOMAIN items : u \in Queued(d, t) => items'[u].gone
<1> DEFINE new == {u \in DOMAIN items : u \in Queued(d, t) /\ ~items[u].gone}
           upto(u) == {v \in new : v <= u}
<1>1. /\ newest \in Nat /\ Len(items) \in Nat /\ DOMAIN items = 1 .. Len(items) /\ IsFiniteSet(DOMAIN items)
  BY Before, ItemsAre
<1>2. items' = [u \in DOMAIN items |->
           IF u \in new
             THEN [space |-> t, gone |-> TRUE, text |-> {}, num |-> newest + Cardinality(upto(u))]
             ELSE items[u]]
  BY DEF ServerDeletes
<1>3. \A u \in new : u \in DOMAIN items /\ u \in Nat
  BY <1>1
<1>4. IsFiniteSet(new)
  BY <1>1, FS_Subset
<1>5. \A u \in DOMAIN items : u \in Queued(d, t) => u \in new \/ items[u].gone
  OBVIOUS
<1> HIDE DEF new
<1>6. ASSUME NEW u \in new PROVE newest + Cardinality(upto(u)) > newest
  <2>1. upto(u) \subseteq new /\ u \in upto(u)
    BY <1>3
  <2> HIDE DEF upto
  <2>2. IsFiniteSet(upto(u))
    BY <1>4, <2>1, FS_Subset
  <2>3. Cardinality(upto(u)) \in Nat /\ Cardinality(upto(u)) # 0
    BY <2>1, <2>2, FS_CardinalityType, FS_EmptySet
  <2> QED BY <1>1, <2>3
<1> HIDE DEF upto
<1>7. /\ DOMAIN items' = DOMAIN items
      /\ \A u \in new : items'[u].gone /\ items'[u].num > newest
      /\ \A u \in DOMAIN items : u \notin new => items'[u] = items[u]
  BY <1>2, <1>3, <1>6
<1>8. GoesOn(items, items', newest)
  BY <1>7 DEF GoesOn
<1> QED BY <1>5, <1>7, <1>8

LEMMA AccountsGrow ==
  ASSUME NEW it, NEW n, ServerTyped(it, n), NEW it2, NEW n2, ServerTyped(it2, n2), GoesOn(it, it2, n),
         NEW u \in DOMAIN it2, it2[u].num <= n, NEW r, NEW tb, u \in DOMAIN it => AccountedFor(it, r, tb, u)
  PROVE  u \in DOMAIN it /\ it2[u] = it[u] /\ AccountedFor(it2, r, tb, u)
<1>1. n \in Nat /\ \A v \in DOMAIN it : it[v].num \in Nat /\ it[v].num <= n
  BY ItemsAre DEF ServerTyped
<1>2. \A v \in DOMAIN it2 : it2[v].num \in Nat
  BY ItemsAre
<1>3. u \in DOMAIN it /\ it2[u] = it[u]
  BY <1>1, <1>2 DEF GoesOn
<1>4. \A v \in DOMAIN it : v \in DOMAIN it2 /\ it2[v].num >= it[v].num /\ (it[v].gone => it2[v].gone)
  BY <1>1, <1>2 DEF GoesOn
<1>5. \A v : Follows(it, v, u) => Follows(it2, v, u)
  BY <1>1, <1>2, <1>3, <1>4 DEF Follows
<1>6. Holding(it, r, u) => Holding(it2, r, u)
  BY <1>3, <1>5 DEF Holding
<1>7. QueuedSince(it, tb, u) => QueuedSince(it2, tb, u)
  BY <1>5 DEF QueuedSince
<1>8. GoneSince(it, u) => GoneSince(it2, u)
  BY <1>1, <1>2, <1>3, <1>4 DEF GoneSince
<1> QED BY <1>3, <1>6, <1>7, <1>8 DEF AccountedFor

(* A device that neither pulls nor changes its row.                        *)
LEMMA AccountsStay ==
  ASSUME HomeInv, NEW e \in Device, Accounts(e), ServerTyped(items', newest'),
         items' = items \/ GoesOn(items, items', newest),
         row'[e] = row[e], tomb'[e] = tomb[e], \A t \in Home : cur'[e][t] = cur[e][t]
  PROVE  Accounts(e)'
<1>1. ServerTyped(items, newest)
  BY DEF HomeInv, RowsInv
<1>2. \A u \in DOMAIN items' : items'[u].space \in Home /\ items'[u].num \in Nat
  BY ItemsAre
<1>3. \A t \in Home : cur[e][t] \in Nat /\ cur[e][t] <= newest /\ newest \in Nat
  BY <1>1 DEF HomeInv, CursorsBelow, CursorInv, Sound, ServerTyped
<1>4. CASE items' = items
  BY <1>2, <1>4 DEF Accounts
<1>5. CASE GoesOn(items, items', newest)
  <2> SUFFICES ASSUME NEW u \in DOMAIN items', items'[u].num <= cur'[e][items'[u].space]
               PROVE  AccountedFor(items', row'[e], tomb'[e], u)
    BY DEF Accounts
  <2>1. items'[u].num <= newest /\ items'[u].num <= cur[e][items'[u].space]
    BY <1>2, <1>3
  <2>2. u \in DOMAIN items /\ items'[u] = items[u]
    <3>1. \A v \in DOMAIN items : items[v].num \in Nat
      BY <1>1, ItemsAre
    <3> QED BY <1>2, <1>3, <1>5, <2>1, <3>1 DEF GoesOn
  <2>3. AccountedFor(items, row[e], tomb[e], u)
    BY <2>1, <2>2 DEF Accounts
  <2> QED BY <1>1, <1>5, <2>1, <2>3, AccountsGrow
<1> QED BY <1>4, <1>5

LEMMA ItemsGoOn ==
  ASSUME StayPut, HomeInv, NEW d \in Device, User(d) \/ Sync(d) \/ Trouble(d)
  PROVE  items' = items \/ GoesOn(items, items', newest)
<1>1. RowsInv
  BY DEF HomeInv
<1>2. ASSUME NEW t \in Home, Send(d, t) PROVE GoesOn(items, items', newest)
  BY <1>1, <1>2, SendGoesOn
<1>3. ASSUME NEW t \in Home, Drain(d, t) \/ FailedDrain(d, t) PROVE items' = items \/ GoesOn(items, items', newest)
  <2>1. ServerDeletes(d, t) \/ items' = items
    BY <1>3 DEF Drain, FailedDrain, server
  <2> QED BY <1>1, <2>1, DeletesGoOn
<1>4. CASE List(d) \/ PullNothing(d) \/ Settle(d) \/ ClosedPush(d) \/ End(d) \/ VaultFull(d) \/ Restart(d)
  BY <1>4 DEF List, PullNothing, Settle, ClosedPush, End, VaultFull, Restart, server
<1>5. ASSUME NEW t \in Home, \/ Pull(d, t) \/ Fetch(d, t) \/ Conflict(d, t) \/ Ack(d, t)
                             \/ FailedPull(d, t) \/ FailedPush(d, t)
      PROVE  items' = items
  BY <1>5 DEF Pull, Fetch, Conflict, Ack, FailedPull, FailedPush, server
<1>6. CASE User(d)
  BY <1>6 DEF User, Create, Move, Edit, Delete, StopSharing, server
<1>7. CASE Sync(d)
  BY <1>2, <1>3, <1>4, <1>5, <1>7 DEF Sync
<1>8. CASE Trouble(d)
  BY <1>3, <1>4, <1>5, <1>8 DEF Trouble
<1> QED BY <1>6, <1>7, <1>8

(* The user's own changes.                                                 *)
LEMMA UserAccounts ==
  ASSUME StayPut, HomeInv, NEW d \in Device, Accounts(d), User(d)
  PROVE  Accounts(d)'
<1>1. RowsInv /\ \E s \in Home : AtHome(s)
  BY DEF HomeInv
<1>2. ASSUME NEW t \in Home, Create(d, t) PROVE Accounts(d)'
  <2>1. items' = <<>>
    BY <1>2, CreatesAtHome DEF Unborn, Create, server
  <2>2. DOMAIN items' = {}
    BY <2>1
  <2> QED BY <2>2 DEF Accounts
<1>3. ASSUME Edit(d) \/ Delete(d),
             NEW u \in DOMAIN items, Holding(items, row[d], u)
      PROVE  Holding(items, row'[d], u) \/ QueuedSince(items, tomb'[d], u)
  <2>1. CASE Edit(d)
    <3>1. row'[d].uid = row[d].uid /\ row[d].text \subseteq row'[d].text
      BY <1>1, <2>1, Before DEF Edit, NoteRow
    <3> QED BY <1>3, <3>1 DEF Holding
  <2>2. CASE Delete(d)
    <3>1. row[d].uid \in DOMAIN items /\ Follows(items, row[d].uid, u)
      BY <1>3 DEF Holding, Follows
    <3>2. row[d].uid # 0
      BY <1>1, <3>1, Before, ItemsAre
    <3>3. [uid |-> row[d].uid, space |-> row[d].home] \in tomb'[d]
      BY <1>1, <2>2, <3>2, Before DEF Delete, Retired
    <3> QED BY <3>1, <3>3 DEF QueuedSince
  <2> QED BY <1>3, <2>1, <2>2
<1>4. ASSUME Edit(d) \/ Delete(d) PROVE Accounts(d)'
  <2>1. items' = items /\ cur' = cur /\ tomb[d] \subseteq tomb'[d]
    BY <1>1, <1>4, Before DEF Edit, Delete, server
  <2> SUFFICES ASSUME NEW u \in DOMAIN items, items[u].num <= cur[d][items[u].space]
               PROVE  AccountedFor(items, row'[d], tomb'[d], u)
    BY <2>1 DEF Accounts
  <2>2. AccountedFor(items, row[d], tomb[d], u)
    BY DEF Accounts
  <2>3. QueuedSince(items, tomb[d], u) => QueuedSince(items, tomb'[d], u)
    BY <2>1 DEF QueuedSince
  <2> QED BY <1>3, <1>4, <2>2, <2>3 DEF AccountedFor
<1> QED BY <1>2, <1>4, UserIs

LEMMA PullsAccount ==
  ASSUME HomeInv, NEW s, AtHome(s), NEW d \in Device, Accounts(d), NEW t \in Home, Pull(d, t) \/ FailedPull(d, t)
  PROVE  Accounts(d)'
<1>1. /\ RowsInv /\ DOMAIN cur = Device /\ DOMAIN cur[d] = Home /\ s \in Home
      /\ \A u \in DOMAIN items : items[u].space = s
  BY DEF HomeInv, CursorInv, Domains, Sound, AtHome
<1>2. News(d, t) \in Seq(PulledOf(items, t))
  BY <1>1, Before, NewsAreOf
<1>3. items' = items /\ tomb' = tomb
  BY DEF Pull, FailedPull, server
<1>4. \A u \in DOMAIN items : items[u].num <= cur[d][s] => AccountedFor(items, row[d], tomb[d], u)
  BY <1>1 DEF Accounts
<1>5. CASE Pull(d, t)
  <2>1. /\ t # s \/ items = <<>> => ApplyAll(d, t, News(d, t)).row = row[d]
        /\ row' = [row EXCEPT ![d] = ApplyAll(d, t, News(d, t)).row]
        /\ cur' = [cur EXCEPT ![d][t] = Reached(d, t)]
    BY <1>5, PullIs
  <2>2. row'[d] = ApplyAll(d, t, News(d, t)).row /\ (t # s => cur'[d][s] = cur[d][s])
    BY <1>1, <2>1, Before
  <2>3. CASE t = s
    <3>1. \A u \in DOMAIN items : AccountedFor(items, ApplyAll(d, s, News(d, s)).row, tomb[d], u)
      BY <1>2, <1>4, <2>3, PullAccounts
    <3> QED BY <1>3, <2>2, <2>3, <3>1 DEF Accounts
  <2>4. CASE t # s
    BY <1>1, <1>3, <1>4, <2>1, <2>2, <2>4 DEF Accounts
  <2> QED BY <2>3, <2>4
<1>6. CASE FailedPull(d, t)
  <2>1. PICK n \in 0 .. Len(News(d, t)) :
           /\ SubSeq(News(d, t), 1, n) \in Seq(PulledOf(items, t))
           /\ row' = [row EXCEPT ![d] = ApplyAll(d, t, SubSeq(News(d, t), 1, n)).row]
           /\ t # s \/ items = <<>> => n = 0 /\ row'[d] = row[d]
    BY <1>6, FailedPullIs
  <2>2. cur' = cur
    BY <1>6 DEF FailedPull
  <2>3. CASE t = s
    <3>1. PICK its \in Seq(PulledOf(items, s)) : its = SubSeq(News(d, s), 1, n)
      BY <2>1, <2>3
    <3>2. Len(its) = n /\ \A i \in 1 .. n : its[i] = News(d, s)[i]
      BY <1>2, <2>1, <2>3, <3>1, SubSeqProperties
    <3>3. Len(its) <= Len(News(d, s))
      BY <1>2, <2>1, <2>3, <3>2
    <3>4. \A u \in DOMAIN items : items[u].num <= cur[d][s] =>
            AccountedFor(items, ApplyAll(d, s, its).row, tomb[d], u)
      BY <1>4, <3>2, <3>3, PullAccounts
    <3>5. row'[d] = ApplyAll(d, s, its).row
      BY <1>1, <2>1, <2>3, <3>1, Before
    <3> QED BY <1>1, <1>3, <2>2, <3>4, <3>5 DEF Accounts
  <2>4. CASE t # s
    BY <1>1, <1>3, <1>4, <2>1, <2>2, <2>4 DEF Accounts
  <2> QED BY <2>3, <2>4
<1> QED BY <1>5, <1>6

LEMMA DrainAccounts ==
  ASSUME HomeInv, NEW d \in Device, Accounts(d), NEW t \in Home, Drain(d, t)
  PROVE  Accounts(d)'
<1>1. RowsInv
  BY DEF HomeInv
<1>2. ServerTyped(items, newest) /\ ServerTyped(items', newest')
  BY <1>1, DrainLands DEF Lands, RowsInv
<1>3. /\ GoesOn(items, items', newest) /\ \A u \in DOMAIN items : u \in Queued(d, t) => items'[u].gone
      /\ row' = row /\ cur' = cur
  BY <1>1, DeletesGoOn DEF Drain
<1>4. tomb'[d] = {x \in tomb[d] : x.space # t}
  BY <1>1, Before DEF Drain
<1>5. \A u \in DOMAIN items' : items'[u].space \in Home /\ items'[u].num \in Nat
  BY <1>2, ItemsAre
<1>6. \A h \in Home : cur[d][h] \in Nat /\ cur[d][h] <= newest /\ newest \in Nat
  BY <1>2 DEF HomeInv, CursorsBelow, CursorInv, Sound, ServerTyped
<1> SUFFICES ASSUME NEW u \in DOMAIN items', items'[u].num <= cur[d][items'[u].space], ~items'[u].gone
             PROVE  AccountedFor(items', row[d], tomb'[d], u)
  BY <1>3 DEF Accounts, AccountedFor
<1>7. items'[u].num <= newest
  BY <1>5, <1>6
<1>8. u \in DOMAIN items /\ items'[u] = items[u]
  <2>1. \A v \in DOMAIN items : items[v].num \in Nat
    BY <1>2, ItemsAre
  <2> QED BY <1>3, <1>5, <1>6, <1>7, <2>1 DEF GoesOn
<1>9. AccountedFor(items', row[d], tomb[d], u)
  <2>1. AccountedFor(items, row[d], tomb[d], u)
    BY <1>8 DEF Accounts
  <2> QED BY <1>2, <1>3, <1>7, <2>1, AccountsGrow
<1>10. ASSUME QueuedSince(items', tomb[d], u) PROVE QueuedSince(items', tomb'[d], u) \/ GoneSince(items', u)
  <2>1. PICK x \in tomb[d] : Follows(items', x.uid, u)
    BY <1>10 DEF QueuedSince
  <2>2. CASE x.space # t
    BY <1>4, <2>1, <2>2 DEF QueuedSince
  <2>3. CASE x.space = t
    <3>1. x.uid \in DOMAIN items /\ x.uid \in Queued(d, t)
      BY <1>1, <2>3, Before DEF TombFits, IsOf, Queued
    <3>2. items'[x.uid].gone
      BY <1>3, <3>1
    <3> QED BY <2>1, <3>2 DEF Follows, GoneSince
  <2> QED BY <2>2, <2>3
<1> QED BY <1>9, <1>10 DEF AccountedFor

LEMMA AckAccounts ==
  ASSUME HomeInv, NEW d \in Device, Accounts(d), NEW t \in Home, Ack(d, t)
  PROVE  Accounts(d)'
<1>1. RowsInv
  BY DEF HomeInv
<1>2. PICK s : AtHome(s)
  BY DEF HomeInv
<1>3. items' = items /\ cur' = cur /\ tomb[d] \subseteq tomb'[d]
  BY <1>1, Before DEF Ack, server
<1>4. \/ row'[d] = row[d]
      \/ Receives(row[d], sync[d].push, t) /\ row'[d] = Receipt(row[d], sync[d].push)
  BY <1>1, Before DEF Ack
<1>5. sync[d].push.prev # 0 => sync[d].push.uid = sync[d].push.prev
  <2>1. sync[d].at = <<"ack", t>>
    BY DEF Ack, At
  <2> QED BY <1>2, <2>1 DEF AtHome, StaysAt
<1>6. ASSUME NEW u \in DOMAIN items, Holding(items, row[d], u) PROVE Holding(items, row'[d], u)
  <2>1. CASE row'[d] = row[d]
    BY <1>6, <2>1
  <2>2. CASE Receives(row[d], sync[d].push, t) /\ row'[d] = Receipt(row[d], sync[d].push)
    <3>1. row[d].uid \in DOMAIN items /\ row[d].uid # 0
      BY <1>1, <1>6, Before, ItemsAre DEF Holding, Follows
    <3>2. sync[d].push.uid = row[d].uid
      BY <1>5, <2>2, <3>1 DEF Receives
    <3>3. row'[d].uid = row[d].uid /\ row'[d].text = row[d].text
      BY <1>1, <2>2, <3>2, Before DEF Receipt, NoteRow
    <3> QED BY <1>6, <3>3 DEF Holding
  <2> QED BY <1>4, <2>1, <2>2
<1> SUFFICES ASSUME NEW u \in DOMAIN items, items[u].num <= cur[d][items[u].space]
             PROVE  AccountedFor(items, row'[d], tomb'[d], u)
  BY <1>3 DEF Accounts
<1>7. AccountedFor(items, row[d], tomb[d], u)
  BY DEF Accounts
<1>8. QueuedSince(items, tomb[d], u) => QueuedSince(items, tomb'[d], u)
  BY <1>3 DEF QueuedSince
<1> QED BY <1>6, <1>7, <1>8 DEF AccountedFor

LEMMA AccountsGoOn ==
  ASSUME StayPut, HomeInv, Accounted, [RowsNext]_rowVars
  PROVE  Accounted'
<1>1. HomeInv' /\ RowsInv /\ CursorInv
  BY HomeGoesOn DEF HomeInv
<1>2. ServerTyped(items', newest')
  BY <1>1 DEF HomeInv, RowsInv
<1>3. PICK s : AtHome(s)
  BY DEF HomeInv
<1>4. CASE UNCHANGED rowVars
  BY <1>4 DEF Accounted, Accounts, rowVars, server, store
<1>5. ASSUME NEW d \in Device, User(d) \/ Sync(d) \/ Trouble(d) PROVE Accounted'
  <2> SUFFICES ASSUME NEW e \in Device PROVE Accounts(e)'
    BY DEF Accounted
  <2>1. Accounts(e)
    BY DEF Accounted
  <2>2. items' = items \/ GoesOn(items, items', newest)
    BY <1>5, ItemsGoOn
  <2>3. ASSUME row'[e] = row[e], tomb'[e] = tomb[e], \A t \in Home : cur'[e][t] = cur[e][t]
        PROVE  Accounts(e)'
    BY <1>2, <2>1, <2>2, <2>3, AccountsStay
  <2>4. CASE e # d
    <3>1. Lands(d)
      BY <1>1, <1>5, UserLands, SyncKeeps
    <3>2. row'[e] = row[e] /\ tomb'[e] = tomb[e]
      BY <2>4, <3>1 DEF Lands
    <3>3. \A t \in Home : cur'[e][t] = cur[e][t]
      BY <1>3, <1>5, <2>4, CursorStep
    <3> QED BY <2>3, <3>2, <3>3
  <2>5. CASE e = d
    <3>1. CASE User(d)
      BY <2>1, <2>5, <3>1, UserAccounts
    <3>2. ASSUME NEW t \in Home, Pull(d, t) \/ FailedPull(d, t) \/ Drain(d, t) \/ Ack(d, t) PROVE Accounts(d)'
      BY <1>3, <2>1, <2>5, <3>2, PullsAccount, DrainAccounts, AckAccounts
    <3>3. CASE Settle(d)
      <4>1. row'[e] = row[e] /\ tomb' = tomb /\ \A t \in Home : cur'[e][t] = cur[e][t]
        BY <1>1, <1>3, <3>3, SettleIs
      <4> QED BY <2>3, <4>1
    <3>4. CASE List(d) \/ PullNothing(d) \/ ClosedPush(d) \/ End(d) \/ VaultFull(d) \/ Restart(d)
      <4>1. row' = row /\ tomb' = tomb /\ cur' = cur
        BY <3>4 DEF List, PullNothing, ClosedPush, End, VaultFull, Restart, store
      <4> QED BY <2>3, <4>1
    <3>5. ASSUME NEW t \in Home, Fetch(d, t) \/ Send(d, t) \/ Conflict(d, t) \/ FailedDrain(d, t) \/ FailedPush(d, t)
          PROVE  Accounts(d)'
      <4>1. row' = row /\ tomb' = tomb /\ cur' = cur
        BY <3>5 DEF Fetch, Send, Conflict, FailedDrain, FailedPush, store
      <4> QED BY <2>3, <2>5, <4>1
    <3>6. CASE Sync(d)
      BY <2>5, <3>2, <3>3, <3>4, <3>5, <3>6 DEF Sync
    <3>7. CASE Trouble(d)
      BY <2>5, <3>2, <3>4, <3>5, <3>7 DEF Trouble
    <3> QED BY <1>5, <3>1, <3>6, <3>7
  <2> QED BY <2>4, <2>5
<1> QED BY <1>4, <1>5 DEF RowsNext

(* NothingSkipped, for any number of devices, whatever fails, where users  *)
(* edit and delete the note and do not move it.                            *)
THEOREM NothingIsSkipped ==
  ASSUME StayPut
  PROVE  RowsSpec => []NothingSkipped
<1>1. RowsInit => HomeInv /\ Accounted
  <2> SUFFICES ASSUME RowsInit PROVE HomeInv /\ Accounted
    OBVIOUS
  <2>1. items = <<>>
    BY DEF RowsInit
  <2>2. DOMAIN items = {}
    BY <2>1
  <2> QED BY <2>2, HomeBegins DEF Accounted, Accounts
<1>2. HomeInv /\ Accounted /\ [RowsNext]_rowVars => (HomeInv /\ Accounted)'
  BY HomeGoesOn, AccountsGoOn
<1>3. HomeInv /\ Accounted => NothingSkipped
  <2> SUFFICES ASSUME HomeInv, Accounted, NEW d \in Device, NEW u \in Uids, Live(u),
                      items[u].num <= cur[d][items[u].space]
               PROVE  \/ items[u].text \subseteq row[d].text
                      \/ tomb[d] # {}
                      \/ \E v \in Uids : items[v].gone /\ items[v].num > items[u].num
    BY DEF NothingSkipped
  <2>1. ~items[u].gone /\ AccountedFor(items, row[d], tomb[d], u)
    BY DEF Live, Accounted, Accounts, Uids
  <2> QED BY <2>1 DEF AccountedFor, Holding, QueuedSince, GoneSince, Uids
<1> QED BY <1>1, <1>2, <1>3, PTL DEF RowsSpec

-----------------------------------------------------------------------------
(***************************************************************************)
(* SentOnce.  As long as nothing was deleted there is one item, and before *)
(* it is there one device that can create it.  A device whose row has no   *)
(* item has not pulled the item there is (its cursor is behind it), and is *)
(* not between the pull of the space and the push to it (it is not ready). *)
(***************************************************************************)
(* A sync at a, where o are the spaces it pulled: it sends only to those.  *)
OpenedAt(a, o) ==
  /\ \A t \in Home : a \in {<<"drain", t>>, <<"fetch", t>>} => t \in o
  /\ \A t \in Home : a = <<"pull", t>> => "share" \notin o

ReadyAt(a, o, s) ==
  /\ s \in o
  /\ \/ a \in {<<"settle", "all">>, <<"drain", "vault">>, <<"drain", "share">>, <<"fetch", s>>}
     \/ s = "vault" /\ a \in {<<"pull", "share">>, <<"fetch", "share">>, <<"tail", "share">>}

Opened(sy) == OpenedAt(sy.at, sy.open)
Ready(sy, s) == ReadyAt(sy.at, sy.open, s)

Quiet(a) == a \in {Finish, <<"idle", "all">>} \/ \E t \in Home : a \in {<<"send", t>>, <<"ack", t>>}

LEMMA QuietPlaces ==
  ASSUME NEW a, Quiet(a), NEW o, NEW s \in Home
  PROVE  OpenedAt(a, o) /\ ~ReadyAt(a, o, s)
  BY DEF Quiet, Finish, OpenedAt, ReadyAt, Home

LEMMA OpenPlaces ==
  ASSUME NEW o
  PROVE  /\ OpenedAt(ToVaultPush(o), o) /\ OpenedAt(ToDrainShare(o), o) /\ OpenedAt(ToDrains(o), o)
         /\ \A t \in Home : OpenedAt(AfterPush(t, o), o) /\ (t \in o => OpenedAt(AfterDrain(t, o), o))
         /\ OpenedAt(<<"settle", "all">>, o) /\ \A t \in Home : OpenedAt(<<"tail", t>>, o)
<1>1. OpenedAt(Finish, o) /\ "vault" \in Home /\ "share" \in Home
  BY QuietPlaces DEF Quiet, Home
<1>2. \A t \in Home : t \in o => OpenedAt(<<"fetch", t>>, o) /\ OpenedAt(<<"drain", t>>, o)
  BY DEF OpenedAt, Home
<1>3. OpenedAt(ToVaultPush(o), o)
  BY <1>1, <1>2 DEF ToVaultPush
<1>4. OpenedAt(ToDrainShare(o), o)
  BY <1>1, <1>2, <1>3 DEF ToDrainShare
<1>5. OpenedAt(ToDrains(o), o)
  BY <1>1, <1>2, <1>4 DEF ToDrains
<1>6. \A t \in Home : OpenedAt(AfterPush(t, o), o) /\ (t \in o => OpenedAt(AfterDrain(t, o), o))
  <2> SUFFICES ASSUME NEW t \in Home PROVE OpenedAt(AfterPush(t, o), o) /\ (t \in o => OpenedAt(AfterDrain(t, o), o))
    OBVIOUS
  <2>1. t = "vault" \/ t = "share"
    BY DEF Home
  <2>2. OpenedAt(AfterPush(t, o), o)
    BY <1>1, <1>3 DEF AfterPush
  <2>3. t \in o => OpenedAt(AfterDrain(t, o), o)
    BY <1>2, <1>4, <2>1 DEF AfterDrain
  <2> QED BY <2>2, <2>3
<1>7. OpenedAt(<<"settle", "all">>, o) /\ \A t \in Home : OpenedAt(<<"tail", t>>, o)
  BY DEF OpenedAt, Home
<1> QED BY <1>3, <1>4, <1>5, <1>6, <1>7

(* A sync that goes on from a to b where it pulls nothing becomes ready    *)
(* for nothing.                                                            *)
LEMMA TailPlaces ==
  ASSUME NEW o, NEW s \in Home, NEW t \in Home
  PROVE  /\ ReadyAt(<<"tail", t>>, o, s) => ReadyAt(<<"fetch", t>>, o, s)
         /\ ~ReadyAt(<<"tail", s>>, o, s)
  BY DEF ReadyAt, Home

LEMMA PushPlaces ==
  ASSUME NEW o, NEW s \in Home, NEW t \in Home
  PROVE  /\ ReadyAt(ToVaultPush(o), o, s) => s = "vault" /\ s \in o
         /\ ReadyAt(AfterPush(t, o), o, s) => ReadyAt(<<"tail", t>>, o, s)
         /\ ~ReadyAt(AfterPush(s, o), o, s)
<1>1. s \in {"vault", "share"} /\ t \in {"vault", "share"}
  BY DEF Home
<1>2. ~ReadyAt(Finish, o, s)
  BY QuietPlaces DEF Quiet
<1>3. ReadyAt(ToVaultPush(o), o, s) => s = "vault" /\ s \in o
  BY <1>1, <1>2 DEF ToVaultPush, ReadyAt
<1>4. s \in o /\ s = "vault" => ReadyAt(<<"tail", "share">>, o, s)
  BY DEF ReadyAt
<1> QED BY <1>1, <1>2, <1>3, <1>4 DEF AfterPush

LEMMA ReadyPlaces ==
  ASSUME NEW o, NEW s \in Home, NEW t \in Home
  PROVE  /\ ReadyAt(ToDrains(o), o, s) => ReadyAt(<<"settle", "all">>, o, s)
         /\ ReadyAt(AfterDrain(t, o), o, s) => ReadyAt(<<"drain", t>>, o, s)
<1>1. t \in {"vault", "share"}
  BY DEF Home
<1> QED BY <1>1 DEF ReadyAt

LEMMA PulledPlaces ==
  ASSUME NEW o, NEW s \in Home, "share" \notin o, ReadyAt(<<"settle", "all">>, o, s)
  PROVE  ReadyAt(<<"pull", "share">>, o, s)
  BY DEF ReadyAt, Home

(* What a step makes of where the sync is.                                 *)
ReadyKeeps(d, s) ==
  Opened(sync'[d]) /\ (Ready(sync'[d], s) => Ready(sync[d], s) \/ Pull(d, s))

LEMMA QuietKeeps ==
  ASSUME NEW s \in Home, NEW d \in Device, Quiet(sync'[d].at)
  PROVE  ReadyKeeps(d, s)
  BY QuietPlaces DEF ReadyKeeps, Opened, Ready

LEMMA PlaceKeeps ==
  ASSUME NEW s \in Home, NEW d \in Device, sync'[d].open = sync[d].open, Opened(sync'[d]),
         Ready(sync'[d], s) => ReadyAt(sync[d].at, sync[d].open, s)
  PROVE  ReadyKeeps(d, s)
  BY DEF ReadyKeeps, Ready

LEMMA GoesTo ==
  ASSUME RowsInv, NEW d \in Device, NEW a, sync' = [sync EXCEPT ![d].at = a]
  PROVE  sync'[d].at = a /\ sync'[d].open = sync[d].open
<1>1. sync' = [sync EXCEPT ![d] = [sync[d] EXCEPT !.at = a]]
  BY Before
<1>2. PICK sy : sy = [sync[d] EXCEPT !.at = a]
  OBVIOUS
<1>3. sy.at = a /\ sy.open = sync[d].open
  BY <1>2, Before DEF SyncState
<1> QED BY <1>1, <1>2, <1>3, Before

LEMMA FailureGoesTo ==
  ASSUME RowsInv, NEW d \in Device, NEW t \in Home, sync' = [sync EXCEPT ![d] = AfterFailure(d, t)]
  PROVE  \/ Quiet(sync'[d].at)
         \/ /\ t = "share" /\ sync'[d].open = sync[d].open
            /\ sync'[d].at = IF At(d, "drain", t) THEN AfterDrain(t, sync[d].open) ELSE AfterPush(t, sync[d].open)
<1>1. CASE t = "vault"
  <2>1. sync'[d] = NoSync
    BY <1>1, Before DEF AfterFailure
  <2>2. sync'[d].at = <<"idle", "all">>
    BY <2>1 DEF NoSync
  <2> QED BY <2>2 DEF Quiet
<1>2. CASE t # "vault"
  <2>1. PICK a : a = IF At(d, "drain", t) THEN AfterDrain(t, sync[d].open) ELSE AfterPush(t, sync[d].open)
    OBVIOUS
  <2>2. PICK sy : sy = [sync[d] EXCEPT !.at = a, !.push = NoPush]
    OBVIOUS
  <2>3. sy.at = a /\ sy.open = sync[d].open
    BY <2>2, Before DEF SyncState
  <2>4. sync'[d] = sy
    BY <1>2, <2>1, <2>2, Before DEF AfterFailure
  <2> QED BY <1>2, <2>1, <2>3, <2>4 DEF Home
<1> QED BY <1>1, <1>2

(* A Fetch of a changed row makes its push and goes on to the Send.        *)
LEMMA FetchIs ==
  ASSUME RowsInv, NEW d \in Device, NEW t \in Home, Fetch(d, t), row[d].dirty, row[d].home = t
  PROVE  \E p : /\ p.uid = row[d].uid
                /\ sync' = [sync EXCEPT ![d] = [sync[d] EXCEPT !.at = <<"send", t>>, !.push = p]]
<1>1. PICK p : p = [prev |-> row[d].uid, uid |-> row[d].uid, text |-> row[d].text, rev |-> row[d].rev,
                    base |-> IF row[d].uid = 0 THEN 0 ELSE items[row[d].uid].num]
  OBVIOUS
<1>2. sync' = [sync EXCEPT ![d].at = <<"send", t>>, ![d].push = p]
  BY <1>1 DEF Fetch
<1>3. DOMAIN sync = Device
  BY Before
<1>4. sync' = [sync EXCEPT ![d] = [sync[d] EXCEPT !.at = <<"send", t>>, !.push = p]]
  BY <1>2, <1>3
<1> QED BY <1>1, <1>4

LEMMA ReadyStep ==
  ASSUME StayPut, HomeInv, NEW s, AtHome(s), NEW d \in Device, Opened(sync[d]), User(d) \/ Sync(d) \/ Trouble(d)
  PROVE  ReadyKeeps(d, s)
<1>1. /\ RowsInv /\ CursorInv /\ s \in Home /\ ~closed
      /\ "vault" \in Home /\ "share" \in Home /\ \A t \in Home : t = "vault" \/ t = "share"
  BY DEF HomeInv, AtHome, Home
<1>2. \A t \in Home : sync[d].at \in {<<"send", t>>, <<"ack", t>>} => t = s
  BY DEF AtHome, StaysAt
<1>3. CASE User(d)
  <2>1. sync' = sync
    BY <1>3 DEF User, Create, Move, Edit, Delete, StopSharing
  <2> QED BY <2>1 DEF ReadyKeeps
<1>4. CASE List(d)
  <2> DEFINE visit == Named(d, "vault") \/ LocalWork(d, "vault")
  <2>1. PICK a, o : a = <<"pull", IF visit THEN "vault" ELSE "share">> /\ o = IF visit THEN {"vault"} ELSE {}
    OBVIOUS
  <2>2. PICK sy : sy = [NoSync EXCEPT !.at = a, !.open = o, !.stoken = newest,
                        !.share = IF ~Named(d, "share") THEN "unnamed" ELSE IF closed THEN "gone" ELSE "changed"]
    OBVIOUS
  <2>3. sync'[d] = sy
    BY <1>1, <1>4, <2>1, <2>2, Before DEF List
  <2>4. sy.at = a /\ sy.open = o
    BY <2>2 DEF NoSync
  <2> HIDE DEF visit
  <2>5. OpenedAt(a, o) /\ ~ReadyAt(a, o, s)
    BY <1>1, <2>1 DEF OpenedAt, ReadyAt
  <2> QED BY <2>3, <2>4, <2>5 DEF ReadyKeeps, Opened, Ready
<1>5. CASE PullNothing(d)
  <2>1. PICK c : sync'[d] = [sync[d] EXCEPT !.at = <<"settle", "all">>, !.complete = c]
    BY <1>1, <1>5, Before DEF PullNothing
  <2>2. PICK sy : sy = [sync[d] EXCEPT !.at = <<"settle", "all">>, !.complete = c]
    OBVIOUS
  <2>3. sy.at = <<"settle", "all">> /\ sy.open = sync[d].open
    BY <1>1, <2>2, Before DEF SyncState
  <2>4. sync[d].at = <<"pull", "share">> /\ "share" \notin sync[d].open
    BY <1>1, <1>5 DEF PullNothing, At, Opened, OpenedAt
  <2>5. Opened(sync'[d]) /\ sync'[d].open = sync[d].open
    BY <2>1, <2>2, <2>3, <1>1, OpenPlaces DEF Opened
  <2>6. Ready(sync'[d], s) => ReadyAt(<<"pull", "share">>, sync[d].open, s)
    BY <1>1, <2>1, <2>2, <2>3, <2>4, PulledPlaces DEF Ready
  <2> QED BY <1>1, <2>4, <2>5, <2>6, PlaceKeeps
<1>6. CASE Settle(d)
  <2>1. sync' = [sync EXCEPT ![d] = SettleDone(d)] /\ sync[d].at = <<"settle", "all">>
    BY <1>1, <1>6, SettleIs DEF Settle, At
  <2>2. SettleDone(d).at = ToDrains(sync[d].open) /\ SettleDone(d).open = sync[d].open
    BY <1>1, Before DEF SettleDone, SyncState
  <2>3. sync'[d] = SettleDone(d)
    BY <1>1, <2>1, Before
  <2> QED BY <1>1, <2>1, <2>2, <2>3, OpenPlaces, ReadyPlaces DEF ReadyKeeps, Opened, Ready
<1>7. CASE End(d) \/ Restart(d)
  <2>1. sync'[d] = NoSync
    BY <1>1, <1>7, Before DEF End, Restart
  <2>2. Quiet(sync'[d].at)
    BY <2>1 DEF NoSync, Quiet
  <2> QED BY <1>1, <2>2, QuietKeeps
<1>8. CASE ClosedPush(d)
  BY <1>1, <1>8 DEF ClosedPush
<1>9. CASE VaultFull(d)
  <2>1. PICK sy : sy = [sync[d] EXCEPT !.at = Finish, !.push = NoPush]
    OBVIOUS
  <2>2. sy.at = Finish
    BY <1>1, <2>1, Before DEF SyncState
  <2>3. sync'[d] = sy
    BY <1>1, <1>9, <2>1, Before DEF VaultFull
  <2> QED BY <1>1, <2>2, <2>3, QuietKeeps DEF Quiet
<1>10. ASSUME NEW t \in Home, Pull(d, t) PROVE ReadyKeeps(d, s)
  <2>1. sync' = [sync EXCEPT ![d] = PullDone(d, t)] /\ sync[d].at = <<"pull", t>>
    BY <1>10, PullIs DEF Pull, At
  <2>2. /\ PullDone(d, t).at = IF t = "vault" THEN <<"pull", "share">> ELSE <<"settle", "all">>
        /\ PullDone(d, t).open = sync[d].open \cup {t}
    BY <1>1, Before DEF PullDone, SyncState
  <2>3. sync'[d] = PullDone(d, t)
    BY <1>1, <2>1, Before
  <2>4. "share" \notin sync[d].open
    BY <2>1 DEF Opened, OpenedAt
  <2>5. CASE t = "vault"
    <3>1. sync'[d].at = <<"pull", "share">> /\ sync'[d].open = sync[d].open \cup {t}
      BY <2>2, <2>3, <2>5
    <3>2. OpenedAt(<<"pull", "share">>, sync[d].open \cup {t})
      BY <1>1, <2>4, <2>5 DEF OpenedAt
    <3>3. t # s => ~ReadyAt(<<"pull", "share">>, sync[d].open \cup {t}, s)
      BY <1>1, <2>5 DEF ReadyAt
    <3> QED BY <1>10, <3>1, <3>2, <3>3 DEF ReadyKeeps, Opened, Ready
  <2>6. CASE t # "vault"
    <3>1. sync'[d].at = <<"settle", "all">> /\ sync'[d].open = sync[d].open \cup {t}
      BY <2>2, <2>3, <2>6
    <3>2. t = "share" /\ (t # s => s = "vault")
      BY <1>1, <2>6
    <3>3. t # s /\ ReadyAt(<<"settle", "all">>, sync[d].open \cup {t}, s) => ReadyAt(<<"pull", "share">>, sync[d].open, s)
      BY <3>2 DEF ReadyAt
    <3> QED BY <1>10, <2>1, <3>1, <3>2, <3>3, OpenPlaces DEF ReadyKeeps, Opened, Ready
  <2> QED BY <2>5, <2>6
<1>11. ASSUME NEW t \in Home, Drain(d, t) PROVE ReadyKeeps(d, s)
  <2>1. PICK a : a = IF At(d, "drain", t) THEN AfterDrain(t, sync[d].open) ELSE AfterPush(t, sync[d].open)
    OBVIOUS
  <2>2. sync'[d].at = a /\ sync'[d].open = sync[d].open
    BY <1>1, <1>11, <2>1, GoesTo DEF Drain
  <2>3. CASE sync[d].at = <<"drain", t>>
    <3>1. a = AfterDrain(t, sync[d].open) /\ t \in sync[d].open
      BY <2>1, <2>3 DEF At, Opened, OpenedAt
    <3> QED BY <1>1, <2>2, <2>3, <3>1, OpenPlaces, ReadyPlaces DEF ReadyKeeps, Opened, Ready
  <2>4. CASE sync[d].at = <<"tail", t>>
    <3>1. a = AfterPush(t, sync[d].open)
      BY <2>1, <2>4 DEF At
    <3>2. Opened(sync'[d])
      BY <2>2, <3>1, OpenPlaces DEF Opened
    <3>3. Ready(sync'[d], s) => ReadyAt(<<"tail", t>>, sync[d].open, s)
      BY <1>1, <2>2, <3>1, PushPlaces DEF Ready
    <3> QED BY <1>1, <2>2, <2>4, <3>2, <3>3, PlaceKeeps
  <2> QED BY <1>11, <2>3, <2>4 DEF Drain, At
<1>12. ASSUME NEW t \in Home, Fetch(d, t) PROVE ReadyKeeps(d, s)
  <2>1. sync[d].at = <<"fetch", t>>
    BY <1>12 DEF Fetch, At
  <2>2. CASE row[d].dirty /\ row[d].home = t
    <3>1. PICK p : /\ p.uid = row[d].uid
                   /\ sync' = [sync EXCEPT ![d] = [sync[d] EXCEPT !.at = <<"send", t>>, !.push = p]]
      BY <1>1, <1>12, <2>2, FetchIs
    <3>2. PICK sy : sy = [sync[d] EXCEPT !.at = <<"send", t>>, !.push = p]
      OBVIOUS
    <3>3. sy.at = <<"send", t>>
      BY <1>1, <3>2, Before DEF SyncState
    <3>4. sync'[d] = sy
      BY <1>1, <3>1, <3>2, Before
    <3> QED BY <1>1, <3>3, <3>4, QuietKeeps DEF Quiet
  <2>3. CASE ~(row[d].dirty /\ row[d].home = t)
    <3>1. sync'[d].at = <<"tail", t>> /\ sync'[d].open = sync[d].open
      BY <1>1, <1>12, <2>3, GoesTo DEF Fetch
    <3>2. Opened(sync'[d])
      BY <3>1, OpenPlaces DEF Opened
    <3>3. Ready(sync'[d], s) => ReadyAt(<<"fetch", t>>, sync[d].open, s)
      BY <1>1, <3>1, TailPlaces DEF Ready
    <3> QED BY <1>1, <2>1, <3>1, <3>2, <3>3, PlaceKeeps
  <2> QED BY <2>2, <2>3
<1>13. ASSUME NEW t \in Home, Send(d, t) \/ Conflict(d, t) PROVE ReadyKeeps(d, s)
  <2>1. PICK sy : sync' = [sync EXCEPT ![d] = sy] /\ sy.at \in {<<"send", t>>, <<"ack", t>>}
    <3>1. CASE Send(d, t)
      <4>1. PICK u : sync' = [sync EXCEPT ![d] = [sync[d] EXCEPT !.at = <<"ack", t>>, !.push.uid = u]]
        BY <1>1, <3>1, Before DEF Send
      <4>2. [sync[d] EXCEPT !.at = <<"ack", t>>, !.push.uid = u].at = <<"ack", t>>
        BY <1>1, Before DEF SyncState
      <4> QED BY <4>1, <4>2
    <3>2. CASE Conflict(d, t)
      <4>1. PICK b, x : sync' = [sync EXCEPT ![d] = [sync[d] EXCEPT !.push.base = b, !.push.text = x]]
        BY <1>1, <3>2, Before DEF Conflict
      <4>2. [sync[d] EXCEPT !.push.base = b, !.push.text = x].at = sync[d].at
        BY <1>1, Before DEF SyncState
      <4> QED BY <3>2, <4>1, <4>2 DEF Conflict, At
    <3> QED BY <1>13, <3>1, <3>2
  <2>2. sync'[d] = sy
    BY <1>1, <2>1, Before
  <2>3. Quiet(sync'[d].at)
    BY <2>1, <2>2 DEF Quiet
  <2> QED BY <1>1, <2>3, QuietKeeps
<1>14. ASSUME NEW t \in Home, Ack(d, t) PROVE ReadyKeeps(d, s)
  <2>1. PICK sy : sy = [sync[d] EXCEPT !.at = <<"tail", t>>, !.push = NoPush]
    OBVIOUS
  <2>2. sy.at = <<"tail", t>> /\ sy.open = sync[d].open
    BY <1>1, <2>1, Before DEF SyncState
  <2>3. sync'[d] = sy
    BY <1>1, <1>14, <2>1, Before DEF Ack
  <2>4. t = s
    BY <1>2, <1>14 DEF Ack, At
  <2>5. Opened(sync'[d])
    BY <1>1, <2>2, <2>3, OpenPlaces DEF Opened
  <2>6. ~Ready(sync'[d], s)
    BY <1>1, <2>2, <2>3, <2>4, TailPlaces DEF Ready
  <2> QED BY <2>5, <2>6 DEF ReadyKeeps
<1>15. ASSUME NEW t \in Home, FailedPull(d, t) PROVE ReadyKeeps(d, s)
  <2>1. CASE t = "vault"
    <3>1. sync'[d] = NoSync
      BY <1>1, <1>15, <2>1, Before DEF FailedPull
    <3>2. Quiet(sync'[d].at)
      BY <3>1 DEF NoSync, Quiet
    <3> QED BY <1>1, <3>2, QuietKeeps
  <2>2. CASE t # "vault"
    <3>1. PICK sy : sy = [sync[d] EXCEPT !.at = <<"settle", "all">>, !.complete = FALSE]
      OBVIOUS
    <3>2. sy.at = <<"settle", "all">> /\ sy.open = sync[d].open
      BY <1>1, <3>1, Before DEF SyncState
    <3>3. sync'[d] = sy
      BY <1>1, <1>15, <2>2, <3>1, Before DEF FailedPull
    <3>4. sync[d].at = <<"pull", "share">> /\ "share" \notin sync[d].open
      BY <1>1, <1>15, <2>2 DEF FailedPull, At, Opened, OpenedAt
    <3>5. Opened(sync'[d]) /\ sync'[d].open = sync[d].open
      BY <1>1, <3>2, <3>3, OpenPlaces DEF Opened
    <3>6. Ready(sync'[d], s) => ReadyAt(<<"pull", "share">>, sync[d].open, s)
      BY <1>1, <3>2, <3>3, <3>4, PulledPlaces DEF Ready
    <3> QED BY <1>1, <3>4, <3>5, <3>6, PlaceKeeps
  <2> QED BY <2>1, <2>2
<1>16. ASSUME NEW t \in Home, FailedDrain(d, t) \/ FailedPush(d, t) PROVE ReadyKeeps(d, s)
  <2>1. \/ Quiet(sync'[d].at)
        \/ /\ t = "share" /\ sync'[d].open = sync[d].open
           /\ sync'[d].at = IF At(d, "drain", t) THEN AfterDrain(t, sync[d].open) ELSE AfterPush(t, sync[d].open)
    BY <1>1, <1>16, FailureGoesTo DEF FailedDrain, FailedPush
  <2>2. CASE Quiet(sync'[d].at)
    BY <1>1, <2>2, QuietKeeps
  <2>3. CASE ~Quiet(sync'[d].at) /\ sync[d].at = <<"drain", t>>
    <3>1. sync'[d].at = AfterDrain(t, sync[d].open) /\ t \in sync[d].open /\ sync'[d].open = sync[d].open
      BY <2>1, <2>3 DEF At, Opened, OpenedAt
    <3> QED BY <1>1, <2>3, <3>1, OpenPlaces, ReadyPlaces DEF ReadyKeeps, Opened, Ready
  <2>4. CASE ~Quiet(sync'[d].at) /\ sync[d].at # <<"drain", t>>
    <3>1. sync'[d].at = AfterPush(t, sync[d].open) /\ sync'[d].open = sync[d].open
      BY <2>1, <2>4 DEF At
    <3>2. t = s \/ sync[d].at = <<"tail", t>>
      BY <1>2, <1>16, <2>4 DEF FailedDrain, FailedPush, At
    <3>3. Opened(sync'[d])
      BY <3>1, OpenPlaces DEF Opened
    <3>4. Ready(sync'[d], s) => ReadyAt(sync[d].at, sync[d].open, s)
      <4>1. Ready(sync'[d], s) => ReadyAt(AfterPush(t, sync[d].open), sync[d].open, s)
        BY ONLY <3>1 DEF Ready
      <4>2. s \in Home
        BY <1>1
      <4>3. /\ ReadyAt(AfterPush(t, sync[d].open), sync[d].open, s) => ReadyAt(<<"tail", t>>, sync[d].open, s)
            /\ ~ReadyAt(AfterPush(s, sync[d].open), sync[d].open, s)
        BY ONLY <4>2, t \in Home, PushPlaces
      <4> QED BY ONLY <3>2, <4>1, <4>3
    <3> QED BY <1>1, <3>1, <3>3, <3>4, PlaceKeeps
  <2> QED BY <2>2, <2>3, <2>4
<1>17. CASE Sync(d)
  BY <1>4, <1>5, <1>6, <1>7, <1>8, <1>10, <1>11, <1>12, <1>13, <1>14, <1>17 DEF Sync
<1>18. CASE Trouble(d)
  BY <1>7, <1>9, <1>15, <1>16, <1>18 DEF Trouble
<1> QED BY <1>3, <1>17, <1>18

(* A sync begins to send where it fetched a row that was not sent.         *)
LEMMA SendingComes ==
  ASSUME HomeInv, NEW s, AtHome(s), NEW d \in Device, Sync(d) \/ Trouble(d),
         NEW t \in Home, sync'[d].at = <<"send", t>>
  PROVE  (Fetch(d, t) /\ row[d].dirty /\ row[d].home = t) \/ Conflict(d, t)
<1>1. RowsInv /\ CursorInv /\ "vault" \in Home /\ "share" \in Home
  BY DEF HomeInv, Home
<1> SUFFICES ASSUME NotSending(sync'[d].at) \/ (\E u : sync'[d].at = <<"ack", u>>) PROVE FALSE
  <2>1. CASE List(d)
    <3> DEFINE visit == Named(d, "vault") \/ LocalWork(d, "vault")
    <3>1. PICK a : a = <<"pull", IF visit THEN "vault" ELSE "share">>
      OBVIOUS
    <3>2. PICK sy : sy = [NoSync EXCEPT !.at = a, !.open = IF visit THEN {"vault"} ELSE {}, !.stoken = newest,
                          !.share = IF ~Named(d, "share") THEN "unnamed" ELSE IF closed THEN "gone" ELSE "changed"]
      OBVIOUS
    <3>3. sync'[d] = sy
      BY <1>1, <2>1, <3>1, <3>2, Before DEF List
    <3>4. sy.at = a
      BY <3>2 DEF NoSync
    <3> HIDE DEF visit
    <3>5. NotSending(a)
      BY <1>1, <3>1, NextPlaces
    <3> QED BY <3>3, <3>4, <3>5
  <2>2. CASE PullNothing(d)
    <3>1. PICK c : sync'[d] = [sync[d] EXCEPT !.at = <<"settle", "all">>, !.complete = c]
      BY <1>1, <2>2, Before DEF PullNothing
    <3>2. sync'[d].at = <<"settle", "all">>
      BY <1>1, <3>1, Before DEF SyncState
    <3> QED BY <1>1, <3>2, NextPlaces
  <2>3. CASE Settle(d)
    <3>1. sync'[d] = SettleDone(d)
      BY <1>1, <2>3, SettleIs, Before
    <3>2. sync'[d].at = ToDrains(sync[d].open)
      BY <1>1, <3>1, Before DEF SettleDone, SyncState
    <3> QED BY <1>1, <3>2, NextPlaces
  <2>4. CASE End(d) \/ Restart(d)
    <3>1. sync'[d] = NoSync
      BY <1>1, <2>4, Before DEF End, Restart
    <3> QED BY <3>1 DEF NoSync
  <2>5. CASE ClosedPush(d)
    BY <2>5 DEF ClosedPush, AtHome
  <2>6. CASE VaultFull(d)
    <3>1. sync'[d] = [sync[d] EXCEPT !.at = Finish, !.push = NoPush]
      BY <1>1, <2>6, Before DEF VaultFull
    <3>2. sync'[d].at = Finish
      BY <1>1, <3>1, Before DEF SyncState
    <3> QED BY <1>1, <3>2, NextPlaces
  <2>7. ASSUME NEW u \in Home, Pull(d, u) PROVE NotSending(sync'[d].at)
    <3>1. sync'[d] = PullDone(d, u)
      BY <1>1, <2>7, PullIs, Before
    <3>2. sync'[d].at \in {<<"pull", "share">>, <<"settle", "all">>}
      BY <1>1, <3>1, Before DEF PullDone, SyncState
    <3> QED BY <1>1, <3>2, NextPlaces
  <2>8. ASSUME NEW u \in Home, FailedPull(d, u) PROVE sync'[d] = NoSync \/ NotSending(sync'[d].at)
    <3>1. sync'[d] = NoSync \/ sync'[d] = [sync[d] EXCEPT !.at = <<"settle", "all">>, !.complete = FALSE]
      BY <1>1, <2>8, Before DEF FailedPull
    <3>2. [sync[d] EXCEPT !.at = <<"settle", "all">>, !.complete = FALSE].at = <<"settle", "all">>
      BY <1>1, Before DEF SyncState
    <3> QED BY <1>1, <3>1, <3>2, NextPlaces
  <2>9. ASSUME NEW u \in Home, Drain(d, u) PROVE NotSending(sync'[d].at)
    <3>1. PICK a : a = IF At(d, "drain", u) THEN AfterDrain(u, sync[d].open) ELSE AfterPush(u, sync[d].open)
      OBVIOUS
    <3>2. sync'[d].at = a
      BY <1>1, <2>9, <3>1, GoesTo DEF Drain
    <3> QED BY <3>1, <3>2, NextPlaces
  <2>10. ASSUME NEW u \in Home, FailedDrain(d, u) \/ FailedPush(d, u)
         PROVE  sync'[d] = NoSync \/ NotSending(sync'[d].at)
    <3>1. sync'[d] = AfterFailure(d, u)
      BY <1>1, <2>10, Before DEF FailedDrain, FailedPush
    <3>2. PICK a : a = IF At(d, "drain", u) THEN AfterDrain(u, sync[d].open) ELSE AfterPush(u, sync[d].open)
      OBVIOUS
    <3>3. sync'[d] = NoSync \/ sync'[d] = [sync[d] EXCEPT !.at = a, !.push = NoPush]
      BY <3>1, <3>2 DEF AfterFailure
    <3>4. [sync[d] EXCEPT !.at = a, !.push = NoPush].at = a
      BY <1>1, Before DEF SyncState
    <3>5. NotSending(a)
      BY <3>2, NextPlaces
    <3> QED BY <3>3, <3>4, <3>5
  <2>11. ASSUME NEW u \in Home, Ack(d, u) PROVE NotSending(sync'[d].at)
    <3>1. sync'[d] = [sync[d] EXCEPT !.at = <<"tail", u>>, !.push = NoPush]
      BY <1>1, <2>11, Before DEF Ack
    <3>2. sync'[d].at = <<"tail", u>>
      BY <1>1, <3>1, Before DEF SyncState
    <3> QED BY <3>2, NextPlaces
  <2>12. ASSUME NEW u \in Home, Send(d, u) PROVE \E v : sync'[d].at = <<"ack", v>>
    <3>1. PICK n : sync'[d] = [sync[d] EXCEPT !.at = <<"ack", u>>, !.push.uid = n]
      BY <1>1, <2>12, Before DEF Send
    <3>2. sync'[d].at = <<"ack", u>>
      BY <1>1, <3>1, Before DEF SyncState
    <3> QED BY <3>2
  <2>13. ASSUME NEW u \in Home, Fetch(d, u)
         PROVE  NotSending(sync'[d].at) \/ (row[d].dirty /\ row[d].home = u /\ sync'[d].at = <<"send", u>>)
    <3>1. CASE row[d].dirty /\ row[d].home = u
      <4>1. PICK p : /\ p.uid = row[d].uid
                     /\ sync' = [sync EXCEPT ![d] = [sync[d] EXCEPT !.at = <<"send", u>>, !.push = p]]
        BY <1>1, <2>13, <3>1, FetchIs
      <4>2. sync'[d].at = <<"send", u>>
        BY <1>1, <4>1, Before DEF SyncState
      <4> QED BY <3>1, <4>2
    <3>2. CASE ~(row[d].dirty /\ row[d].home = u)
      <4>1. sync'[d].at = <<"tail", u>>
        BY <1>1, <2>13, <3>2, GoesTo DEF Fetch
      <4> QED BY <4>1, NextPlaces
    <3> QED BY <3>1, <3>2
  <2>14. ASSUME NEW u \in Home, Conflict(d, u) PROVE sync'[d].at = <<"send", u>>
    <3>1. PICK b, x : sync'[d] = [sync[d] EXCEPT !.push.base = b, !.push.text = x]
      BY <1>1, <2>14, Before DEF Conflict
    <3>2. sync'[d].at = sync[d].at
      BY <1>1, <3>1, Before DEF SyncState
    <3> QED BY <2>14, <3>2 DEF Conflict, At
  <2>15. NoSync.at # <<"send", t>>
    BY DEF NoSync
  <2>16. \A u \in Home : <<"send", u>> = <<"send", t>> => u = t
    OBVIOUS
  <2>17. CASE Sync(d)
    BY <2>1, <2>2, <2>3, <2>4, <2>5, <2>7, <2>9, <2>11, <2>12, <2>13, <2>14, <2>16, <2>17 DEF Sync
  <2>18. CASE Trouble(d)
    BY <2>4, <2>6, <2>8, <2>10, <2>15, <2>18 DEF Trouble
  <2> QED BY <2>17, <2>18
<1> QED BY DEF NotSending

-----------------------------------------------------------------------------
NoneGone(it) == \A u \in DOMAIN it : ~it[u].gone

(* A device that has the note, or is about to create its item.             *)
Holds(r, sy) == r # NoRow \/ \E t \in Home : sy.at = <<"send", t>>

(* A device where the note's one item cannot be created a second time.     *)
Knows(s, it, r, c, sy) ==
  /\ sy.at = <<"send", s>> => sy.push.uid # 0
  /\ r # NoRow /\ r.uid = 0 => c[s] < it[1].num /\ ~Ready(sy, s)

OneHolds == \A d, e \in Device : Holds(row[d], sync[d]) /\ Holds(row[e], sync[e]) => d = e
AllKnow(s) == \A d \in Device : Knows(s, items, row[d], cur[d], sync[d])

OneItem(s) ==
  NoneGone(items) => (DOMAIN items = {} /\ OneHolds) \/ (DOMAIN items = {1} /\ AllKnow(s))

SentInv == (\A d \in Device : Opened(sync[d])) /\ \E s \in Home : AtHome(s) /\ OneItem(s)

(* Pulling items that are not deleted gives the row the last one's item.   *)
LEMMA LivePull ==
  ASSUME HomeInv, NEW s, AtHome(s), NEW d \in Device, NEW its \in Seq(PulledOf(items, s)),
         \A i \in 1 .. Len(its) : ~its[i].gone
  PROVE  its = <<>> \/ ApplyAll(d, s, its).row.uid # 0
<1>1. RowsInv /\ Len(its) \in Nat /\ \A i \in 1 .. Len(its) : its[i] \in PulledOf(items, s)
  BY DEF HomeInv
<1>2. CASE Len(its) = 0
  BY <1>2, EmptySeq
<1>3. CASE Len(its) # 0
  <2>1. PICK r \in [0 .. Len(its) -> Plain(s)] :
           /\ r[Len(its)] = ApplyAll(d, s, its)
           /\ \A n \in 1 .. Len(its) : r[n] = Applied(r[n - 1], its[n], s)
    BY <1>1, PlainRun
  <2>2. Len(its) \in 1 .. Len(its) /\ Len(its) - 1 \in 0 .. Len(its)
    BY <1>1, <1>3
  <2>3. PICK acc, p : acc = r[Len(its) - 1] /\ p = its[Len(its)]
    OBVIOUS
  <2>4. ApplyAll(d, s, its) = Applied(acc, p, s) /\ acc \in Plain(s) /\ p \in PulledOf(items, s) /\ ~p.gone
    BY <1>1, <2>1, <2>2, <2>3
  <2>5. /\ acc.row \in NoteRow /\ (acc.row = NoRow \/ acc.row.home = s)
        /\ acc = [row |-> acc.row, refused |-> acc.refused]
    BY <2>4 DEF Plain, Pulling
  <2>6. Applied(acc, p, s).row = Written(acc.row, p, s)
    <3>1. MayClaim(acc.row, s)
      BY <2>5 DEF MayClaim
    <3> QED BY <2>4, <2>5, <3>1 DEF Applied
  <2>7. Written(acc.row, p, s).uid = p.uid
    BY <2>5 DEF Written, NoteRow
  <2>8. p.uid # 0
    <3>1. p.uid \in DOMAIN items
      BY <2>4 DEF PulledOf, IsOf
    <3> QED BY <1>1, <3>1, ItemsAre DEF RowsInv
  <2> QED BY <2>4, <2>6, <2>7, <2>8
<1> QED BY <1>2, <1>3

(* What is pulled while nothing is deleted.                                *)
LEMMA LiveNews ==
  ASSUME HomeInv, NEW s, AtHome(s), NEW d \in Device, NoneGone(items)
  PROVE  /\ \A i \in 1 .. Len(News(d, s)) : ~News(d, s)[i].gone
         /\ News(d, s) = <<>> => \A u \in DOMAIN items : items[u].num <= cur[d][s]
<1>1. RowsInv /\ s \in Home /\ ~closed /\ cur[d][s] \in Nat /\ ServerTyped(items, newest)
  BY DEF HomeInv, AtHome, RowsInv, CursorInv, Sound
<1> DEFINE S == Changed(d, s)
           key == [u \in S |-> items[u].num]
<1>2. PICK q : /\ Ordered(q, key, S)
               /\ News(d, s) = [i \in 1 .. Cardinality(S) |->
                      [uid |-> q[i], gone |-> items[q[i]].gone, text |-> items[q[i]].text]]
  BY <1>1, NewsInOrder
<1>3. /\ IsFiniteSet(S) /\ Cardinality(S) \in Nat
      /\ \A u \in S : u \in DOMAIN items
  BY <1>1, ChangedAre
<1>4. \A u \in DOMAIN items : u \in S \/ ~(items[u].num > cur[d][s])
  BY DEF Changed, AtHome
<1>5. \A u \in DOMAIN items : items[u].num \in Nat
  BY <1>1, ItemsAre
<1> HIDE DEF S, key
<1>6. Len(News(d, s)) = Cardinality(S)
  BY <1>2, <1>3
<1>7. \A i \in 1 .. Cardinality(S) : q[i] \in S
  BY <1>2 DEF Ordered
<1>8. ASSUME NEW i \in 1 .. Len(News(d, s)) PROVE ~News(d, s)[i].gone
  <2>1. i \in 1 .. Cardinality(S) /\ q[i] \in DOMAIN items
    BY <1>3, <1>6, <1>7
  <2>2. News(d, s)[i].gone = items[q[i]].gone
    BY <1>2, <2>1
  <2> QED BY <2>1, <2>2 DEF NoneGone
<1>9. ASSUME News(d, s) = <<>> PROVE \A u \in DOMAIN items : items[u].num <= cur[d][s]
  <2>1. Cardinality(S) = 0
    BY <1>6, <1>9, EmptySeq
  <2>2. S = {}
    BY <1>3, <2>1, FS_EmptySet
  <2> QED BY <1>1, <1>4, <1>5, <2>2
<1> QED BY <1>8, <1>9

(* No step takes a row's item away while nothing is deleted, and a pull    *)
(* of the note's space gives it the item it has not seen.                  *)
LEMMA RowUnsent ==
  ASSUME HomeInv, NEW s, AtHome(s), NEW d \in Device, NoneGone(items),
         Edit(d) \/ Delete(d) \/ Sync(d) \/ Trouble(d), row'[d] # NoRow, row'[d].uid = 0
  PROVE  /\ row[d] # NoRow /\ row[d].uid = 0
         /\ Pull(d, s) => \A u \in DOMAIN items : items[u].num <= cur[d][s]
<1> DEFINE NoItemYet == row[d] # NoRow /\ row[d].uid = 0
           Late(t) == t = s => \A u \in DOMAIN items : items[u].num <= cur[d][s]
<1>1. RowsInv /\ CursorInv /\ s \in Home
  BY DEF HomeInv, AtHome
<1>2. row'[d] = row[d] => NoItemYet
  OBVIOUS
<1> HIDE DEF NoItemYet
<1>3. ASSUME NEW t \in Home, Pull(d, t) PROVE NoItemYet /\ Late(t)
  <2>1. /\ t # s => ApplyAll(d, t, News(d, t)).row = row[d]
        /\ row' = [row EXCEPT ![d] = ApplyAll(d, t, News(d, t)).row]
    BY <1>3, PullIs
  <2>2. row'[d] = ApplyAll(d, t, News(d, t)).row
    BY <1>1, <2>1, Before
  <2>3. CASE t # s
    BY <1>2, <2>1, <2>2, <2>3
  <2>4. CASE t = s
    <3>1. News(d, s) \in Seq(PulledOf(items, s))
      BY <1>1, Before, NewsAreOf
    <3>2. News(d, s) = <<>>
      BY <2>2, <2>4, <3>1, LiveNews, LivePull
    <3>3. ApplyAll(d, s, <<>>).row = row[d]
      <4>1. ApplyAll(d, s, <<>>) = [row |-> row[d], refused |-> <<>>]
        BY <1>1, EmptyPull
      <4> QED BY <4>1
    <3>4. Late(s)
      BY <3>2, LiveNews
    <3> QED BY <1>2, <2>2, <2>4, <3>2, <3>3, <3>4
  <2> QED BY <2>3, <2>4
<1>4. ASSUME NEW t \in Home, FailedPull(d, t) PROVE NoItemYet
  <2>1. PICK n \in 0 .. Len(News(d, t)) :
           /\ SubSeq(News(d, t), 1, n) \in Seq(PulledOf(items, t))
           /\ row' = [row EXCEPT ![d] = ApplyAll(d, t, SubSeq(News(d, t), 1, n)).row]
           /\ t # s \/ items = <<>> => n = 0 /\ row'[d] = row[d]
    BY <1>4, FailedPullIs
  <2>2. CASE t # s
    BY <1>2, <2>1, <2>2
  <2>3. CASE t = s
    <3>1. News(d, s) \in Seq(PulledOf(items, s)) /\ Len(News(d, s)) \in Nat
      BY <1>1, Before, NewsAreOf
    <3>2. PICK its \in Seq(PulledOf(items, s)) : its = SubSeq(News(d, s), 1, n)
      BY <2>1, <2>3
    <3>3. Len(its) = n /\ \A i \in 1 .. n : its[i] = News(d, s)[i]
      BY <2>3, <3>1, <3>2, SubSeqProperties
    <3>4. \A i \in 1 .. Len(its) : ~its[i].gone
      <4>1. \A i \in 1 .. Len(its) : i \in 1 .. Len(News(d, s))
        BY <2>3, <3>1, <3>3
      <4> QED BY <3>3, <4>1, LiveNews
    <3>5. row'[d] = ApplyAll(d, s, its).row
      BY <1>1, <2>1, <2>3, <3>2, Before
    <3>6. its = <<>>
      BY <3>4, <3>5, LivePull
    <3>7. ApplyAll(d, s, its).row = row[d]
      <4>1. ApplyAll(d, s, its) = [row |-> row[d], refused |-> <<>>]
        BY <1>1, <3>6, EmptyPull
      <4> QED BY <4>1
    <3> QED BY <1>2, <3>5, <3>7
  <2> QED BY <2>2, <2>3
<1>5. ASSUME NEW t \in Home, Ack(d, t) PROVE NoItemYet
  <2>1. CASE Receives(row[d], sync[d].push, t)
    <3>1. row'[d] = Receipt(row[d], sync[d].push)
      BY <1>1, <1>5, <2>1, Before DEF Ack
    <3>2. row'[d].uid = sync[d].push.uid
      BY <1>1, <3>1, Before DEF Receipt, NoteRow
    <3>3. sync[d].push.uid # 0
      <4>1. IsOf(items, sync[d].push.uid, t)
        BY <1>1, <1>5, Before DEF SyncFits, Ack, At
      <4> QED BY <1>1, <4>1, Before, ItemsAre DEF IsOf
    <3> QED BY <3>2, <3>3
  <2>2. CASE ~Receives(row[d], sync[d].push, t)
    BY <1>2, <1>5, <2>2 DEF Ack
  <2> QED BY <2>1, <2>2
<1>6. ASSUME Edit(d) \/ Delete(d) PROVE NoItemYet
  <2>1. CASE Edit(d)
    <3>1. row'[d].uid = row[d].uid /\ row[d] # NoRow
      BY <1>1, <2>1, Before DEF Edit, NoteRow
    <3> QED BY <3>1 DEF NoItemYet
  <2>2. CASE Delete(d)
    BY <1>1, <2>2, Before DEF Delete
  <2> QED BY <1>6, <2>1, <2>2
<1>7. ASSUME Settle(d) PROVE NoItemYet
  BY <1>1, <1>2, <1>7, SettleIs
<1>8. ASSUME List(d) \/ PullNothing(d) \/ ClosedPush(d) \/ End(d) \/ VaultFull(d) \/ Restart(d)
      PROVE  NoItemYet
  <2>1. row' = row
    BY <1>8 DEF List, PullNothing, ClosedPush, End, VaultFull, Restart, store
  <2> QED BY <1>2, <2>1
<1>9. ASSUME NEW t \in Home, \/ Drain(d, t) \/ Fetch(d, t) \/ Send(d, t) \/ Conflict(d, t)
                             \/ FailedDrain(d, t) \/ FailedPush(d, t)
      PROVE  NoItemYet
  <2>1. row' = row
    BY <1>9 DEF Drain, Fetch, Send, Conflict, FailedDrain, FailedPush, store
  <2> QED BY <1>2, <2>1
<1>10. NoItemYet
  <2>1. CASE Sync(d)
    BY <1>3, <1>5, <1>7, <1>8, <1>9, <2>1 DEF Sync
  <2>2. CASE Trouble(d)
    BY <1>4, <1>8, <1>9, <2>2 DEF Trouble
  <2> QED BY <1>6, <2>1, <2>2
<1>11. Pull(d, s) => Late(s)
  BY <1>1, <1>3
<1> QED BY <1>10, <1>11 DEF NoItemYet

(* Only a push adds items.                                                 *)
LEMMA ItemsAdded ==
  ASSUME StayPut, HomeInv, NEW d \in Device, User(d) \/ Sync(d) \/ Trouble(d)
  PROVE  DOMAIN items' = DOMAIN items \/ \E t \in Home : Send(d, t)
<1> SUFFICES ASSUME ~\E t \in Home : Send(d, t) PROVE DOMAIN items' = DOMAIN items
  OBVIOUS
<1>1. ASSUME NEW t \in Home, Drain(d, t) \/ FailedDrain(d, t) PROVE DOMAIN items' = DOMAIN items
  <2>1. ServerDeletes(d, t) \/ items' = items
    BY <1>1 DEF Drain, FailedDrain, server
  <2> QED BY <2>1 DEF ServerDeletes
<1>2. CASE List(d) \/ PullNothing(d) \/ Settle(d) \/ ClosedPush(d) \/ End(d) \/ VaultFull(d) \/ Restart(d)
  BY <1>2 DEF List, PullNothing, Settle, ClosedPush, End, VaultFull, Restart, server
<1>3. ASSUME NEW t \in Home, \/ Pull(d, t) \/ Fetch(d, t) \/ Conflict(d, t) \/ Ack(d, t)
                             \/ FailedPull(d, t) \/ FailedPush(d, t)
      PROVE  DOMAIN items' = DOMAIN items
  BY <1>3 DEF Pull, Fetch, Conflict, Ack, FailedPull, FailedPush, server
<1>4. CASE User(d)
  BY <1>4 DEF User, Create, Move, Edit, Delete, StopSharing, server
<1>5. CASE Sync(d)
  BY <1>1, <1>2, <1>3, <1>5 DEF Sync
<1>6. CASE Trouble(d)
  BY <1>1, <1>2, <1>3, <1>6 DEF Trouble
<1> QED BY <1>4, <1>5, <1>6

(* What a sync begins to send is the row's item, and where it was about to *)
(* send, it still sends the same.                                          *)
LEMMA SendsWhat ==
  ASSUME HomeInv, NEW s, AtHome(s), NEW d \in Device, Opened(sync[d]), Sync(d) \/ Trouble(d),
         NEW t \in Home, sync'[d].at = <<"send", t>>
  PROVE  \/ row[d] # NoRow /\ t = s /\ Ready(sync[d], s) /\ sync'[d].push.uid = row[d].uid
         \/ sync[d].at = <<"send", t>> /\ sync'[d].push.uid = sync[d].push.uid
<1>1. RowsInv
  BY DEF HomeInv
<1>2. CASE Fetch(d, t) /\ row[d].dirty /\ row[d].home = t
  <2>1. row[d] # NoRow /\ t = s
    BY <1>2, DirtyIsARow DEF AtHome, StaysAt
  <2>2. sync[d].at = <<"fetch", t>> /\ t \in sync[d].open
    BY <1>2 DEF Fetch, At, Opened, OpenedAt
  <2>3. Ready(sync[d], s)
    BY <2>1, <2>2 DEF Ready, ReadyAt
  <2>4. PICK p : /\ p.uid = row[d].uid
                 /\ sync' = [sync EXCEPT ![d] = [sync[d] EXCEPT !.at = <<"send", t>>, !.push = p]]
    BY <1>1, <1>2, FetchIs
  <2>5. PICK sy : sy = [sync[d] EXCEPT !.at = <<"send", t>>, !.push = p]
    OBVIOUS
  <2>6. sy.push = p
    BY <1>1, <2>5, Before DEF SyncState
  <2>7. sync'[d] = sy
    BY <1>1, <2>4, <2>5, Before
  <2> QED BY <2>1, <2>3, <2>4, <2>6, <2>7
<1>3. CASE Conflict(d, t)
  <2>1. PICK b, x : sync'[d] = [sync[d] EXCEPT !.push.base = b, !.push.text = x]
    BY <1>1, <1>3, Before DEF Conflict
  <2>2. PICK sy : sy = [sync[d] EXCEPT !.push.base = b, !.push.text = x]
    OBVIOUS
  <2>3. sy.push.uid = sync[d].push.uid
    BY <1>1, <2>2, Before DEF SyncState, PushedRow
  <2> QED BY <1>3, <2>1, <2>2, <2>3 DEF Conflict, At
<1> QED BY <1>2, <1>3, SendingComes

(* Sending creates an item or changes the one it is about.                 *)
LEMMA SendsItem ==
  ASSUME RowsInv, NEW d \in Device, NEW t \in Home, Send(d, t)
  PROVE  /\ sync[d].at = <<"send", t>> /\ sync'[d].at = <<"ack", t>> /\ row' = row /\ cur' = cur
         /\ sync[d].push.uid # 0 => sync[d].push.uid \in DOMAIN items /\ DOMAIN items' = DOMAIN items
         /\ sync[d].push.uid = 0 => /\ DOMAIN items' = DOMAIN items \cup {Len(items) + 1}
                                    /\ items'[Len(items) + 1].num = newest + 1
<1> DEFINE p == sync[d].push
           u == IF p.uid = 0 THEN Len(items) + 1 ELSE p.uid
           it == [space |-> t, gone |-> p.uid # 0 /\ items[u].gone, text |-> p.text, num |-> newest + 1]
<1>1. PutRow(u, it) /\ sync[d].at = <<"send", t>> /\ row' = row /\ cur' = cur
  BY DEF Send, At, store
<1>2. /\ newest \in Nat /\ Len(items) \in Nat /\ DOMAIN items = 1 .. Len(items) /\ items \in Seq(StoredItem)
  BY Before, ItemsAre DEF ServerTyped
<1>3. sync'[d].at = <<"ack", t>>
  <2>1. PICK n : sync' = [sync EXCEPT ![d] = [sync[d] EXCEPT !.at = <<"ack", t>>, !.push.uid = n]]
    BY Before DEF Send
  <2>2. PICK sy : sy = [sync[d] EXCEPT !.at = <<"ack", t>>, !.push.uid = n]
    OBVIOUS
  <2>3. sy.at = <<"ack", t>>
    BY <2>2, Before DEF SyncState
  <2>4. sync'[d] = sy
    BY <2>1, <2>2, Before
  <2> QED BY <2>3, <2>4
<1>4. p.uid = 0 \/ p.uid \in DOMAIN items
  BY <1>1, Before DEF SyncFits, IsOf
<1>5. it.num = newest + 1
  OBVIOUS
<1> HIDE DEF it
<1>6. CASE p.uid # 0
  <2>1. items' = [items EXCEPT ![u] = it]
    BY <1>1, <1>4, <1>6 DEF PutRow
  <2> QED BY <1>1, <1>3, <1>4, <1>6, <2>1
<1>7. CASE p.uid = 0
  <2>1. u = Len(items) + 1 /\ u \notin DOMAIN items
    BY <1>2, <1>7
  <2>2. items' = Append(items, it)
    BY <1>1, <2>1 DEF PutRow
  <2>3. DOMAIN items' = DOMAIN items \cup {Len(items) + 1} /\ items'[Len(items) + 1] = it
    BY <1>2, <2>2, Appended DEF Range
  <2> QED BY <1>1, <1>3, <1>5, <1>7, <2>3
<1> QED BY <1>6, <1>7

(* Before there is an item.                                                *)
LEMMA FirstItem ==
  ASSUME StayPut, HomeInv, NEW s, AtHome(s), \A d \in Device : Opened(sync[d]),
         DOMAIN items = {}, OneHolds, NoneGone(items),
         NEW d \in Device, Edit(d) \/ Delete(d) \/ Sync(d) \/ Trouble(d)
  PROVE  (DOMAIN items = {} /\ OneHolds)' \/ (DOMAIN items = {1} /\ AllKnow(s))'
<1>1. /\ RowsInv /\ CursorInv /\ CursorsBelow /\ s \in Home
      /\ User(d) \/ Sync(d) \/ Trouble(d)
  BY DEF HomeInv, AtHome, User
<1>2. Lands(d)
  BY <1>1, UserLands, SyncKeeps
<1>3. \A e \in Device \ {d} : row'[e] = row[e] /\ sync'[e] = sync[e]
  BY <1>2 DEF Lands
<1>4. ASSUME ~\E t \in Home : Send(d, t) PROVE DOMAIN items' = {} /\ OneHolds'
  <2>1. DOMAIN items' = {}
    BY <1>1, <1>4, ItemsAdded
  <2>2. row'[d] # NoRow => row[d] # NoRow
    <3>1. row'[d].uid = 0
      BY <1>2, <2>1 DEF Lands, RowFits, IsOf
    <3> QED BY <3>1, RowUnsent
  <2>3. ASSUME NEW t \in Home, sync'[d].at = <<"send", t>> PROVE Holds(row[d], sync[d])
    <3>1. CASE Edit(d) \/ Delete(d)
      <4>1. sync' = sync
        BY <3>1 DEF Edit, Delete
      <4> QED BY <2>3, <4>1 DEF Holds
    <3>2. CASE Sync(d) \/ Trouble(d)
      BY <2>3, <3>2, SendsWhat DEF Holds
    <3> QED BY <3>1, <3>2
  <2>4. \A e \in Device : Holds(row'[e], sync'[e]) => Holds(row[e], sync[e])
    BY <1>3, <2>2, <2>3 DEF Holds
  <2> QED BY <2>1, <2>4 DEF OneHolds
<1>5. ASSUME NEW t \in Home, Send(d, t) PROVE DOMAIN items' = {1} /\ AllKnow(s)'
  <2>1. /\ sync[d].at = <<"send", t>> /\ sync'[d].at = <<"ack", t>> /\ row' = row /\ cur' = cur
        /\ DOMAIN items' = DOMAIN items \cup {Len(items) + 1} /\ items'[Len(items) + 1].num = newest + 1
    BY <1>1, <1>5, SendsItem
  <2>2. Len(items) = 0
    <3>1. DOMAIN items = 1 .. Len(items) /\ Len(items) \in Nat
      BY <1>1, Before, ItemsAre
    <3> QED BY <3>1
  <2>3. DOMAIN items' = {1} /\ items'[1].num = newest + 1
    BY <2>1, <2>2
  <2>4. cur[d][s] < newest + 1
    <3>1. cur[d][s] \in Nat /\ newest \in Nat /\ cur[d][s] <= newest
      BY <1>1, Before DEF CursorsBelow, CursorInv, Sound
    <3> QED BY <3>1
  <2>5. ~Ready(sync'[d], s) /\ sync'[d].at # <<"send", s>>
    <3>1. Quiet(sync'[d].at)
      BY <2>1 DEF Quiet
    <3> QED BY <1>1, <2>1, <3>1, QuietPlaces DEF Ready
  <2>6. ASSUME NEW e \in Device PROVE Knows(s, items', row'[e], cur'[e], sync'[e])
    <3>1. CASE e = d
      BY <2>1, <2>3, <2>4, <2>5, <3>1 DEF Knows
    <3>2. CASE e # d
      <4>1. Holds(row[d], sync[d])
        BY <2>1 DEF Holds
      <4>2. ~Holds(row[e], sync[e])
        BY <3>2, <4>1 DEF OneHolds
      <4>3. row[e] = NoRow /\ sync[e].at # <<"send", s>>
        BY <1>1, <4>2 DEF Holds
      <4> QED BY <1>3, <3>2, <4>3 DEF Knows
    <3> QED BY <3>1, <3>2
  <2> QED BY <2>3, <2>6 DEF AllKnow
<1> QED BY <1>4, <1>5

(* Once there is one.                                                      *)
LEMMA OnlyItem ==
  ASSUME StayPut, HomeInv, NEW s, AtHome(s), \A d \in Device : Opened(sync[d]),
         DOMAIN items = {1}, AllKnow(s), NoneGone(items),
         NEW d \in Device, Edit(d) \/ Delete(d) \/ Sync(d) \/ Trouble(d)
  PROVE  (DOMAIN items = {1} /\ AllKnow(s))'
<1>1. /\ RowsInv /\ CursorInv /\ s \in Home
      /\ User(d) \/ Sync(d) \/ Trouble(d)
  BY DEF HomeInv, AtHome, User
<1>2. Lands(d)
  BY <1>1, UserLands, SyncKeeps
<1>3. \A e \in Device \ {d} : row'[e] = row[e] /\ sync'[e] = sync[e]
  BY <1>2 DEF Lands
<1>4. \A e \in Device : Knows(s, items, row[e], cur[e], sync[e])
  BY DEF AllKnow
<1>5. DOMAIN items' = {1}
  <2>1. ASSUME NEW t \in Home, Send(d, t) PROVE DOMAIN items' = DOMAIN items
    <3>1. sync[d].at = <<"send", t>>
      BY <1>1, <2>1, SendsItem
    <3>2. t = s
      BY <3>1 DEF AtHome, StaysAt
    <3>3. sync[d].push.uid # 0
      BY <1>4, <3>1, <3>2 DEF Knows
    <3> QED BY <1>1, <2>1, <3>3, SendsItem
  <2> QED BY <1>1, <2>1, ItemsAdded
<1>6. items[1].num \in Nat /\ items'[1].num \in Nat /\ items[1].num <= items'[1].num
  <2>1. /\ newest \in Nat /\ items[1].num \in Nat /\ items[1].num <= newest
    <3>1. \A u \in DOMAIN items : items[u].num \in Nat /\ items[u].num <= newest
      BY <1>1, Before, ItemsAre DEF ServerTyped
    <3> QED BY <1>1, <3>1, Before
  <2>2. items'[1].num \in Nat
    BY <1>2, <1>5, ItemsAre DEF Lands
  <2>3. items'[1] = items[1] \/ items'[1].num > newest
    BY <1>1, ItemsGoOn DEF GoesOn
  <2> QED BY <2>1, <2>2, <2>3
<1>7. \A e \in Device : cur[e][s] \in Nat /\ (cur'[e][s] = cur[e][s] \/ (e = d /\ Pull(d, s)))
  BY <1>1, CursorStep DEF CursorInv, Sound
<1>8. ASSUME NEW e \in Device \ {d} PROVE Knows(s, items', row'[e], cur'[e], sync'[e])
  BY <1>3, <1>4, <1>6, <1>7 DEF Knows
<1>9. ASSUME sync'[d].at = <<"send", s>> PROVE sync'[d].push.uid # 0
  <2>1. CASE Edit(d) \/ Delete(d)
    <3>1. sync' = sync
      BY <2>1 DEF Edit, Delete
    <3> QED BY <1>4, <1>9, <3>1 DEF Knows
  <2>2. CASE Sync(d) \/ Trouble(d)
    BY <1>1, <1>4, <1>9, <2>2, SendsWhat DEF Knows
  <2> QED BY <2>1, <2>2
<1>10. ASSUME row'[d] # NoRow, row'[d].uid = 0 PROVE cur'[d][s] < items'[1].num /\ ~Ready(sync'[d], s)
  <2>1. /\ row[d] # NoRow /\ row[d].uid = 0
        /\ Pull(d, s) => items[1].num <= cur[d][s]
    BY <1>10, RowUnsent
  <2>2. cur[d][s] < items[1].num /\ ~Ready(sync[d], s)
    BY <1>4, <2>1 DEF Knows
  <2>3. ~Pull(d, s)
    BY <1>6, <1>7, <2>1, <2>2
  <2>4. cur'[d][s] = cur[d][s]
    BY <1>7, <2>3
  <2>5. ~Ready(sync'[d], s)
    BY <1>1, <2>2, <2>3, ReadyStep DEF ReadyKeeps
  <2> QED BY <1>6, <1>7, <2>2, <2>4, <2>5
<1>11. \A e \in Device : Knows(s, items', row'[e], cur'[e], sync'[e])
  BY <1>8, <1>9, <1>10 DEF Knows
<1> QED BY <1>5, <1>11 DEF AllKnow

LEMMA SentGoesOn ==
  ASSUME StayPut, HomeInv, SentInv, [RowsNext]_rowVars
  PROVE  SentInv'
<1>1. PICK s \in Home : AtHome(s) /\ OneItem(s)
  BY DEF SentInv
<1>2. \A d \in Device : Opened(sync[d])
  BY DEF SentInv
<1>3. CASE UNCHANGED rowVars
  <2>1. AtHome(s)'
    BY <1>1, <1>3, HomeRests
  <2>2. OneItem(s)'
    BY <1>1, <1>3 DEF OneItem, NoneGone, OneHolds, AllKnow, Knows, Holds, Ready, rowVars, server, store
  <2>3. sync' = sync
    BY <1>3 DEF rowVars
  <2> QED BY <1>2, <2>1, <2>2, <2>3 DEF SentInv
<1>4. ASSUME NEW d \in Device, User(d) \/ Sync(d) \/ Trouble(d) PROVE SentInv'
  <2>1. RowsInv
    BY DEF HomeInv
  <2>2. Lands(d)
    BY <1>4, <2>1, UserLands, SyncKeeps DEF HomeInv
  <2>3. \A e \in Device : Opened(sync'[e])
    BY <1>1, <1>2, <1>4, <2>2, ReadyStep DEF ReadyKeeps, Lands
  <2>4. CASE \E t \in Home : Create(d, t)
    <3>1. PICK t \in Home : Create(d, t)
      BY <2>4
    <3>2. AtHome(t)' /\ Unborn
      BY <3>1, CreatesAtHome
    <3>3. items' = items /\ sync' = sync /\ \A e \in Device \ {d} : row'[e] = row[e]
      BY <2>2, <3>1 DEF Create, server, Lands
    <3>4. DOMAIN items' = {}
      BY <3>2, <3>3 DEF Unborn
    <3>5. \A e \in Device \ {d} : ~Holds(row'[e], sync'[e])
      BY <3>2, <3>3 DEF Holds, Unborn
    <3>6. OneHolds'
      BY <3>5 DEF OneHolds
    <3> QED BY <2>3, <3>2, <3>4, <3>6 DEF SentInv, OneItem
  <2>5. CASE ~\E t \in Home : Create(d, t)
    <3>1. Edit(d) \/ Delete(d) \/ Sync(d) \/ Trouble(d)
      BY <1>4, <2>5, UserIs
    <3>2. AtHome(s)'
      BY <1>1, <3>1, StaysHome
    <3>3. OneItem(s)'
      <4> SUFFICES ASSUME NoneGone(items')
                   PROVE  (DOMAIN items = {} /\ OneHolds)' \/ (DOMAIN items = {1} /\ AllKnow(s))'
        BY DEF OneItem
      <4>1. NoneGone(items)
        BY <1>4, ItemsGoOn DEF NoneGone, GoesOn
      <4>2. (DOMAIN items = {} /\ OneHolds) \/ (DOMAIN items = {1} /\ AllKnow(s))
        BY <1>1, <4>1 DEF OneItem
      <4> QED BY <1>1, <1>2, <3>1, <4>1, <4>2, FirstItem, OnlyItem
    <3> QED BY <1>1, <2>3, <3>2, <3>3 DEF SentInv
  <2> QED BY <2>4, <2>5
<1> QED BY <1>3, <1>4 DEF RowsNext

(* SentOnce, for any number of devices, whatever fails, where users edit   *)
(* and delete the note and do not move it.                                 *)
THEOREM NoteIsSentOnce ==
  ASSUME StayPut
  PROVE  RowsSpec => []SentOnce
<1>1. RowsInit => HomeInv /\ SentInv
  <2> SUFFICES ASSUME RowsInit PROVE HomeInv /\ SentInv
    OBVIOUS
  <2>1. HomeInv /\ items = <<>> /\ \A d \in Device : row[d] = NoRow /\ sync[d] = NoSync
    BY HomeBegins DEF RowsInit
  <2>2. PICK s \in Home : AtHome(s)
    BY <2>1 DEF HomeInv
  <2>3. DOMAIN items = {}
    BY <2>1
  <2>4. NoSync.at = <<"idle", "all">>
    BY DEF NoSync
  <2>5. \A d \in Device : Opened(sync[d]) /\ ~Holds(row[d], sync[d])
    <3>1. Quiet(NoSync.at) /\ \A t \in Home : NoSync.at # <<"send", t>>
      BY <2>4 DEF Quiet
    <3>2. Opened(NoSync)
      BY <2>2, <3>1, QuietPlaces DEF Opened
    <3> QED BY <2>1, <3>1, <3>2 DEF Holds
  <2> QED BY <2>1, <2>2, <2>3, <2>5 DEF SentInv, OneItem, OneHolds
<1>2. HomeInv /\ SentInv /\ [RowsNext]_rowVars => (HomeInv /\ SentInv)'
  BY HomeGoesOn, SentGoesOn
<1>3. HomeInv /\ SentInv => SentOnce
  <2> SUFFICES ASSUME HomeInv, SentInv, NoneGone(items) PROVE Len(items) <= 1
    BY DEF SentOnce, NoneGone, Uids
  <2>1. DOMAIN items = {} \/ DOMAIN items = {1}
    BY DEF SentInv, OneItem
  <2>2. Len(items) \in Nat /\ DOMAIN items = 1 .. Len(items)
    BY ItemsAre DEF HomeInv, RowsInv
  <2>3. ~(2 \in DOMAIN items)
    BY <2>1
  <2> QED BY <2>2, <2>3
<1> QED BY <1>1, <1>2, <1>3, PTL DEF RowsSpec

-----------------------------------------------------------------------------
(* NothingLeftBehind, for any folders and notes and any number of commands.  *)
(* Whatever is below a folder does not matter for it, only that the rows     *)
(* which let go of their items are those whose items are queued or recorded  *)
(* as stranded: one lemma says so of every step but SendRow, the only one    *)
(* that gives a row an item.                                                 *)
Places == Node \cup {"none", "root", "trash"}
Scopes == Collection \cup {"vault"}
Row == [in : Places, scope : Scopes, uid : Nat, dirty : BOOLEAN, from : Places]
Tombstones == [uid : Nat, scope : Scopes]

Typed ==
  /\ sent \in Nat
  /\ entry \in [Node -> Row]
  /\ queue \subseteq Tombstones

(* Uids were given by the server, an absent row has none, and no two rows    *)
(* have the same.                                                            *)
UidsAreKnown ==
  /\ \A x \in Node : entry[x].uid <= sent /\ (entry[x].in = "none" => entry[x].uid = 0)
  /\ \A x, y \in Node : entry[x].uid = entry[y].uid => x = y \/ entry[x].uid = 0
  /\ \A t \in queue : 0 < t.uid /\ t.uid <= sent
  /\ \A i \in posted : i.uid # 0 /\ i.node \in Node

BookInv == Typed /\ UidsAreKnown /\ NothingLeftBehind

-----------------------------------------------------------------------------
(* A step after which the rows xs have no item, and the others the one they  *)
(* had, where the items of xs are queued, stranded or not on the server.     *)
LetsGo(xs) ==
  /\ \A y \in Node : entry'[y].uid = IF y \in xs THEN 0 ELSE entry[y].uid
  /\ \A y \in Node : entry'[y].in = "none" => entry'[y].uid = 0
  /\ \A y \in Node \ xs : entry[y].uid = 0 \/ entry'[y].scope = entry[y].scope
  /\ sent' = sent /\ posted' \subseteq posted /\ stranded \subseteq stranded'
  /\ \A t \in queue' : t \in queue \/ \E y \in xs : entry[y].uid # 0 /\ t.uid = entry[y].uid
  /\ \A i \in posted' : [uid |-> i.uid, scope |-> i.scope] \in queue =>
                          [uid |-> i.uid, scope |-> i.scope] \in queue'
  /\ \A y \in xs : \A i \in posted' : i.uid = entry[y].uid /\ i.scope = entry[y].scope =>
       [uid |-> i.uid, scope |-> i.scope] \in queue' \/ i.uid \in stranded'

LEMMA LettingGo ==
  ASSUME BookInv, NEW xs \in SUBSET Node, Typed', LetsGo(xs)
  PROVE BookInv'
<1>1. \A x \in Node : /\ entry'[x].uid <= sent'
                      /\ entry'[x].in = "none" => entry'[x].uid = 0
  BY DEF BookInv, Typed, UidsAreKnown, LetsGo, Row
<1>2. \A x, y \in Node : entry'[x].uid = entry'[y].uid => x = y \/ entry'[x].uid = 0
  BY DEF BookInv, UidsAreKnown, LetsGo
<1>3. \A t \in queue' : 0 < t.uid /\ t.uid <= sent'
  <2> TAKE t \in queue'
  <2>1. CASE t \in queue
    BY <2>1 DEF BookInv, UidsAreKnown, LetsGo
  <2>2. CASE \E y \in xs : entry[y].uid # 0 /\ t.uid = entry[y].uid
    <3> PICK y \in xs : entry[y].uid # 0 /\ t.uid = entry[y].uid
      BY <2>2
    <3>1. entry[y].uid \in Nat /\ entry[y].uid <= sent
      BY DEF BookInv, Typed, UidsAreKnown, Row
    <3> QED BY <3>1 DEF LetsGo
  <2> QED BY <2>1, <2>2 DEF LetsGo
<1>4. \A i \in posted' : i.uid # 0 /\ i.node \in Node
  BY DEF BookInv, UidsAreKnown, LetsGo
<1>5. \A i \in posted' :
       \/ entry'[i.node].uid = i.uid /\ entry'[i.node].scope = i.scope
       \/ [uid |-> i.uid, scope |-> i.scope] \in queue'
       \/ i.uid \in stranded'
  <2> TAKE i \in posted'
  <2>1. i \in posted /\ i.uid # 0 /\ i.node \in Node
    BY DEF BookInv, UidsAreKnown, LetsGo
  <2>2. CASE entry[i.node].uid = i.uid /\ entry[i.node].scope = i.scope
    <3>1. CASE i.node \in xs
      BY <2>2, <3>1 DEF LetsGo
    <3>2. CASE i.node \notin xs
      BY <2>1, <2>2, <3>2 DEF LetsGo
    <3> QED BY <3>1, <3>2
  <2>3. CASE [uid |-> i.uid, scope |-> i.scope] \in queue \/ i.uid \in stranded
    BY <2>3 DEF LetsGo
  <2> QED BY <2>1, <2>2, <2>3 DEF BookInv, NothingLeftBehind
<1>6. \A x \in Node, t \in queue' : entry'[x].uid # t.uid
  <2> TAKE x \in Node, t \in queue'
  <2>1. t.uid # 0
    BY <1>3
  <2>2. CASE t \in queue
    BY <2>1, <2>2 DEF BookInv, NothingLeftBehind, LetsGo
  <2>3. CASE \E y \in xs : entry[y].uid # 0 /\ t.uid = entry[y].uid
    BY <2>1, <2>3 DEF BookInv, UidsAreKnown, LetsGo
  <2> QED BY <2>2, <2>3 DEF LetsGo
<1> QED BY <1>1, <1>2, <1>3, <1>4, <1>5, <1>6 DEF BookInv, UidsAreKnown, NothingLeftBehind

-----------------------------------------------------------------------------
RehomedRow(q, s) == [q EXCEPT !.scope = s, !.uid = 0, !.dirty = TRUE]
NumberedRow(q, u) == [q EXCEPT !.uid = u, !.dirty = FALSE]
FreedRow(q) == [q EXCEPT !.uid = 0]
CleanedRow(q) == [q EXCEPT !.dirty = FALSE]

LEMMA FieldsOfRehomed ==
  ASSUME NEW q \in Row, NEW s \in Scopes
  PROVE  /\ RehomedRow(q, s) \in Row
         /\ RehomedRow(q, s).uid = 0 /\ RehomedRow(q, s).in = q.in
BY DEF Row, RehomedRow

LEMMA FieldsOfNumbered ==
  ASSUME NEW q \in Row, NEW u \in Nat
  PROVE  /\ NumberedRow(q, u) \in Row /\ NumberedRow(q, u).uid = u
         /\ NumberedRow(q, u).in = q.in /\ NumberedRow(q, u).scope = q.scope
BY DEF Row, NumberedRow

LEMMA FieldsOfFreed ==
  ASSUME NEW q \in Row
  PROVE  FreedRow(q) \in Row /\ FreedRow(q).uid = 0
BY DEF Row, FreedRow

LEMMA FieldsOfCleaned ==
  ASSUME NEW q \in Row
  PROVE  /\ CleanedRow(q) \in Row /\ CleanedRow(q).uid = q.uid
         /\ CleanedRow(q).in = q.in /\ CleanedRow(q).scope = q.scope
BY DEF Row, CleanedRow

LEMMA SubtreeInNode == \A x \in Node : x \in Subtree(x) /\ Subtree(x) \subseteq Node
BY DEF Subtree, RowsBelow, There

LEMMA InTrashInNode == InTrash \subseteq Node
BY DEF InTrash, RowsBelow, There

LEMMA PlacesAreTyped ==
  ASSUME Typed
  PROVE  \A to \in Place : to \in Places /\ to # "none" /\ ScopeOf(to) \in Scopes
<1> TAKE to \in Place
<1>1. to \in Places /\ to # "none"
  BY NotebookAssumption DEF Place, Places, Node
<1>2. CASE to \in Collection
  <2>1. entry[to] \in Row
    BY <1>2 DEF Typed, Node
  <2> QED BY <1>1, <1>2, <2>1 DEF ScopeOf, Row
<1>3. CASE to \notin Collection
  BY <1>1, <1>3 DEF ScopeOf, Scopes
<1> QED BY <1>1, <1>2, <1>3

LEMMA PlacedInTyped ==
  ASSUME Typed, NEW x \in Node, NEW to \in Place
  PROVE  /\ PlacedIn(x, to) \in [Node -> Row]
         /\ \A y \in Node : /\ PlacedIn(x, to)[y].uid = entry[y].uid
                            /\ PlacedIn(x, to)[y].scope = entry[y].scope
                            /\ PlacedIn(x, to)[y].in = "none" => entry[y].in = "none"
<1> DEFINE from == IF to = "trash" /\ entry[x].in # "trash" THEN entry[x].in ELSE entry[x].from
           placed == [entry[x] EXCEPT !.in = to, !.dirty = TRUE, !.from = from]
<1>1. entry[x] \in Row /\ to \in Places /\ to # "none"
  BY PlacesAreTyped DEF Typed
<1>2. from \in Places
  BY <1>1 DEF Row
<1> HIDE DEF from
<1>3. /\ placed \in Row
      /\ placed.uid = entry[x].uid /\ placed.scope = entry[x].scope /\ placed.in = to
  BY <1>1, <1>2 DEF Row
<1>4. PlacedIn(x, to) = [entry EXCEPT ![x] = placed]
  BY DEF PlacedIn, from
<1> HIDE DEF placed
<1> QED BY <1>1, <1>3, <1>4 DEF Typed

(* The rows as they are, but for what is not said of items.                  *)
LEMMA SameItems ==
  ASSUME BookInv, entry' \in [Node -> Row],
         \A y \in Node : /\ entry'[y].uid = entry[y].uid
                         /\ entry[y].uid = 0 \/ entry'[y].scope = entry[y].scope
                         /\ entry'[y].in = "none" => entry'[y].uid = 0,
         posted' \subseteq posted, UNCHANGED <<queue, sent, stranded>>
  PROVE  BookInv'
<1>1. Typed'
  BY DEF BookInv, Typed
<1>2. LetsGo({})
  BY DEF LetsGo
<1> QED BY <1>1, <1>2, LettingGo

LEMMA RehomingLetsGo ==
  ASSUME BookInv, NEW x \in Node, NEW scope \in Scopes,
         NEW r \in [Node -> Row],
         \A y \in Node : /\ r[y].uid = entry[y].uid /\ r[y].scope = entry[y].scope
                         /\ r[y].in = "none" => entry[y].in = "none",
         Rehomed(r, x, scope), posted' \subseteq posted, UNCHANGED <<sent, stranded>>
  PROVE  BookInv'
<1>1. Subtree(x) \in SUBSET Node
  BY SubtreeInNode
<1>2. \A y \in Node : /\ entry'[y] \in Row
                      /\ entry'[y].uid = IF y \in Subtree(x) THEN 0 ELSE entry[y].uid
                      /\ entry'[y].in = r[y].in
                      /\ y \notin Subtree(x) => entry'[y].scope = entry[y].scope
  <2> TAKE y \in Node
  <2>1. CASE y \in Subtree(x)
    <3>1. entry'[y] = RehomedRow(r[y], scope)
      BY <2>1 DEF Rehomed, RehomedRow
    <3>2. r[y] \in Row
      OBVIOUS
    <3>3. /\ entry'[y] \in Row /\ entry'[y].uid = 0 /\ entry'[y].in = r[y].in
      BY <3>1, <3>2, FieldsOfRehomed
    <3> QED BY <2>1, <3>3
  <2>2. CASE y \notin Subtree(x)
    BY <2>2 DEF Rehomed
  <2> QED BY <2>1, <2>2
<1>3. \A t : t \in queue' <=> t \in queue \/ \E y \in Subtree(x) :
                 entry[y].uid # 0 /\ t = [uid |-> entry[y].uid, scope |-> entry[y].scope]
  BY <1>1 DEF Rehomed, Announced
<1>4. Typed'
  <2>1. entry' \in [Node -> Row]
    BY <1>2 DEF Rehomed
  <2>2. queue' \subseteq Tombstones
    BY <1>1, <1>3 DEF BookInv, Typed, Row, Tombstones
  <2> QED BY <2>1, <2>2 DEF BookInv, Typed
<1>5. LetsGo(Subtree(x))
  <2>1. \A y \in Node : entry'[y].in = "none" => entry'[y].uid = 0
    BY <1>2 DEF BookInv, UidsAreKnown
  <2>2. \A t \in queue' : t \in queue \/ \E y \in Subtree(x) : entry[y].uid # 0 /\ t.uid = entry[y].uid
    BY <1>3
  <2>3. \A y \in Subtree(x) : \A i \in posted' : i.uid = entry[y].uid /\ i.scope = entry[y].scope =>
          [uid |-> i.uid, scope |-> i.scope] \in queue'
    BY <1>3 DEF BookInv, UidsAreKnown
  <2> QED BY <1>2, <1>3, <2>1, <2>2, <2>3 DEF LetsGo
<1> QED BY <1>1, <1>4, <1>5, LettingGo

LEMMA RemovingLetsGo ==
  ASSUME BookInv, NEW xs \in SUBSET Node, NEW announced \in SUBSET xs, Removed(xs, announced)
  PROVE  BookInv'
<1>1. Absent \in Row /\ Absent.uid = 0
  BY DEF Absent, Row, Places, Scopes
<1>2. \A y \in Node : entry'[y] = IF y \in xs THEN Absent ELSE entry[y]
  BY DEF Removed
<1>3. \A t : t \in queue' <=> t \in queue \/ \E y \in announced :
                 entry[y].uid # 0 /\ t = [uid |-> entry[y].uid, scope |-> entry[y].scope]
  BY DEF Removed, Announced
<1>4. \A y \in xs \ announced : entry[y].uid # 0 => entry[y].uid \in stranded'
  BY DEF Removed, UidsOf
<1>5. Typed'
  <2>1. entry' \in [Node -> Row]
    BY <1>1 DEF Removed, BookInv, Typed
  <2>2. queue' \subseteq Tombstones
    BY <1>3 DEF BookInv, Typed, Row, Tombstones
  <2> QED BY <2>1, <2>2 DEF BookInv, Typed, Removed
<1>6. LetsGo(xs)
  <2>1. \A y \in Node : /\ entry'[y].uid = IF y \in xs THEN 0 ELSE entry[y].uid
                        /\ entry'[y].in = "none" => entry'[y].uid = 0
    BY <1>1, <1>2 DEF BookInv, UidsAreKnown
  <2>2. \A y \in xs : \A i \in posted' : i.uid = entry[y].uid /\ i.scope = entry[y].scope =>
          [uid |-> i.uid, scope |-> i.scope] \in queue' \/ i.uid \in stranded'
    BY <1>3, <1>4 DEF BookInv, UidsAreKnown, Removed
  <2>3. \A t \in queue' : t \in queue \/ \E y \in xs : entry[y].uid # 0 /\ t.uid = entry[y].uid
    BY <1>3
  <2> QED BY <1>2, <1>3, <2>1, <2>2, <2>3 DEF LetsGo, Removed
<1> QED BY <1>5, <1>6, LettingGo

-----------------------------------------------------------------------------
LEMMA BookBegins == BookInit => BookInv
<1> SUFFICES ASSUME BookInit PROVE BookInv
  OBVIOUS
<1>1. Absent \in Row /\ Absent.uid = 0
  BY DEF Absent, Row, Places, Scopes
<1> QED BY <1>1 DEF BookInit, BookInv, Typed, UidsAreKnown, NothingLeftBehind

LEMMA MovingKeeps ==
  ASSUME BookInv, NEW x \in Node, NEW to \in Place, MovedTo(x, to),
         UNCHANGED <<anchors, ended, posted, sent, stranded>>
  PROVE  BookInv'
<1>1. Typed
  BY DEF BookInv
<1>2. /\ PlacedIn(x, to) \in [Node -> Row]
      /\ \A y \in Node : /\ PlacedIn(x, to)[y].uid = entry[y].uid
                         /\ PlacedIn(x, to)[y].scope = entry[y].scope
                         /\ PlacedIn(x, to)[y].in = "none" => entry[y].in = "none"
  BY <1>1, PlacedInTyped
<1>3. CASE Rehomed(PlacedIn(x, to), x, ScopeOf(to))
  <2>1. ScopeOf(to) \in Scopes
    BY <1>1, PlacesAreTyped
  <2> QED BY <1>2, <1>3, <2>1, RehomingLetsGo
<1>4. CASE entry' = PlacedIn(x, to) /\ UNCHANGED queue
  <2>1. \A y \in Node : entry'[y].in = "none" => entry'[y].uid = 0
    BY <1>2, <1>4 DEF BookInv, UidsAreKnown
  <2> QED BY <1>2, <1>4, <2>1, SameItems
<1> QED BY <1>3, <1>4 DEF MovedTo

(* SendRow gives an item to a row that has none, under a uid above those     *)
(* that are known, or puts a new revision of the row's own item.             *)
LEMMA SendingKeeps == ASSUME BookInv, NEW x \in Node, SendRow(x) PROVE BookInv'
<1>1. entry[x] \in Row /\ x \in There /\ sent \in Nat
  BY DEF BookInv, Typed, SendRow
<1>2. \A y \in Node \ {x} : entry'[y] = entry[y]
  <2>1. \/ entry' = [entry EXCEPT ![x].uid = sent + 1, ![x].dirty = FALSE]
        \/ entry' = [entry EXCEPT ![x].dirty = FALSE]
    BY DEF SendRow
  <2> QED BY <2>1 DEF BookInv, Typed
<1>3. CASE entry[x].uid = 0
  <2>1. /\ sent' = sent + 1 /\ posted' = posted \cup {PostedItem(x, sent + 1)}
        /\ entry' = [entry EXCEPT ![x].uid = sent + 1, ![x].dirty = FALSE]
        /\ queue' = queue /\ stranded' = stranded
    BY <1>3 DEF SendRow
  <2>2. /\ entry'[x] \in Row /\ entry'[x].uid = sent + 1
        /\ entry'[x].in = entry[x].in /\ entry'[x].scope = entry[x].scope
    <3>1. entry'[x] = NumberedRow(entry[x], sent + 1)
      BY <2>1 DEF BookInv, Typed, NumberedRow
    <3>2. sent + 1 \in Nat
      BY <1>1
    <3> QED BY <1>1, <3>1, <3>2, FieldsOfNumbered
  <2>3. entry' \in [Node -> Row]
    BY <1>2, <2>1, <2>2 DEF BookInv, Typed
  <2>4. Typed'
    BY <1>1, <2>1, <2>3 DEF BookInv, Typed
  <2>5. \A y \in Node \ {x} : entry'[y].uid <= sent /\ entry'[y].uid # sent + 1
    BY <1>1, <1>2 DEF BookInv, UidsAreKnown, Typed, Row
  <2>6. UidsAreKnown'
    <3>1. \A y \in Node : /\ entry'[y].uid <= sent'
                          /\ entry'[y].in = "none" => entry'[y].uid = 0
      <4> TAKE y \in Node
      <4>1. CASE y = x
        BY <1>1, <2>1, <2>2, <4>1 DEF There
      <4>2. CASE y # x
        <5>1. entry[y].uid \in Nat /\ entry[y].uid <= sent
          BY DEF BookInv, Typed, Row, UidsAreKnown
        <5>2. entry[y].in = "none" => entry[y].uid = 0
          BY DEF BookInv, UidsAreKnown
        <5>3. entry'[y].uid <= sent'
          <6>1. entry'[y] = entry[y] /\ sent' = sent + 1
            BY <1>2, <2>1, <4>2
          <6> QED BY <1>1, <5>1, <6>1
        <5> QED BY <1>2, <4>2, <5>2, <5>3
      <4> QED BY <4>1, <4>2
    <3>2. \A y, z \in Node : entry'[y].uid = entry'[z].uid => y = z \/ entry'[y].uid = 0
      <4> SUFFICES ASSUME NEW y \in Node, NEW z \in Node, entry'[y].uid = entry'[z].uid, y # z
                   PROVE  entry'[y].uid = 0
        OBVIOUS
      <4>1. y # x /\ z # x
        BY <2>2, <2>5
      <4>2. entry'[y].uid = entry[y].uid /\ entry'[z].uid = entry[z].uid
        BY <1>2, <4>1
      <4> QED BY <4>2 DEF BookInv, UidsAreKnown
    <3>3. \A t \in queue' : 0 < t.uid /\ t.uid <= sent'
      <4> TAKE t \in queue'
      <4>1. t.uid \in Nat /\ 0 < t.uid /\ t.uid <= sent
        BY <2>1 DEF BookInv, Typed, UidsAreKnown, Tombstones
      <4> QED BY <1>1, <2>1, <4>1
    <3>4. \A i \in posted' : i.uid # 0 /\ i.node \in Node
      BY <1>1, <2>1 DEF BookInv, UidsAreKnown, PostedItem
    <3> QED BY <3>1, <3>2, <3>3, <3>4 DEF UidsAreKnown
  <2>7. NothingLeftBehind'
    <3>1. \A i \in posted' :
             \/ entry'[i.node].uid = i.uid /\ entry'[i.node].scope = i.scope
             \/ [uid |-> i.uid, scope |-> i.scope] \in queue'
             \/ i.uid \in stranded'
      <4> TAKE i \in posted'
      <4>1. CASE i \in posted
        <5>1. i.uid # 0 /\ i.node \in Node
          BY <4>1 DEF BookInv, UidsAreKnown
        <5>2. i.node = x => entry[i.node].uid # i.uid
          BY <1>3, <5>1
        <5> QED BY <1>2, <2>1, <4>1, <5>1, <5>2 DEF BookInv, NothingLeftBehind
      <4>2. CASE i = PostedItem(x, sent + 1)
        BY <2>2, <4>2 DEF PostedItem
      <4> QED BY <2>1, <4>1, <4>2
    <3>2. \A y \in Node, t \in queue' : entry'[y].uid # t.uid
      <4> TAKE y \in Node, t \in queue'
      <4>1. t.uid \in Nat /\ t.uid <= sent
        BY <2>1 DEF BookInv, Typed, UidsAreKnown, Tombstones
      <4>2. CASE y = x
        BY <1>1, <2>2, <4>1, <4>2
      <4>3. CASE y # x
        BY <1>2, <2>1, <4>3 DEF BookInv, NothingLeftBehind
      <4> QED BY <4>2, <4>3
    <3> QED BY <3>1, <3>2 DEF NothingLeftBehind
  <2> QED BY <2>4, <2>6, <2>7 DEF BookInv
<1>4. CASE entry[x].uid # 0
  <2>1. /\ sent' = sent
        /\ posted' = (posted \ Carried(x)) \cup {PostedItem(x, entry[x].uid)}
        /\ entry' = [entry EXCEPT ![x].dirty = FALSE]
        /\ queue' = queue /\ stranded' = stranded
    BY <1>4 DEF SendRow
  <2>2. /\ entry'[x] \in Row /\ entry'[x].uid = entry[x].uid
        /\ entry'[x].in = entry[x].in /\ entry'[x].scope = entry[x].scope
    <3>1. entry'[x] = CleanedRow(entry[x])
      BY <2>1 DEF BookInv, Typed, CleanedRow
    <3> QED BY <1>1, <3>1, FieldsOfCleaned
  <2>3. \A y \in Node : /\ entry'[y].uid = entry[y].uid /\ entry'[y].scope = entry[y].scope
                        /\ entry'[y].in = entry[y].in
    BY <1>2, <2>2
  <2>4. Typed'
    BY <1>2, <2>1, <2>2 DEF BookInv, Typed
  <2>5. UidsAreKnown'
    BY <1>1, <1>4, <2>1, <2>3 DEF BookInv, UidsAreKnown, PostedItem
  <2>6. NothingLeftBehind'
    <3>1. \A i \in posted' :
             \/ entry'[i.node].uid = i.uid /\ entry'[i.node].scope = i.scope
             \/ [uid |-> i.uid, scope |-> i.scope] \in queue'
             \/ i.uid \in stranded'
      <4> TAKE i \in posted'
      <4>1. CASE i \in posted
        BY <2>1, <2>3, <4>1 DEF BookInv, UidsAreKnown, NothingLeftBehind
      <4>2. CASE i = PostedItem(x, entry[x].uid)
        BY <2>2, <4>2 DEF PostedItem
      <4> QED BY <2>1, <4>1, <4>2
    <3> QED BY <2>1, <2>3, <3>1 DEF BookInv, NothingLeftBehind
  <2> QED BY <2>4, <2>5, <2>6 DEF BookInv
<1> QED BY <1>3, <1>4

-----------------------------------------------------------------------------
LEMMA CreatingKeeps == ASSUME BookInv, NEW x \in Node, CreateRow(x) PROVE BookInv'
<1> PICK to \in Place :
        /\ x \notin There
        /\ entry' = [entry EXCEPT ![x] = [Absent EXCEPT !.in = to, !.scope = ScopeOf(to), !.dirty = TRUE]]
  BY DEF CreateRow
<1> DEFINE made == [Absent EXCEPT !.in = to, !.scope = ScopeOf(to), !.dirty = TRUE]
<1>1. to \in Places /\ ScopeOf(to) \in Scopes
  BY PlacesAreTyped DEF BookInv
<1>2. made \in Row /\ made.uid = 0
  BY <1>1 DEF Absent, Row, Places
<1>3. entry[x].uid = 0
  BY DEF There, BookInv, UidsAreKnown
<1>4. entry' = [entry EXCEPT ![x] = made]
  OBVIOUS
<1> HIDE DEF made
<1>5. entry' \in [Node -> Row]
  BY <1>2, <1>4 DEF BookInv, Typed
<1>6. \A y \in Node : /\ entry'[y].uid = entry[y].uid
                      /\ entry[y].uid = 0 \/ entry'[y].scope = entry[y].scope
                      /\ entry'[y].in = "none" => entry'[y].uid = 0
  <2> TAKE y \in Node
  <2>1. CASE y = x
    <3>1. entry'[y] = made
      BY <1>4, <2>1 DEF BookInv, Typed
    <3> QED BY <1>2, <1>3, <2>1, <3>1
  <2>2. CASE y # x
    BY <1>4, <2>2 DEF BookInv, Typed, UidsAreKnown
  <2> QED BY <2>1, <2>2
<1> QED BY <1>5, <1>6, SameItems DEF CreateRow

LEMMA TrashingKeeps == ASSUME BookInv, NEW n \in Note, TrashNote(n) PROVE BookInv'
<1>1. n \in Node /\ "trash" \in Place /\ Typed
  BY DEF Node, Place, BookInv
<1>2. /\ PlacedIn(n, "trash") \in [Node -> Row]
      /\ \A y \in Node : /\ PlacedIn(n, "trash")[y].uid = entry[y].uid
                         /\ PlacedIn(n, "trash")[y].scope = entry[y].scope
                         /\ PlacedIn(n, "trash")[y].in = "none" => entry[y].in = "none"
  BY <1>1, PlacedInTyped
<1>3. entry' = PlacedIn(n, "trash")
  BY DEF TrashNote
<1>4. \A y \in Node : entry'[y].in = "none" => entry'[y].uid = 0
  BY <1>2, <1>3 DEF BookInv, UidsAreKnown
<1> QED BY <1>2, <1>3, <1>4, SameItems DEF TrashNote

(* apply_remote_delete: the item is gone from the server, so that no row     *)
(* of it is left behind when the row lets go of it.                          *)
LEMMA PullingKeeps == ASSUME BookInv, NEW x \in Node, PullDelete(x) PROVE BookInv'
<1>1. CASE ~entry[x].dirty
  BY <1>1, SubtreeInNode, RemovingLetsGo DEF PullDelete
<1>2. CASE entry[x].dirty
  <2>1. /\ entry' = [entry EXCEPT ![x] = FreedRow(entry[x])]
        /\ UNCHANGED <<queue, posted, sent, stranded>> /\ Carried(x) = {}
    BY <1>2 DEF PullDelete, FreedRow
  <2>2. entry[x] \in Row /\ entry[x].in # "none"
    BY DEF BookInv, Typed, PullDelete, There
  <2>3. /\ entry'[x] \in Row /\ entry'[x].uid = 0
        /\ \A y \in Node \ {x} : entry'[y] = entry[y]
    BY <2>1, <2>2, FieldsOfFreed DEF BookInv, Typed
  <2>4. Typed'
    BY <2>1, <2>3 DEF BookInv, Typed
  <2>5. LetsGo({x})
    <3>1. \A i \in posted' : i.uid # entry[x].uid
      BY <2>1 DEF Carried
    <3>2. \A y \in Node : /\ entry'[y].uid = IF y \in {x} THEN 0 ELSE entry[y].uid
                          /\ entry'[y].in = "none" => entry'[y].uid = 0
      BY <2>3 DEF BookInv, UidsAreKnown
    <3>3. \A y \in Node \ {x} : entry'[y].scope = entry[y].scope
      BY <2>3
    <3> QED BY <2>1, <3>1, <3>2, <3>3 DEF LetsGo
  <2> QED BY <2>4, <2>5, LettingGo
<1> QED BY <1>1, <1>2

(* What leaves the queue is no longer on the server.                         *)
LEMMA DrainingKeeps == ASSUME BookInv, DrainQueue PROVE BookInv'
<1> PICK t \in queue : /\ queue' = queue \ {t}
                       /\ posted' = {i \in posted : i.uid # t.uid \/ i.scope # t.scope}
                       /\ UNCHANGED <<entry, sent, stranded>>
  BY DEF DrainQueue
<1>1. Typed'
  BY DEF BookInv, Typed
<1>2. LetsGo({})
  <2>1. \A i \in posted' : [uid |-> i.uid, scope |-> i.scope] # t
    OBVIOUS
  <2>2. \A y \in Node : entry'[y].in = "none" => entry'[y].uid = 0
    BY DEF BookInv, UidsAreKnown
  <2> QED BY <2>1, <2>2 DEF LetsGo
<1> QED BY <1>1, <1>2, LettingGo

LEMMA OthersKeep ==
  ASSUME BookInv, posted' \subseteq posted, UNCHANGED <<entry, queue, sent, stranded>>
  PROVE  BookInv'
BY SameItems DEF BookInv, Typed, UidsAreKnown

LEMMA SharingKeeps == ASSUME BookInv, NEW f \in Collection, Share(f) \/ Unshare(f) PROVE BookInv'
<1>1. f \in Node /\ f \in Scopes /\ "vault" \in Scopes /\ entry \in [Node -> Row]
  BY DEF Node, Scopes, BookInv, Typed
<1>2. CASE Share(f)
  BY <1>1, <1>2, RehomingLetsGo DEF Share
<1>3. CASE Unshare(f)
  BY <1>1, <1>3, RehomingLetsGo DEF Unshare
<1> QED BY <1>2, <1>3

LEMMA BookSteps == BookInv /\ [BookNext]_bookVars => BookInv'
<1> SUFFICES ASSUME BookInv, [BookNext]_bookVars PROVE BookInv'
  OBVIOUS
<1>1. ASSUME NEW x \in Node, CreateRow(x) PROVE BookInv'
  BY <1>1, CreatingKeeps
<1>2. ASSUME NEW x \in Node, MoveRow(x) PROVE BookInv'
  BY <1>2, MovingKeeps DEF MoveRow
<1>3. ASSUME NEW x \in Node, RestoreRow(x) PROVE BookInv'
  <2>1. RestoreTarget(x) \in Place
    BY DEF RestoreTarget, Place
  <2> QED BY <1>3, <2>1, MovingKeeps DEF RestoreRow
<1>4. ASSUME NEW x \in Node, Purge(x) PROVE BookInv'
  <2>1. Subtree(x) \in SUBSET Node /\ {x} \in SUBSET Subtree(x)
    BY SubtreeInNode
  <2> QED BY <1>4, <2>1, RemovingLetsGo DEF Purge
<1>5. ASSUME NEW x \in Node, SendRow(x) PROVE BookInv'
  BY <1>5, SendingKeeps
<1>6. ASSUME NEW x \in Node, PullDelete(x) PROVE BookInv'
  BY <1>6, PullingKeeps
<1>7. ASSUME NEW n \in Note, TrashNote(n) PROVE BookInv'
  BY <1>7, TrashingKeeps
<1>8. ASSUME NEW f \in Collection, Share(f) \/ Unshare(f) PROVE BookInv'
  BY <1>8, SharingKeeps
<1>9. CASE EmptyTrash
  BY <1>9, InTrashInNode, RemovingLetsGo DEF EmptyTrash
<1>10. CASE Sweep
  <2> PICK top \in SUBSET {x \in There : entry[x].in = "trash"} :
        Removed(UNION {Subtree(x) : x \in top},
                top \cup ((UNION {Subtree(x) : x \in top}) \cap Note))
    BY <1>10 DEF Sweep
  <2> DEFINE all == UNION {Subtree(x) : x \in top}
  <2>1. top \subseteq Node
    BY DEF There
  <2>2. all \in SUBSET Node /\ top \cup (all \cap Note) \in SUBSET all
    BY <2>1, SubtreeInNode
  <2> QED BY <2>2, RemovingLetsGo
<1>11. CASE DrainQueue
  BY <1>11, DrainingKeeps
<1>12. CASE OthersDelete
  <2>1. posted' \subseteq posted /\ UNCHANGED <<entry, queue, sent, stranded>>
    BY <1>12 DEF OthersDelete
  <2> QED BY <2>1, OthersKeep
<1>13. CASE UNCHANGED bookVars
  BY <1>13, OthersKeep DEF bookVars
<1> QED BY <1>1, <1>2, <1>3, <1>4, <1>5, <1>6, <1>7, <1>8, <1>9, <1>10, <1>11, <1>12, <1>13
        DEF BookNext

(* A row left behind on the server goes, whatever its user does to the tree  *)
(* and in whatever order the sync sends, deletes and pulls.                  *)
THEOREM NothingIsLeftBehind == BookSpec => []NothingLeftBehind
<1>1. BookInv => NothingLeftBehind
  BY DEF BookInv
<1> QED BY BookBegins, BookSteps, <1>1, PTL DEF BookSpec

(* The recursive query over parents finds what is below, however the rows    *)
(* hang together: each round before the last finds another folder.           *)
ClosedBelow(in, s) == \A x \in DOMAIN in : in[x] \in s => x \in s

LEMMA BelowIsClosed ==
  ASSUME NEW in, NEW places, \A x \in DOMAIN in : in[x] \in DOMAIN in => in[x] \in Collection
  PROVE  /\ places \subseteq Below(in, places) /\ ClosedBelow(in, Below(in, places))
         /\ Below(in, places) \subseteq places \cup DOMAIN in
         /\ \A x \in Below(in, places) : x \in places \/ in[x] \in Below(in, places)
<1> DEFINE N == Cardinality(Collection) + 1
           V == SUBSET (places \cup DOMAIN in)
           Next(v) == v \cup {x \in DOMAIN in : in[x] \in v}
           Rounds(r) == r = [i \in 0 .. N |-> IF i = 0 THEN places ELSE Next(r[i - 1])]
<1>1. Cardinality(Collection) \in Nat /\ N \in Nat /\ IsFiniteSet(Collection)
  BY NotebookAssumption, FS_CardinalityType
<1>2. \E r : Rounds(r)
  <2> DEFINE q == [i \in 1 .. N |-> 0]
             G == [p \in V \X {0} |-> Next(p[1])]
  <2>1. q \in Seq({0}) /\ Len(q) = N
    BY <1>1
  <2>2. places \in V /\ G \in [V \X {0} -> V]
    OBVIOUS
  <2>3. PICK r \in [0 .. Len(q) -> V] : IsRun(r, places, G, q)
    BY <2>1, <2>2, RunExists
  <2>4. r = [n \in 0 .. N |-> IF n = 0 THEN places ELSE G[<<r[n - 1], q[n]>>]] /\ r \in [0 .. N -> V]
    BY <2>1, <2>3 DEF IsRun
  <2>5. \A n \in 0 .. N : n # 0 => G[<<r[n - 1], q[n]>>] = Next(r[n - 1])
    <3> TAKE n \in 0 .. N
    <3> HAVE n # 0
    <3>1. n \in 1 .. N /\ n - 1 \in 0 .. N
      BY <1>1
    <3>2. q[n] = 0 /\ r[n - 1] \in V
      BY <2>4, <3>1
    <3> QED BY <3>2
  <2> HIDE DEF G, q
  <2>6. r = [n \in 0 .. N |-> IF n = 0 THEN places ELSE Next(r[n - 1])]
    BY <2>4, <2>5
  <2> QED BY <2>6
<1>3. PICK r : Rounds(r) /\ Below(in, places) = r[N]
  <2> DEFINE R == CHOOSE r : Rounds(r)
  <2>1. Rounds(R)
    BY <1>2
  <2>2. Below(in, places) = R[N]
    BY DEF Below
  <2> QED BY <2>1, <2>2
<1>4. r[0] = places /\ \A i \in Nat : i + 1 <= N => r[i + 1] = Next(r[i])
  <2>1. 0 \in 0 .. N
    BY <1>1
  <2>2. \A i \in Nat : i + 1 <= N => i + 1 \in 0 .. N /\ i + 1 # 0 /\ (i + 1) - 1 = i
    BY <1>1
  <2>3. \A i \in 0 .. N : r[i] = IF i = 0 THEN places ELSE Next(r[i - 1])
    BY <1>3
  <2> HIDE DEF N, Next, Runs
  <2> QED BY <2>1, <2>2, <2>3
<1> DEFINE Good(i) == /\ places \subseteq r[i] /\ r[i] \subseteq places \cup DOMAIN in
                      /\ \A x \in r[i] : x \in places \/ in[x] \in r[i]
                      /\ ClosedBelow(in, r[i]) \/ i <= Cardinality(r[i] \cap Collection)
           Q == {i \in Nat : i <= N => Good(i)}
<1>5. \A s : /\ IsFiniteSet(s \cap Collection) /\ Cardinality(s \cap Collection) \in Nat
             /\ Cardinality(s \cap Collection) <= Cardinality(Collection)
  <2> TAKE s
  <2>1. s \cap Collection \in SUBSET Collection
    OBVIOUS
  <2> QED BY <1>1, <2>1, FS_Subset, FS_CardinalityType
<1>6. 0 \in Q
  <2>1. 0 <= Cardinality(r[0] \cap Collection)
    BY <1>5
  <2> QED BY <1>4, <2>1
<1>7. ASSUME NEW i \in Q PROVE i + 1 \in Q
  <2>1. i \in Nat /\ i + 1 \in Nat
    OBVIOUS
  <2> SUFFICES ASSUME i + 1 <= N PROVE Good(i + 1)
    BY <2>1
  <2>2. i <= N
    BY <1>1, <2>1
  <2>3. r[i + 1] = Next(r[i]) /\ Good(i)
    BY <1>4, <2>1, <2>2
  <2>4. /\ places \subseteq r[i + 1] /\ r[i + 1] \subseteq places \cup DOMAIN in
        /\ \A x \in r[i + 1] : x \in places \/ in[x] \in r[i + 1]
    BY <2>3
  <2>5. ASSUME ~ClosedBelow(in, r[i + 1])
        PROVE  i + 1 <= Cardinality(r[i + 1] \cap Collection)
    <3>1. PICK x \in DOMAIN in : in[x] \in r[i + 1] /\ x \notin r[i + 1]
      BY <2>5 DEF ClosedBelow
    <3>2. in[x] \notin r[i] /\ in[x] \in DOMAIN in /\ in[x] \in Collection
      BY <2>3, <3>1
    <3>3. ~ClosedBelow(in, r[i])
      <4>1. in[x] \in {y \in DOMAIN in : in[y] \in r[i]}
        BY <2>3, <3>1, <3>2
      <4> QED BY <3>2, <4>1 DEF ClosedBelow
    <3>4. i <= Cardinality(r[i] \cap Collection)
      BY <2>3, <3>3
    <3> DEFINE c == r[i] \cap Collection
               d == r[i + 1] \cap Collection
    <3>5. c \cup {in[x]} \in SUBSET d /\ in[x] \notin c
      BY <2>3, <3>1, <3>2
    <3>6. IsFiniteSet(c) /\ IsFiniteSet(d) /\ Cardinality(c) \in Nat /\ Cardinality(d) \in Nat
      BY <1>5
    <3>7. Cardinality(c \cup {in[x]}) = Cardinality(c) + 1
      BY <3>5, <3>6, FS_AddElement
    <3>8. Cardinality(c \cup {in[x]}) <= Cardinality(d)
      BY <3>5, <3>6, FS_Subset
    <3> QED BY <2>1, <3>4, <3>6, <3>7, <3>8
  <2> QED BY <2>4, <2>5
<1>8. Q = Nat
  <2> HIDE DEF Q
  <2>1. Q \in SUBSET Nat
    BY DEF Q
  <2> QED BY <1>6, <1>7, <2>1, CountInduction
<1>9. Good(N)
  <2>1. \A i \in Nat : i \in Q
    BY <1>8
  <2>2. N \in Nat /\ N <= N
    BY <1>1
  <2> HIDE DEF N, Good
  <2> QED BY <2>1, <2>2
<1>10. ClosedBelow(in, r[N])
  <2>1. Cardinality(r[N] \cap Collection) <= Cardinality(Collection) /\ Cardinality(r[N] \cap Collection) \in Nat
    BY <1>5
  <2> QED BY <1>1, <1>9, <2>1
<1> QED BY <1>3, <1>9, <1>10

(* A folder's or note's parent is there, and the root of a share is there    *)
(* and keeps its own space.                                                  *)
ParentsAreThere == anchors \subseteq Collection \cap There /\ \A x \in There : entry[x].in \in Place
AnchorsKeepScope == \A f \in anchors \ crossed : entry[f].scope = f
ScopesInv == ParentsAreThere /\ AnchorsKeepScope /\ ScopesFollowFolders

LEMMA RowsBelowAreClosed ==
  ASSUME ParentsAreThere, NEW places
  PROVE  /\ RowsBelow(places) \subseteq There /\ places \cap There \subseteq RowsBelow(places)
         /\ \A x \in There : entry[x].in \in places \cup RowsBelow(places) => x \in RowsBelow(places)
         /\ \A x \in RowsBelow(places) : x \in places \/ entry[x].in \in places \cup RowsBelow(places)
<1> DEFINE in == [y \in There |-> entry[y].in]
<1>1. \A x \in There : in[x] = entry[x].in
  OBVIOUS
<1>2. DOMAIN in = There
  OBVIOUS
<1>3. \A x \in DOMAIN in : in[x] \in DOMAIN in => in[x] \in Collection
  <2> SUFFICES ASSUME NEW x \in There, entry[x].in \in There PROVE entry[x].in \in Collection
    BY <1>1, <1>2
  <2>1. entry[x].in \in {"root", "trash"} \cup (Collection \cap There)
    BY DEF ParentsAreThere, Place
  <2>2. "root" \notin Node /\ "trash" \notin Node
    BY NotebookAssumption DEF Node
  <2> QED BY <2>1, <2>2 DEF There
<1>4. RowsBelow(places) = There \cap Below(in, places)
  BY DEF RowsBelow
<1> HIDE DEF in
<1>5. /\ places \subseteq Below(in, places)
      /\ \A x \in There : in[x] \in Below(in, places) => x \in Below(in, places)
      /\ Below(in, places) \subseteq places \cup There
      /\ \A x \in Below(in, places) : x \in places \/ in[x] \in Below(in, places)
  BY <1>2, <1>3, BelowIsClosed DEF ClosedBelow
<1> QED BY <1>1, <1>4, <1>5

LEMMA SubtreeIsClosed ==
  ASSUME ParentsAreThere, NEW x \in There
  PROVE  /\ Subtree(x) \subseteq There /\ x \in Subtree(x)
         /\ \A y \in There : entry[y].in \in Subtree(x) => y \in Subtree(x)
         /\ \A y \in Subtree(x) : y = x \/ entry[y].in \in Subtree(x)
BY RowsBelowAreClosed DEF Subtree

InItsPlace(x) == entry[x].in = "trash" \/ entry[x].scope = IF x \in anchors THEN x ELSE ScopeOf(entry[x].in)

(* A row moves, is restored, trashed, made or sent, and nothing below it     *)
(* changes.                                                                  *)
LEMMA OneRowChanges ==
  ASSUME ScopesInv, Typed, NEW x \in Node, NEW q \in Row, entry' = [entry EXCEPT ![x] = q],
         q.in \in Place, UNCHANGED <<anchors, crossed>>,
         x \notin There \/ q.scope = entry[x].scope,
         q.in = "trash" \/ x \in crossed \/ q.scope = (IF x \in anchors THEN x ELSE ScopeOf(q.in))
  PROVE  ScopesInv'
<1>1. entry \in [Node -> Row] /\ entry'[x] = q /\ \A y \in Node : y # x => entry'[y] = entry[y]
  BY DEF Typed
<1>2. "none" \notin Place
  BY NotebookAssumption DEF Place, Node
<1>3. There' = There \cup {x}
  BY <1>1, <1>2 DEF There
<1>4. \A p \in Place : p \in Place'
  BY <1>3 DEF Place
<1>5. \A p \in Place : ScopeOf(p) = IF p \in Collection THEN entry'[p].scope ELSE "vault"
  <2> SUFFICES ASSUME NEW p \in Place, p \in Collection PROVE entry'[p].scope = entry[p].scope
    BY DEF ScopeOf
  <2>1. p \in Node /\ p \in There
    BY NotebookAssumption DEF Place, Node
  <2> QED BY <1>1, <2>1
<1>6. \A y \in There : entry[y].in \in Place
  BY DEF ScopesInv, ParentsAreThere
<1>7. ParentsAreThere'
  BY <1>1, <1>3, <1>4 DEF ScopesInv, ParentsAreThere
<1>8. AnchorsKeepScope'
  BY <1>1 DEF ScopesInv, ParentsAreThere, AnchorsKeepScope, There
<1>9. ScopesFollowFolders'
  <2> SUFFICES ASSUME NEW y \in There', y \notin crossed
               PROVE  InItsPlace(y)'
    BY DEF ScopesFollowFolders, InItsPlace
  <2>1. CASE y = x
    <3>1. ScopeOf(q.in) = IF q.in \in Collection THEN entry'[q.in].scope ELSE "vault"
      BY <1>5
    <3> QED BY <1>1, <2>1, <3>1 DEF InItsPlace, ScopeOf
  <2>2. CASE y # x
    <3>1. y \in There /\ entry'[y] = entry[y] /\ InItsPlace(y)
      BY <1>1, <1>3, <2>2 DEF ScopesInv, ScopesFollowFolders, There, InItsPlace
    <3>2. ScopeOf(entry[y].in) = IF entry[y].in \in Collection THEN entry'[entry[y].in].scope ELSE "vault"
      BY <1>5, <1>6, <3>1
    <3> QED BY <3>1, <3>2 DEF InItsPlace, ScopeOf
  <2> QED BY <2>1, <2>2
<1> QED BY <1>7, <1>8, <1>9 DEF ScopesInv

(* A row moves into another space, with everything below it.                 *)
LEMMA RehomedKeeps ==
  ASSUME ScopesInv, Typed, NEW x \in There, NEW q \in Row, NEW s \in Scopes,
         q.in \in Place,
         entry' = [y \in Node |-> IF y \in Subtree(x) THEN RehomedRow(IF y = x THEN q ELSE entry[y], s)
                                  ELSE entry[y]],
         anchors' \subseteq Collection \cap There, anchors' \ {x} = anchors \ {x},
         crossed \cup ((anchors \cap Subtree(x)) \ {x}) \subseteq crossed',
         x \in anchors' \ crossed' => s = x,
         x \in crossed' \/ q.in = "trash" \/ x \in anchors'
           \/ s = (IF q.in \in Subtree(x) THEN s ELSE ScopeOf(q.in))
  PROVE  ScopesInv'
<1>1. /\ x \in Subtree(x) /\ Subtree(x) \subseteq There
      /\ \A y \in There : entry[y].in \in Subtree(x) => y \in Subtree(x)
      /\ \A y \in Subtree(x) : y = x \/ entry[y].in \in Subtree(x)
  BY SubtreeIsClosed DEF ScopesInv
<1>2. entry \in [Node -> Row] /\ There \subseteq Node /\ x \in Node
  BY DEF Typed, There
<1>3. /\ \A y \in Node \ Subtree(x) : entry'[y] = entry[y]
      /\ \A y \in Subtree(x) \ {x} : entry'[y].in = entry[y].in /\ entry'[y].scope = s
      /\ entry'[x].in = q.in /\ entry'[x].scope = s
  <2>1. \A y \in Node \ Subtree(x) : entry'[y] = entry[y]
    OBVIOUS
  <2>2. entry'[x] = RehomedRow(q, s)
    BY <1>1, <1>2
  <2>3. \A y \in Subtree(x) \ {x} : entry'[y] = RehomedRow(entry[y], s) /\ entry[y] \in Row
    BY <1>1, <1>2
  <2>4. \A r \in Row : RehomedRow(r, s).in = r.in /\ RehomedRow(r, s).scope = s
    BY DEF RehomedRow, Row
  <2> QED BY <2>1, <2>2, <2>3, <2>4
<1>4. "none" \notin Place
  BY NotebookAssumption DEF Place, Node
<1>5. There' = There
  <2>1. \A y \in Node : entry'[y].in = "none" <=> entry[y].in = "none"
    BY <1>1, <1>3, <1>4 DEF There
  <2> QED BY <2>1 DEF There
<1>6. Place' = Place
  BY <1>5 DEF Place
<1>7. ParentsAreThere'
  <2>1. \A y \in There : entry'[y].in \in Place
    BY <1>2, <1>3 DEF ScopesInv, ParentsAreThere
  <2> QED BY <1>5, <1>6, <2>1 DEF ParentsAreThere
<1>8. \A y \in Subtree(x) \ {x} : y \in anchors => y \in crossed'
  OBVIOUS
<1>9. AnchorsKeepScope'
  <2> SUFFICES ASSUME NEW f \in anchors', f \notin crossed' PROVE entry'[f].scope = f
    BY DEF AnchorsKeepScope
  <2>1. CASE f = x
    BY <1>3, <2>1
  <2>2. CASE f # x
    <3>1. f \in anchors \ crossed /\ f \in Node /\ f \notin Subtree(x)
      BY <1>2, <1>8, <2>2
    <3> QED BY <1>3, <3>1 DEF ScopesInv, AnchorsKeepScope
  <2> QED BY <2>1, <2>2
<1>10. ScopesFollowFolders'
  <2> SUFFICES ASSUME NEW y \in There, y \notin crossed'
               PROVE  InItsPlace(y)'
    BY <1>5 DEF ScopesFollowFolders, InItsPlace
  <2>1. CASE y = x
    <3>1. CASE q.in = "trash" \/ x \in anchors'
      BY <1>3, <2>1, <3>1 DEF InItsPlace
    <3>2. CASE q.in \in Subtree(x) /\ ~(q.in = "trash" \/ x \in anchors')
      <4>1. q.in \in Collection /\ entry'[q.in].scope = s
        <5>1. q.in \in {"root", "trash"} \cup Collection /\ q.in \in Node
          BY <1>1, <1>2, <3>2 DEF Place
        <5>2. "root" \notin Node /\ "trash" \notin Node
          BY NotebookAssumption DEF Node
        <5> QED BY <1>3, <3>2, <5>1, <5>2
      <4> QED BY <1>3, <2>1, <3>2, <4>1 DEF InItsPlace, ScopeOf
    <3>3. CASE q.in \notin Subtree(x) /\ ~(q.in = "trash" \/ x \in anchors')
      <4>1. s = ScopeOf(q.in)
        BY <2>1, <3>3
      <4>2. q.in \in Collection => entry'[q.in] = entry[q.in]
        BY <1>3, <3>3 DEF Node
      <4> QED BY <1>3, <2>1, <3>3, <4>1, <4>2 DEF InItsPlace, ScopeOf
    <3> QED BY <3>1, <3>2, <3>3
  <2>2. CASE y \in Subtree(x) \ {x}
    <3>1. y \notin anchors' /\ entry[y].in \in Subtree(x) /\ entry'[y].in = entry[y].in /\ entry'[y].scope = s
      BY <1>1, <1>3, <1>8, <2>2
    <3>2. entry[y].in \in Collection
      <4>1. entry[y].in \in {"root", "trash"} \cup Collection /\ entry[y].in \in Node
        BY <1>1, <1>2, <3>1 DEF ScopesInv, ParentsAreThere, Place
      <4>2. "root" \notin Node /\ "trash" \notin Node
        BY NotebookAssumption DEF Node
      <4> QED BY <4>1, <4>2
    <3>3. entry'[entry[y].in].scope = s
      BY <1>3, <3>1
    <3> QED BY <3>1, <3>2, <3>3 DEF InItsPlace, ScopeOf
  <2>3. CASE y \notin Subtree(x)
    <3>1. entry'[y] = entry[y] /\ (y \in anchors' <=> y \in anchors) /\ entry[y].in \notin Subtree(x) /\ y \in Node
      BY <1>1, <1>2, <1>3, <2>3
    <3>2. entry[y].in \in Collection => entry'[entry[y].in] = entry[entry[y].in]
      BY <1>3, <3>1 DEF Node
    <3>3. InItsPlace(y)
      BY DEF ScopesInv, ScopesFollowFolders, InItsPlace
    <3> QED BY <3>1, <3>2, <3>3 DEF InItsPlace, ScopeOf
  <2> QED BY <2>1, <2>2, <2>3
<1> QED BY <1>7, <1>9, <1>10 DEF ScopesInv

(* Rows go, with everything below them.                                      *)
LEMMA RemovedKeeps ==
  ASSUME ScopesInv, Typed, NEW xs, \A y \in There : entry[y].in \in xs => y \in xs,
         entry' = [y \in Node |-> IF y \in xs THEN Absent ELSE entry[y]],
         anchors' = anchors \ xs, crossed' = crossed
  PROVE  ScopesInv'
<1>1. entry \in [Node -> Row] /\ There \subseteq Node /\ Absent.in = "none"
  BY DEF Typed, There, Absent
<1>2. \A y \in Node : y \notin xs => entry'[y] = entry[y]
  OBVIOUS
<1>3. There' = There \ xs
  BY <1>1 DEF There
<1>4. \A y \in There \ xs : entry[y].in \in Place' /\ entry[y].in \notin xs
  BY <1>3 DEF ScopesInv, ParentsAreThere, Place
<1>5. ParentsAreThere'
  BY <1>1, <1>2, <1>3, <1>4 DEF ScopesInv, ParentsAreThere
<1>6. AnchorsKeepScope'
  BY <1>1, <1>2 DEF ScopesInv, ParentsAreThere, AnchorsKeepScope
<1>7. ScopesFollowFolders'
  <2> SUFFICES ASSUME NEW y \in There \ xs, y \notin crossed PROVE InItsPlace(y)'
    BY <1>3 DEF ScopesFollowFolders, InItsPlace
  <2>1. InItsPlace(y) /\ entry'[y] = entry[y] /\ (y \in anchors' <=> y \in anchors)
    BY <1>1, <1>2 DEF ScopesInv, ScopesFollowFolders, InItsPlace
  <2>2. entry[y].in \in Collection => entry'[entry[y].in] = entry[entry[y].in]
    BY <1>2, <1>4 DEF Node
  <2> QED BY <2>1, <2>2 DEF InItsPlace, ScopeOf
<1> QED BY <1>5, <1>6, <1>7 DEF ScopesInv

LEMMA RootsAreCrossed ==
  ASSUME ParentsAreThere, NEW x \in There
  PROVE  (anchors \cap Subtree(x)) \ {x} \subseteq CrossedWith(x)
<1> SUFFICES ASSUME NEW y \in (anchors \cap Subtree(x)) \ {x} PROVE y \in CrossedWith(x)
  OBVIOUS
<1>1. y \in Subtree(y)
  BY SubtreeIsClosed DEF ParentsAreThere
<1> QED BY <1>1 DEF CrossedWith

LEMMA MovingKeepsScopes ==
  ASSUME ScopesInv, Typed, NEW x \in There, NEW to \in Place, to \notin Subtree(x), MovedTo(x, to), UNCHANGED anchors
  PROVE  ScopesInv'
<1> DEFINE from == IF to = "trash" /\ entry[x].in # "trash" THEN entry[x].in ELSE entry[x].from
<1>1. x \in Node /\ entry[x] \in Row /\ entry \in [Node -> Row]
  BY DEF There, Typed
<1>2. PICK q : q = [entry[x] EXCEPT !.in = to, !.dirty = TRUE, !.from = from]
  OBVIOUS
<1>3. q \in Row /\ q.in = to /\ q.scope = entry[x].scope
  <2>1. to \in Places /\ from \in Places
    BY <1>1, PlacesAreTyped DEF Row
  <2> QED BY <1>1, <1>2, <2>1 DEF Row
<1>4. PlacedIn(x, to) = [entry EXCEPT ![x] = q]
  BY <1>2 DEF PlacedIn
<1>5. CASE x \notin anchors /\ entry[x].scope # ScopeOf(to)
  <2>1. Rehomed(PlacedIn(x, to), x, ScopeOf(to)) /\ crossed' = crossed \cup CrossedWith(x)
    BY <1>5 DEF MovedTo
  <2>2. entry' = [y \in Node |-> IF y \in Subtree(x) THEN RehomedRow(IF y = x THEN q ELSE entry[y], ScopeOf(to))
                                  ELSE entry[y]]
    <3>1. entry' = [y \in Node |-> IF y \in Subtree(x) THEN RehomedRow(PlacedIn(x, to)[y], ScopeOf(to)) ELSE PlacedIn(x, to)[y]]
      BY <2>1 DEF Rehomed, RehomedRow
    <3>2. \A y \in Node : PlacedIn(x, to)[y] = IF y = x THEN q ELSE entry[y]
      BY <1>1, <1>4
    <3>3. x \in Subtree(x)
      BY <1>1, SubtreeInNode
    <3> QED BY <3>1, <3>2, <3>3
  <2>3. ScopeOf(to) \in Scopes
    BY PlacesAreTyped
  <2>4. crossed \cup ((anchors \cap Subtree(x)) \ {x}) \subseteq crossed'
    BY <2>1, RootsAreCrossed DEF ScopesInv
  <2>5. anchors \subseteq Collection \cap There
    BY DEF ScopesInv, ParentsAreThere
  <2> QED BY <1>3, <1>5, <2>2, <2>3, <2>4, <2>5, RehomedKeeps
<1>6. CASE ~(x \notin anchors /\ entry[x].scope # ScopeOf(to))
  <2>1. entry' = [entry EXCEPT ![x] = q] /\ UNCHANGED <<anchors, crossed>>
    BY <1>4, <1>6 DEF MovedTo
  <2>2. x \in crossed \/ q.scope = (IF x \in anchors THEN x ELSE ScopeOf(q.in))
    BY <1>3, <1>6 DEF ScopesInv, AnchorsKeepScope
  <2> QED BY <1>1, <1>3, <2>1, <2>2, OneRowChanges
<1> QED BY <1>5, <1>6

LEMMA RestoringIsAMove ==
  ASSUME ScopesInv, NEW x \in There
  PROVE  RestoreTarget(x) \in Place /\ RestoreTarget(x) \notin Subtree(x)
<1>1. "root" \notin Node /\ Subtree(x) \subseteq Node
  BY NotebookAssumption, SubtreeInNode DEF Node, There
<1> QED BY <1>1 DEF RestoreTarget, Place

LEMMA ChangingOwnRow ==
  ASSUME ScopesInv, Typed, NEW x \in There, NEW q \in Row, entry' = [entry EXCEPT ![x] = q],
         UNCHANGED <<anchors, crossed>>, q.scope = entry[x].scope, q.in = entry[x].in
  PROVE  ScopesInv'
<1>1. x \in Node /\ q.in \in Place
  BY DEF ScopesInv, ParentsAreThere, There
<1>2. q.in = "trash" \/ x \in crossed \/ q.scope = (IF x \in anchors THEN x ELSE ScopeOf(q.in))
  BY DEF ScopesInv, ScopesFollowFolders
<1> QED BY <1>1, <1>2, OneRowChanges

LEMMA ClosedRemoval ==
  ASSUME ScopesInv, Typed, NEW xs, NEW announced, \A y \in There : entry[y].in \in xs => y \in xs,
         Removed(xs, announced)
  PROVE  ScopesInv'
BY RemovedKeeps DEF Removed

LEMMA ScopesBegin == BookInit => ScopesInv
BY DEF BookInit, ScopesInv, ParentsAreThere, AnchorsKeepScope, ScopesFollowFolders, There, Absent

LEMMA ScopesGoOn ==
  ASSUME ScopesInv, Typed, [BookNext]_bookVars
  PROVE  ScopesInv'
<1>0. entry \in [Node -> Row] /\ There \subseteq Node
  BY DEF Typed, There
<1>1. ASSUME NEW x \in Node, CreateRow(x) PROVE ScopesInv'
  <2>1. PICK to \in Place \ {"trash"} :
          /\ x \notin There
          /\ entry' = [entry EXCEPT ![x] = [Absent EXCEPT !.in = to, !.scope = ScopeOf(to), !.dirty = TRUE]]
          /\ UNCHANGED <<anchors, crossed>>
    BY <1>1 DEF CreateRow
  <2>2. PICK q : q = [Absent EXCEPT !.in = to, !.scope = ScopeOf(to), !.dirty = TRUE]
    OBVIOUS
  <2>3. q \in Row /\ q.in = to /\ q.scope = ScopeOf(to)
    <3>1. to \in Places /\ ScopeOf(to) \in Scopes /\ "root" \in Places
      BY PlacesAreTyped DEF Places
    <3> QED BY <2>2, <3>1 DEF Absent, Row
  <2>4. x \notin anchors
    BY <2>1 DEF ScopesInv, ParentsAreThere
  <2> QED BY <2>1, <2>2, <2>3, <2>4, OneRowChanges
<1>2. ASSUME NEW x \in Node, MoveRow(x) PROVE ScopesInv'
  BY <1>2, MovingKeepsScopes DEF MoveRow, MayHold
<1>3. ASSUME NEW x \in Node, RestoreRow(x) PROVE ScopesInv'
  BY <1>3, MovingKeepsScopes, RestoringIsAMove DEF RestoreRow
<1>4. ASSUME NEW n \in Note, TrashNote(n) PROVE ScopesInv'
  <2>1. n \in There /\ n \in Node /\ entry' = PlacedIn(n, "trash") /\ UNCHANGED <<anchors, crossed>>
    BY <1>4, <1>0 DEF TrashNote
  <2>2. "trash" \in Place
    BY DEF Place
  <2>3. PICK q : q = PlacedIn(n, "trash")[n]
    OBVIOUS
  <2>4. q \in Row /\ q.scope = entry[n].scope /\ PlacedIn(n, "trash") \in [Node -> Row]
    BY <2>1, <2>2, <2>3, PlacedInTyped
  <2>5. PlacedIn(n, "trash") = [entry EXCEPT ![n] = q] /\ q.in = "trash"
    BY <1>0, <2>1, <2>3 DEF PlacedIn, Row
  <2> QED BY <2>1, <2>2, <2>4, <2>5, OneRowChanges
<1>5. ASSUME NEW x \in Node, Purge(x) PROVE ScopesInv'
  BY <1>5, SubtreeIsClosed, ClosedRemoval DEF Purge, ScopesInv
<1>6. ASSUME NEW x \in Node, SendRow(x) PROVE ScopesInv'
  <2>1. /\ x \in There /\ UNCHANGED <<anchors, crossed>>
        /\ \E u \in Nat : entry' = [entry EXCEPT ![x] = NumberedRow(@, u)]
    <3>1. /\ x \in There /\ UNCHANGED <<anchors, crossed>>
          /\ entry' = [entry EXCEPT ![x].uid = sent + 1, ![x].dirty = FALSE] \/ entry' = [entry EXCEPT ![x].dirty = FALSE]
      BY <1>6 DEF SendRow
    <3>2. sent \in Nat /\ entry[x] \in Row
      BY <1>6 DEF Typed
    <3>3. CASE entry' = [entry EXCEPT ![x].uid = sent + 1, ![x].dirty = FALSE]
      <4>1. PICK u \in Nat : u = sent + 1
        BY <3>2
      <4>2. entry' = [entry EXCEPT ![x].uid = u, ![x].dirty = FALSE]
        BY <3>3, <4>1
      <4>3. NumberedRow(entry[x], u) = [entry[x] EXCEPT !.uid = u, !.dirty = FALSE]
        BY DEF NumberedRow
      <4>4. entry' \in [Node -> Row] /\ entry'[x] = NumberedRow(entry[x], u) /\ \A y \in Node \ {x} : entry'[y] = entry[y]
        <5>1. entry' = [y \in Node |-> IF y = x THEN NumberedRow(entry[x], u) ELSE entry[y]]
          BY <1>0, <4>2 DEF NumberedRow
        <5>2. NumberedRow(entry[x], u) \in Row
          BY <3>2, <4>1, FieldsOfNumbered
        <5>3. PICK q \in Row : q = NumberedRow(entry[x], u)
          BY <5>2
        <5>4. entry' = [y \in Node |-> IF y = x THEN q ELSE entry[y]]
          BY <5>1, <5>3
        <5> QED BY <1>0, <5>3, <5>4
      <4>5. entry' = [entry EXCEPT ![x] = NumberedRow(entry[x], u)]
        BY <1>0, <1>6, <4>4
      <4> QED BY <3>1, <4>5
    <3>4. CASE entry' = [entry EXCEPT ![x].dirty = FALSE]
      <4>1. NumberedRow(entry[x], entry[x].uid) = [entry[x] EXCEPT !.dirty = FALSE] /\ entry[x].uid \in Nat
        BY <3>2 DEF NumberedRow, Row
      <4> QED BY <1>0, <1>6, <3>1, <3>4, <4>1
    <3> QED BY <3>1, <3>3, <3>4
  <2>2. PICK u \in Nat : entry' = [entry EXCEPT ![x] = NumberedRow(entry[x], u)]
    BY <1>0, <2>1
  <2>3. entry[x] \in Row
    BY <1>0, <1>6
  <2> QED BY <2>1, <2>2, <2>3, FieldsOfNumbered, ChangingOwnRow
<1>7. ASSUME NEW x \in Node, PullDelete(x) PROVE ScopesInv'
  <2>1. x \in There /\ entry[x] \in Row
    BY <1>0, <1>7 DEF PullDelete
  <2>2. CASE entry[x].dirty
    <3>1. entry' = [entry EXCEPT ![x].uid = 0] /\ UNCHANGED <<anchors, crossed>>
      BY <1>7, <2>2 DEF PullDelete
    <3>2. entry' = [entry EXCEPT ![x] = FreedRow(entry[x])]
      BY <1>0, <3>1 DEF FreedRow
    <3>3. FreedRow(entry[x]) \in Row /\ FreedRow(entry[x]).in = entry[x].in /\ FreedRow(entry[x]).scope = entry[x].scope
      BY <2>1 DEF FreedRow, Row
    <3> QED BY <2>1, <3>1, <3>2, <3>3, ChangingOwnRow
  <2>3. CASE ~entry[x].dirty
    <3>1. Removed(Subtree(x), {})
      BY <1>7, <2>3 DEF PullDelete
    <3> QED BY <2>1, <3>1, SubtreeIsClosed, ClosedRemoval DEF ScopesInv
  <2> QED BY <2>2, <2>3
<1>8. ASSUME NEW f \in Collection, Share(f) PROVE ScopesInv'
  <2>1. /\ f \in There /\ Rehomed(entry, f, f) /\ crossed' = crossed \cup CrossedWith(f)
        /\ anchors' = anchors \cup {f} /\ entry[f] \in Row
    BY <1>0, <1>8 DEF Share
  <2>2. entry' = [y \in Node |-> IF y \in Subtree(f) THEN RehomedRow(IF y = f THEN entry[f] ELSE entry[y], f)
                                 ELSE entry[y]]
    BY <2>1 DEF Rehomed, RehomedRow
  <2>3. f \in Scopes /\ entry[f].in \in Place
    BY <2>1 DEF Scopes, ScopesInv, ParentsAreThere
  <2>4. anchors' \subseteq Collection \cap There /\ anchors' \ {f} = anchors \ {f} /\ f \in anchors'
    BY <2>1 DEF ScopesInv, ParentsAreThere
  <2>5. crossed \cup ((anchors \cap Subtree(f)) \ {f}) \subseteq crossed'
    BY <2>1, RootsAreCrossed DEF ScopesInv
  <2> QED BY <2>1, <2>2, <2>3, <2>4, <2>5, RehomedKeeps
<1>9. ASSUME NEW f \in Collection, Unshare(f) PROVE ScopesInv'
  <2>1. /\ f \in anchors /\ Rehomed(entry, f, "vault")
        /\ crossed' = crossed \cup (IF ScopeOf(entry[f].in) = "vault" THEN CrossedWith(f) ELSE Subtree(f))
        /\ anchors' = anchors \ {f}
    BY <1>9 DEF Unshare
  <2>2. f \in There /\ entry[f] \in Row /\ entry[f].in \in Place
    BY <1>0, <2>1 DEF ScopesInv, ParentsAreThere
  <2>3. entry' = [y \in Node |-> IF y \in Subtree(f) THEN RehomedRow(IF y = f THEN entry[f] ELSE entry[y], "vault")
                                 ELSE entry[y]]
    BY <2>1 DEF Rehomed, RehomedRow
  <2>4. anchors' \subseteq Collection \cap There /\ anchors' \ {f} = anchors \ {f} /\ f \notin anchors' /\ "vault" \in Scopes
    BY <2>1 DEF ScopesInv, ParentsAreThere, Scopes
  <2>5. f \in Subtree(f)
    BY <2>2, SubtreeIsClosed DEF ScopesInv
  <2>6. crossed \cup ((anchors \cap Subtree(f)) \ {f}) \subseteq crossed' /\ (f \in crossed' \/ ScopeOf(entry[f].in) = "vault")
    BY <2>1, <2>2, <2>5, RootsAreCrossed DEF ScopesInv
  <2> QED BY <2>2, <2>3, <2>4, <2>6, RehomedKeeps
<1>10. CASE EmptyTrash
  <2>1. Removed(InTrash, InTrash)
    BY <1>10 DEF EmptyTrash
  <2>2. \A y \in There : entry[y].in \in InTrash => y \in InTrash
    BY RowsBelowAreClosed DEF InTrash, ScopesInv
  <2> QED BY <2>1, <2>2, ClosedRemoval
<1>11. CASE Sweep
  <2>1. PICK top \in SUBSET There : LET all == UNION {Subtree(x) : x \in top} IN Removed(all, top \cup (all \cap Note))
    BY <1>11 DEF Sweep
  <2> DEFINE all == UNION {Subtree(x) : x \in top}
  <2>2. \A y \in There : entry[y].in \in all => y \in all
    BY SubtreeIsClosed DEF ScopesInv
  <2>3. Removed(all, top \cup (all \cap Note))
    BY <2>1
  <2> HIDE DEF all
  <2> QED BY <2>2, <2>3, ClosedRemoval
<1>12. CASE DrainQueue \/ OthersDelete \/ UNCHANGED bookVars
  <2>1. UNCHANGED <<entry, anchors, crossed>>
    BY <1>12 DEF DrainQueue, OthersDelete, bookVars
  <2> QED BY <2>1 DEF ScopesInv, ParentsAreThere, AnchorsKeepScope, ScopesFollowFolders, There, Place, ScopeOf
<1> QED BY <1>1, <1>2, <1>3, <1>4, <1>5, <1>6, <1>7, <1>8, <1>9, <1>10, <1>11, <1>12 DEF BookNext

(* On every device a folder and everything in it belong to the same space:   *)
(* after any moves, trashings, restores, purges, sharings, answers and       *)
(* deletions received, each row outside the trash is in the space its place  *)
(* gives it, its own if it is the root of a share.  Roots of shares taken    *)
(* into another space, and what was below them, are set aside (crossed).     *)
THEOREM ScopesStayWithFolders == BookSpec => []ScopesFollowFolders
<1>1. BookInit => BookInv /\ ScopesInv
  BY BookBegins, ScopesBegin
<1>2. (BookInv /\ ScopesInv) /\ [BookNext]_bookVars => (BookInv /\ ScopesInv)'
  BY BookSteps, ScopesGoOn DEF BookInv
<1>3. BookInv /\ ScopesInv => ScopesFollowFolders
  BY DEF ScopesInv
<1> QED BY <1>1, <1>2, <1>3, PTL DEF BookSpec
-----------------------------------------------------------------------------
(***************************************************************************)
(* That no window an update closed is forgotten, for any vaults, versions, *)
(* crashes, quits and attempts.                                            *)
(***************************************************************************)
Phase == {"none", "prepared", "installing", "failed", "consumed"}
Recording == [phase : Phase, op : Nat, from : Nat, vaults : SUBSET Profile,
              marked : SUBSET Profile, failures : Nat]
Hosting == [up : BOOLEAN, version : Nat, quitting : {"no", "update", "quit"},
            recovering : BOOLEAN, retry : BOOLEAN]
Restorings == [at : {"idle", "next", "opened", "placed", "aside"}, vault : Profile \cup {"none"},
               found : BOOLEAN, rest : SUBSET Profile, marks : SUBSET Profile]

UpdateTypeOK ==
  /\ record \in Recording
  /\ evidence \subseteq Profile
  /\ windows \in [Profile -> {"closed", "shown", "taken", "bare"}]
  /\ closing \subseteq Profile
  /\ host \in Hosting
  /\ disk \in Nat
  /\ updater \in {"idle", "draining", "closing", "installing", "failing", "lifted"}
  /\ restorer \in Restorings
  /\ restorer.at \in {"opened", "placed"} => restorer.vault \in Profile
  /\ asked \in [updates : Nat, stumbles : Nat]

(* The record, or the file of a session that was set aside, names v as a     *)
(* vault that is not restored.                                               *)
Owed(v) == v \in evidence \/ (Pending /\ v \in record.vaults \ record.marked)

(* A process an update told to close is owed its windows already.            *)
ClosingOwed == \A v \in closing : Owed(v)

(* The thread that installs and the one that restores exclude each other     *)
(* while the first can still change the record, by the fence of one and the  *)
(* flag of the other.                                                        *)
OneAtATime ==
  /\ restorer.at # "idle" => host.recovering
  /\ updater \in {"draining", "closing", "installing", "failing"} =>
       restorer.at = "idle" /\ host.quitting = "update"
  /\ ~host.up => updater = "idle" /\ restorer.at = "idle"

(* What was restored before stays so on record, and the vault whose windows  *)
(* were just placed has them, or is owed them apart from this record.        *)
RestoresTruly ==
  /\ restorer.at # "idle" => restorer.marks \subseteq record.marked
  /\ restorer.at = "placed" =>
       LET v == restorer.vault
       IN \/ v \notin closing /\ windows[v] \in {"shown", "closed"}
          \/ v \in record.marked \/ v \in evidence

OwedInv == UpdateTypeOK /\ WindowsAreOwed /\ ClosingOwed /\ OneAtATime /\ RestoresTruly

(* The steps of the specification, one by one.                               *)
LEMMA UpdateSteps ==
  ASSUME UpdateNext
  PROVE  \/ \E v \in Profile : UserOpens(v) \/ ProcessEnds(v) \/ ProcessCloses(v)
         \/ \E v \in Profile : ProcessStays(v) \/ OpenNext(v)
         \/ BeginUpdate \/ DrainForUpdate \/ MarkInstalling \/ Install \/ UpdateFails
         \/ LiftFence \/ UpdateFailed \/ Restore \/ MarkRestored \/ Consume \/ CountFailure
         \/ GiveUp \/ Activate \/ Start \/ HostCrashes \/ Quit \/ QuitEnds \/ Reinstall
BY DEF UpdateNext

LEMMA UpdateStarts == UpdateInit => OwedInv
<1> SUFFICES ASSUME UpdateInit
             PROVE  OwedInv
  OBVIOUS
<1>1. UpdateTypeOK
  BY DEF UpdateInit, UpdateTypeOK, NothingOwed, Resting, Recording, Hosting, Restorings, Phase
<1>2. WindowsAreOwed /\ ClosingOwed /\ OneAtATime /\ RestoresTruly
  BY DEF UpdateInit, WindowsAreOwed, ClosingOwed, OneAtATime, RestoresTruly, Resting
<1> QED
  BY <1>1, <1>2 DEF OwedInv

(* What the records are that the steps build.                                *)
LEMMA RestingIs ==
  Resting \in Restorings /\ Resting.at = "idle" /\ Resting.marks = {}
BY DEF Resting, Restorings

LEMMA AsideIs ==
  LET aside == [Resting EXCEPT !.at = "aside"]
  IN aside \in Restorings /\ aside.at = "aside" /\ aside.marks = {}
BY DEF Resting, Restorings

LEMMA RestoringIs ==
  ASSUME record \in Recording
  PROVE  /\ Restoring \in Restorings
         /\ Restoring.at = "next" /\ Restoring.marks = record.marked
BY DEF Restoring, Resting, Restorings, Recording

LEMMA NothingOwedIs ==
  NothingOwed \in Recording /\ NothingOwed.phase = "none"
BY DEF NothingOwed, Recording, Phase

LEMMA PreparedIs ==
  ASSUME host \in Hosting, asked \in [updates : Nat, stumbles : Nat], NEW open \in SUBSET Profile
  PROVE  /\ Prepared(open) \in Recording
         /\ Prepared(open).phase = "prepared"
         /\ Prepared(open).vaults = open /\ Prepared(open).marked = {}
BY DEF Prepared, NothingOwed, Recording, Phase, Hosting

LEMMA DownIs ==
  ASSUME host \in Hosting
  PROVE  Down \in Hosting /\ Down.up = FALSE
BY DEF Down, Hosting

-----------------------------------------------------------------------------
LEMMA UpdateKeepsTypes ==
  ASSUME UpdateTypeOK, UpdateNext
  PROVE  UpdateTypeOK'
<1> USE UpdateRecoveryAssumption DEF UpdateTypeOK, Recording, Hosting, Restorings, Phase
<1>1. ASSUME NEW v \in Profile, UserOpens(v)
      PROVE  UpdateTypeOK'
  BY <1>1 DEF UserOpens, Started
<1>2. ASSUME NEW v \in Profile, ProcessEnds(v)
      PROVE  UpdateTypeOK'
  BY <1>2 DEF ProcessEnds, Exited
<1>3. ASSUME NEW v \in Profile, ProcessCloses(v)
      PROVE  UpdateTypeOK'
  BY <1>3 DEF ProcessCloses
<1>4. ASSUME NEW v \in Profile, ProcessStays(v)
      PROVE  UpdateTypeOK'
  BY <1>4 DEF ProcessStays
<1>5. ASSUME NEW v \in Profile, OpenNext(v)
      PROVE  UpdateTypeOK'
  <2>0. Started(v) \in [Profile -> {"closed", "shown", "taken", "bare"}]
    BY DEF Started
  <2>1. windows' \in [Profile -> {"closed", "shown", "taken", "bare"}]
    BY <1>5, <2>0 DEF OpenNext
  <2>2. restorer' \in Restorings /\ restorer'.vault \in Profile
    <3>1. Runs(v) \in BOOLEAN
      BY DEF Runs
    <3>2. \A f \in BOOLEAN :
            LET r == [restorer EXCEPT !.at = "opened", !.vault = v, !.found = f]
            IN r \in Restorings /\ r.vault = v
      OBVIOUS
    <3> QED
      BY <1>5, <3>1, <3>2 DEF OpenNext
  <2> QED
    BY <1>5, <2>1, <2>2 DEF OpenNext
<1>6. ASSUME BeginUpdate
      PROVE  UpdateTypeOK'
  BY <1>6 DEF BeginUpdate
<1>7. ASSUME DrainForUpdate
      PROVE  UpdateTypeOK'
  <2>1. {v \in Profile : Runs(v)} \in SUBSET Profile
    OBVIOUS
  <2>2. record' \in Recording /\ closing' \subseteq Profile
    BY <1>7, <2>1, PreparedIs DEF DrainForUpdate
  <2> QED
    BY <1>7, <2>2 DEF DrainForUpdate
<1>8. ASSUME MarkInstalling
      PROVE  UpdateTypeOK'
  BY <1>8 DEF MarkInstalling
<1>9. ASSUME Install
      PROVE  UpdateTypeOK'
  <2>1. host' \in Hosting
    BY <1>9, DownIs DEF Install
  <2>2. disk' \in Nat
    BY <1>9 DEF Install, Replaced
  <2> QED
    BY <1>9, <2>1, <2>2 DEF Install
<1>10. ASSUME UpdateFails
      PROVE  UpdateTypeOK'
  BY <1>10 DEF UpdateFails, Replaced
<1>11. ASSUME LiftFence
      PROVE  UpdateTypeOK'
  BY <1>11 DEF LiftFence
<1>12. ASSUME UpdateFailed
      PROVE  UpdateTypeOK'
  <2>0. [record EXCEPT !.phase = "failed"] \in Recording /\ [host EXCEPT !.recovering = TRUE] \in Hosting
    OBVIOUS
  <2>1. record' \in Recording /\ host' \in Hosting
    BY <1>12, <2>0 DEF UpdateFailed
  <2>2. restorer' \in Restorings /\ (restorer' = restorer \/ restorer'.at = "next")
    BY <1>12, RestoringIs DEF UpdateFailed
  <2> QED
    BY <1>12, <2>1, <2>2 DEF UpdateFailed
<1>13. ASSUME Restore
      PROVE  UpdateTypeOK'
  BY <1>13 DEF Restore, Placed
<1>14. ASSUME MarkRestored
      PROVE  UpdateTypeOK'
  BY <1>14 DEF MarkRestored
<1>15. ASSUME Consume
      PROVE  UpdateTypeOK'
  BY <1>15, RestingIs DEF Consume, Finished
<1>16. ASSUME CountFailure
      PROVE  UpdateTypeOK'
  <2>1. restorer' \in Restorings /\ restorer'.at \in {"idle", "aside"}
    BY <1>16, RestingIs, AsideIs DEF CountFailure
  <2>2. record' \in Recording
    BY <1>16 DEF CountFailure
  <2>3. [host EXCEPT !.recovering = FALSE, !.retry = TRUE] \in Hosting
    OBVIOUS
  <2>4. host' \in Hosting
    BY <1>16, <2>3 DEF CountFailure
  <2> QED
    BY <1>16, <2>1, <2>2, <2>4 DEF CountFailure
<1>17. ASSUME GiveUp
      PROVE  UpdateTypeOK'
  BY <1>17, NothingOwedIs, RestingIs DEF GiveUp, SetAside, Finished
<1>18. ASSUME Activate
      PROVE  UpdateTypeOK'
  <2>1. host' \in Hosting
    BY <1>18, ZenonT(60) DEF Activate
  <2>2. restorer' \in Restorings /\ (restorer' = restorer \/ restorer'.at = "next")
    BY <1>18, RestoringIs DEF Activate
  <2> QED
    BY <1>18, <2>1, <2>2 DEF Activate
<1>19. ASSUME Start
      PROVE  UpdateTypeOK'
  <2>1. host' \in Hosting
    BY <1>19 DEF Start, MayResume, Pending
  <2>2. restorer' \in Restorings /\ restorer'.at \in {"next", "idle"}
    BY <1>19, RestoringIs, RestingIs DEF Start
  <2>3. record' \in Recording /\ evidence' \subseteq Profile
    BY <1>19, NothingOwedIs DEF Start, SetAside
  <2> QED
    BY <1>19, <2>1, <2>2, <2>3 DEF Start
<1>20. ASSUME HostCrashes
      PROVE  UpdateTypeOK'
  <2>1. host' \in Hosting /\ restorer' \in Restorings /\ restorer'.at = "idle"
    BY <1>20, DownIs, RestingIs DEF HostCrashes
  <2>2. asked' \in [updates : Nat, stumbles : Nat]
    BY <1>20 DEF HostCrashes, Stumble
  <2> QED
    BY <1>20, <2>1, <2>2 DEF HostCrashes
<1>21. ASSUME Quit
      PROVE  UpdateTypeOK'
  BY <1>21 DEF Quit, Stumble
<1>22. ASSUME QuitEnds
      PROVE  UpdateTypeOK'
  BY <1>22, DownIs DEF QuitEnds
<1>23. ASSUME Reinstall
      PROVE  UpdateTypeOK'
  BY <1>23 DEF Reinstall
<1> HIDE DEF UpdateTypeOK
<1> QED
  BY <1>1, <1>2, <1>3, <1>4, <1>5, <1>6, <1>7, <1>8, <1>9, <1>10, <1>11, <1>12, <1>13, <1>14, <1>15, <1>16, <1>17, <1>18, <1>19, <1>20, <1>21, <1>22, <1>23, UpdateSteps

-----------------------------------------------------------------------------
(* No two threads change the record at a time.                               *)
LEMMA UpdateKeepsApart ==
  ASSUME UpdateTypeOK, OneAtATime, UpdateNext
  PROVE  OneAtATime'
<1> USE DEF OneAtATime
<1> host \in Hosting /\ restorer \in Restorings
  BY DEF UpdateTypeOK
<1>1. ASSUME NEW v \in Profile, UserOpens(v) \/ ProcessEnds(v) \/ ProcessCloses(v) \/ ProcessStays(v)
      PROVE  OneAtATime'
  BY <1>1 DEF UserOpens, ProcessEnds, ProcessCloses, ProcessStays
<1>2. ASSUME NEW v \in Profile, OpenNext(v)
      PROVE  OneAtATime'
  BY <1>2 DEF OpenNext
<1>3. ASSUME BeginUpdate
      PROVE  OneAtATime'
  BY <1>3 DEF BeginUpdate, Hosting
<1>4. ASSUME DrainForUpdate \/ MarkInstalling \/ UpdateFails
      PROVE  OneAtATime'
  BY <1>4 DEF DrainForUpdate, MarkInstalling, UpdateFails
<1>5. ASSUME Install
      PROVE  OneAtATime'
  BY <1>5 DEF Install
<1>6. ASSUME LiftFence
      PROVE  OneAtATime'
  BY <1>6 DEF LiftFence, Hosting
<1>7. ASSUME UpdateFailed
      PROVE  OneAtATime'
  BY <1>7 DEF UpdateFailed, Hosting
<1>8. ASSUME Restore \/ MarkRestored
      PROVE  OneAtATime'
  BY <1>8 DEF Restore, MarkRestored, Restorings
<1>9. ASSUME Consume \/ GiveUp
      PROVE  OneAtATime'
  BY <1>9, RestingIs DEF Consume, GiveUp, Finished, Hosting
<1>10. ASSUME CountFailure
       PROVE  OneAtATime'
  BY <1>10, RestingIs, AsideIs DEF CountFailure, Hosting
<1>11. ASSUME Activate
       PROVE  OneAtATime'
  BY <1>11 DEF Activate, Hosting
<1>12. ASSUME Start
       PROVE  OneAtATime'
  BY <1>12, RestingIs DEF Start, Hosting
<1>13. ASSUME HostCrashes
       PROVE  OneAtATime'
  BY <1>13, RestingIs DEF HostCrashes
<1>14. ASSUME Quit
       PROVE  OneAtATime'
  BY <1>14 DEF Quit, Hosting
<1>15. ASSUME QuitEnds
       PROVE  OneAtATime'
  BY <1>15 DEF QuitEnds, Hosting
<1>16. ASSUME Reinstall
       PROVE  OneAtATime'
  BY <1>16 DEF Reinstall
<1> QED
  BY <1>1, <1>2, <1>3, <1>4, <1>5, <1>6, <1>7, <1>8, <1>9, <1>10, <1>11, <1>12, <1>13, <1>14,
     <1>15, <1>16, UpdateSteps

-----------------------------------------------------------------------------
(* What is owed stays owed.                                                  *)
Promises == WindowsAreOwed /\ ClosingOwed /\ RestoresTruly

(* Steps that leave what is on record alone and take no windows.             *)
LEMMA PromisesKept ==
  ASSUME UpdateTypeOK, Promises, UNCHANGED <<record, evidence>>, closing' \subseteq closing,
         \A u \in Profile : windows'[u] \in {"taken", "bare"} => windows[u] \in {"taken", "bare"},
         restorer'.at # "idle" => restorer'.marks \subseteq record.marked,
         restorer'.at # "placed"
  PROVE  Promises'
BY DEF Promises, WindowsAreOwed, ClosingOwed, RestoresTruly, Owed, Pending

LEMMA UpdateKeepsPromises ==
  ASSUME OwedInv, UpdateNext
  PROVE  Promises'
<1> UpdateTypeOK /\ Promises /\ OneAtATime /\ host \in Hosting /\ restorer \in Restorings
    /\ record \in Recording /\ windows \in [Profile -> {"closed", "shown", "taken", "bare"}]
  BY DEF OwedInv, Promises, UpdateTypeOK
<1>1. ASSUME NEW v \in Profile, UserOpens(v)
      PROVE  Promises'
  <2>1. restorer.at = "idle"
    BY <1>1 DEF UserOpens, OneAtATime
  <2> QED
    BY <1>1, <2>1, PromisesKept DEF UserOpens, Started
<1>2. ASSUME NEW v \in Profile, ProcessEnds(v)
      PROVE  Promises'
  <2>1. \A u \in Profile : /\ windows'[u] \in {"taken", "bare"} => windows[u] \in {"taken", "bare"}
                           /\ windows[u] \in {"shown", "closed"} => windows'[u] \in {"shown", "closed"}
    BY <1>2 DEF ProcessEnds, Exited
  <2>2. restorer'.at = "placed" => restorer.vault \in Profile
    BY <1>2 DEF ProcessEnds, UpdateTypeOK
  <2> QED
    BY <1>2, <2>1, <2>2 DEF ProcessEnds, Promises, WindowsAreOwed, ClosingOwed, RestoresTruly, Owed, Pending
<1>3. ASSUME NEW v \in Profile, ProcessCloses(v)
      PROVE  Promises'
  <2>1. Owed(v) /\ \A u \in Profile \ {v} : windows'[u] = windows[u]
    BY <1>3 DEF ProcessCloses, Promises, ClosingOwed
  <2>2. WindowsAreOwed' /\ ClosingOwed'
    BY <1>3, <2>1 DEF ProcessCloses, Promises, WindowsAreOwed, ClosingOwed, Owed, Pending
  <2>3. restorer.at = "placed" => restorer.vault \in Profile
    BY DEF UpdateTypeOK
  <2>4. RestoresTruly'
    BY <1>3, <2>1, <2>3 DEF ProcessCloses, Promises, RestoresTruly
  <2> QED
    BY <2>2, <2>4 DEF Promises
<1>4. ASSUME NEW v \in Profile, ProcessStays(v)
      PROVE  Promises'
  BY <1>4 DEF ProcessStays, Promises, WindowsAreOwed, ClosingOwed, RestoresTruly, Owed, Pending
<1>5. ASSUME NEW v \in Profile, OpenNext(v)
      PROVE  Promises'
  <2>1. restorer'.at = "opened" /\ restorer'.marks = restorer.marks
    BY <1>5 DEF OpenNext, Restorings
  <2>2. \A u \in Profile : windows'[u] \in {"taken", "bare"} => windows[u] \in {"taken", "bare"}
    BY <1>5 DEF OpenNext, Started
  <2>3. restorer.marks \subseteq record.marked
    BY <1>5 DEF OpenNext, Promises, RestoresTruly
  <2> QED
    BY <1>5, <2>1, <2>2, <2>3, PromisesKept DEF OpenNext
<1>6. ASSUME BeginUpdate \/ LiftFence \/ Quit \/ QuitEnds \/ Reinstall \/ Install
      PROVE  Promises'
  BY <1>6 DEF BeginUpdate, LiftFence, Quit, QuitEnds, Reinstall, Install,
              Promises, WindowsAreOwed, ClosingOwed, RestoresTruly, Owed, Pending
<1>7. ASSUME UpdateFails
      PROVE  Promises'
  BY <1>7 DEF UpdateFails, Promises, WindowsAreOwed, ClosingOwed, RestoresTruly, Owed, Pending
<1>8. ASSUME DrainForUpdate
      PROVE  Promises'
  <2>1. restorer.at = "idle" /\ UNCHANGED <<restorer, windows, evidence>>
    BY <1>8 DEF DrainForUpdate, OneAtATime
  <2>2. RestoresTruly'
    BY <2>1 DEF RestoresTruly
  <2>3. CASE Pending
    BY <1>8, <2>2, <2>3 DEF DrainForUpdate, Promises, WindowsAreOwed, ClosingOwed, Owed, Pending
  <2>4. CASE ~Pending
    <3> DEFINE open == {v \in Profile : Runs(v)}
    <3>1. record' = Prepared(open) /\ closing' = open
      BY <1>8, <2>4 DEF DrainForUpdate
    <3>2. open \in SUBSET Profile /\ asked \in [updates : Nat, stumbles : Nat]
      BY DEF UpdateTypeOK
    <3>3. record'.phase = "prepared" /\ record'.vaults = open /\ record'.marked = {}
      BY <3>1, <3>2, PreparedIs
    <3>4. \A v \in open : Owed(v)'
      BY <3>3 DEF Owed, Pending
    <3>5. \A v \in Profile \ open : windows[v] \in {"taken", "bare"} => v \in evidence
      BY <2>4 DEF Promises, WindowsAreOwed, Pending
    <3>6. WindowsAreOwed'
      BY <2>1, <3>4, <3>5 DEF WindowsAreOwed, Owed, Pending
    <3>7. ClosingOwed'
      BY <3>1, <3>4 DEF ClosingOwed
    <3> QED
      BY <2>2, <3>6, <3>7 DEF Promises
  <2> QED
    BY <2>3, <2>4
<1>9. ASSUME MarkInstalling
      PROVE  Promises'
  <2>1. record'.phase = "installing" /\ record'.vaults = record.vaults /\ record'.marked = record.marked
    BY <1>9 DEF MarkInstalling, Recording
  <2> QED
    BY <1>9, <2>1 DEF MarkInstalling, Promises, WindowsAreOwed, ClosingOwed, RestoresTruly, Owed, Pending
<1>10. ASSUME UpdateFailed
       PROVE  Promises'
  <2>1. CASE Pending /\ record.op = asked.updates
    <3>1. record'.phase = "failed" /\ record'.vaults = record.vaults /\ record'.marked = record.marked
      BY <1>10, <2>1 DEF UpdateFailed, Recording
    <3>2. restorer'.at = "next" /\ restorer'.marks = record.marked
      BY <1>10, <2>1, RestoringIs DEF UpdateFailed
    <3> QED
      BY <1>10, <3>1, <3>2 DEF UpdateFailed, Promises, WindowsAreOwed, ClosingOwed, RestoresTruly, Owed, Pending
  <2>2. CASE ~(Pending /\ record.op = asked.updates)
    BY <1>10, <2>2 DEF UpdateFailed, Promises, WindowsAreOwed, ClosingOwed, RestoresTruly, Owed, Pending
  <2> QED
    BY <2>1, <2>2
<1>11. ASSUME Restore
       PROVE  Promises'
  <2> DEFINE v == restorer.vault
  <2>1. v \in Profile /\ restorer.marks \subseteq record.marked
    BY <1>11 DEF Restore, UpdateTypeOK, Promises, RestoresTruly
  <2>2. restorer'.at = "placed" /\ restorer'.vault = v /\ restorer'.marks = restorer.marks
    BY <1>11 DEF Restore, Restorings
  <2>3. \A u \in Profile : windows'[u] \in {"taken", "bare"} => windows[u] \in {"taken", "bare"}
    BY <1>11, <2>1 DEF Restore, Placed
  <2>4. v \in record.marked \/ (v \notin closing /\ windows'[v] = "shown")
    BY <1>11, <2>1 DEF Restore, Placed
  <2> QED
    BY <1>11, <2>1, <2>2, <2>3, <2>4
    DEF Restore, Promises, WindowsAreOwed, ClosingOwed, RestoresTruly, Owed, Pending
<1>12. ASSUME MarkRestored
       PROVE  Promises'
  <2> DEFINE v == restorer.vault
  <2>1. v \in Profile
    BY <1>12 DEF MarkRestored, UpdateTypeOK
  <2>2. /\ record'.phase = record.phase /\ record'.vaults = record.vaults
        /\ record'.marked = record.marked \cup {v}
    BY <1>12 DEF MarkRestored, Recording
  <2>3. restorer'.at = "next" /\ restorer'.marks = restorer.marks
    BY <1>12 DEF MarkRestored, Restorings
  <2>4. v \in record.marked \/ v \in evidence \/ (v \notin closing /\ windows[v] \notin {"taken", "bare"})
    BY <1>12 DEF MarkRestored, Promises, RestoresTruly
  <2>5. restorer.marks \subseteq record.marked
    BY <1>12 DEF MarkRestored, Promises, RestoresTruly
  <2>6. WindowsAreOwed'
    BY <1>12, <2>2, <2>4 DEF MarkRestored, Promises, WindowsAreOwed, Owed, Pending
  <2>7. ClosingOwed'
    BY <1>12, <2>2, <2>4 DEF MarkRestored, Promises, ClosingOwed, Owed, Pending
  <2>8. RestoresTruly'
    BY <2>2, <2>3, <2>5 DEF RestoresTruly
  <2> QED
    BY <2>6, <2>7, <2>8 DEF Promises
<1>13. ASSUME Consume
       PROVE  Promises'
  <2>1. restorer'.at = "idle" /\ record.vaults \ record.marked = {}
    BY <1>13, RestingIs DEF Consume, Finished
  <2>2. \A v : Owed(v) => v \in evidence
    BY <2>1 DEF Owed
  <2> QED
    BY <1>13, <2>1, <2>2 DEF Consume, Promises, WindowsAreOwed, ClosingOwed, RestoresTruly, Owed
<1>14. ASSUME CountFailure
       PROVE  Promises'
  <2>1. /\ record'.phase = record.phase /\ record'.vaults = record.vaults
        /\ record'.marked = record.marked
    BY <1>14 DEF CountFailure, Recording
  <2>2. restorer'.at \in {"idle", "aside"} /\ restorer'.marks = {}
    BY <1>14, RestingIs, AsideIs DEF CountFailure
  <2> QED
    BY <1>14, <2>1, <2>2 DEF CountFailure, Promises, WindowsAreOwed, ClosingOwed, RestoresTruly, Owed, Pending
<1>15. ASSUME GiveUp
       PROVE  Promises'
  <2>1. restorer'.at = "idle"
    BY <1>15, RestingIs DEF GiveUp, Finished
  <2> QED
    BY <1>15, <2>1 DEF GiveUp, SetAside, Promises, WindowsAreOwed, ClosingOwed, RestoresTruly, Owed
<1>16. ASSUME Activate
       PROVE  Promises'
  <2>1. restorer' = restorer \/ (restorer'.at = "next" /\ restorer'.marks = record.marked)
    BY <1>16, RestoringIs DEF Activate
  <2>2. UNCHANGED <<record, evidence, windows, closing>>
    BY <1>16 DEF Activate
  <2> QED
    BY <2>1, <2>2 DEF Promises, WindowsAreOwed, ClosingOwed, RestoresTruly, Owed, Pending
<1>17. ASSUME Start
       PROVE  Promises'
  <2>1. UNCHANGED <<windows, closing>>
    BY <1>17 DEF Start
  <2>2. CASE Unresumable
    <3>1. restorer'.at = "idle"
      BY <1>17, <2>2, RestingIs DEF Start, Unresumable
    <3>2. evidence' = evidence \cup record.vaults
      BY <1>17, <2>2 DEF Start, SetAside
    <3> QED
      BY <2>1, <3>1, <3>2 DEF Promises, WindowsAreOwed, ClosingOwed, RestoresTruly, Owed
  <2>3. CASE ~Unresumable
    <3>1. UNCHANGED <<record, evidence>>
      BY <1>17, <2>3 DEF Start
    <3>2. restorer'.at = "idle" \/ (restorer'.at = "next" /\ restorer'.marks = record.marked)
      BY <1>17, RestingIs, RestoringIs DEF Start
    <3> QED
      BY <2>1, <3>1, <3>2 DEF Promises, WindowsAreOwed, ClosingOwed, RestoresTruly, Owed, Pending
  <2> QED
    BY <2>2, <2>3
<1>18. ASSUME HostCrashes
       PROVE  Promises'
  <2>1. restorer'.at = "idle" /\ UNCHANGED <<record, evidence, windows, closing>>
    BY <1>18, RestingIs DEF HostCrashes
  <2> QED
    BY <2>1 DEF Promises, WindowsAreOwed, ClosingOwed, RestoresTruly, Owed, Pending
<1> QED
  BY <1>1, <1>2, <1>3, <1>4, <1>5, <1>6, <1>7, <1>8, <1>9, <1>10, <1>11, <1>12, <1>13, <1>14,
     <1>15, <1>16, <1>17, <1>18, UpdateSteps

LEMMA UpdateStutters ==
  ASSUME OwedInv, UNCHANGED updateVars
  PROVE  OwedInv'
BY DEF OwedInv, updateVars, UpdateTypeOK, WindowsAreOwed, ClosingOwed, OneAtATime, RestoresTruly,
       Owed, Pending

-----------------------------------------------------------------------------
(* The windows an update closed are on record, or in the file of a session   *)
(* that was set aside, until they are back (update_recovery.rs:1), whatever  *)
(* crashes, fails or is quit at any step, for any number of vaults, versions,*)
(* updates and attempts.                                                     *)
THEOREM WindowsStayOwed == UpdateSpec => []WindowsAreOwed
<1>1. UpdateInit => OwedInv
  BY UpdateStarts
<1>2. OwedInv /\ [UpdateNext]_updateVars => OwedInv'
  <2>1. ASSUME OwedInv, UpdateNext
        PROVE  OwedInv'
    BY <2>1, UpdateKeepsTypes, UpdateKeepsApart, UpdateKeepsPromises DEF OwedInv, Promises
  <2> QED
    BY <2>1, UpdateStutters
<1>3. OwedInv => WindowsAreOwed
  BY DEF OwedInv
<1> QED
  BY <1>1, <1>2, <1>3, PTL DEF UpdateSpec
=============================================================================
