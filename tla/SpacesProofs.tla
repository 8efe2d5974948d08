---------------------------- MODULE SpacesProofs ----------------------------
(***************************************************************************)
(* What the operators of Spaces return, for every value of the constants.  *)
(***************************************************************************)
EXTENDS Spaces, TLAPS, FiniteSetTheorems, SequenceTheorems

(* A write names items and carries revisions. *)
LEMMA WriteTyped ==
  ASSUME NEW r \in Requests, r.op = "write"
  PROVE  /\ r.who \in Account
         /\ DOMAIN r.put \subseteq Item
         /\ \A i \in DOMAIN r.put : r.put[i].rev \in Rev
<1>1. PICK mode \in {"batch", "transaction"} : r \in WriteRequests(mode)
  BY DEF Requests, MemberRequests
<1>2. PICK I \in ItemSets : r.put \in [I -> Put(mode)]
  BY <1>1 DEF WriteRequests
<1>3. I \subseteq Item
  BY SpaceAssumption
<1> QED
  BY <1>1, <1>2, <1>3 DEF WriteRequests, Put

(* Every other request names accounts, and those that offer an access name *)
(* one.                                                                    *)
LEMMA MemberRequestTyped ==
  ASSUME NEW r \in Requests, r.op # "write"
  PROVE  /\ r.who \in Account
         /\ r.op \in {"create", "remove", "leave", "modify", "invite", "accept",
                      "reject", "disinvite"}
         /\ r.op = "create" => r.rev \in Rev \ Tombstone
         /\ r.op \in {"remove", "modify", "invite", "disinvite"} => r.target \in Account
         /\ r.op \in {"modify", "invite"} => r.access \in Access
BY DEF Requests, WriteRequests, MemberRequests

(* A request changes finitely many rows. *)
LEMMA ChangesFinite ==
  ASSUME NEW r \in Requests, NEW s \in Space
  PROVE  /\ IsFiniteSet(Changes(r, s))
         /\ Cardinality(Changes(r, s)) \in Nat
         /\ Cardinality(Changes(r, s)) = 0 <=> Changes(r, s) = {}
<1> DEFINE All == {"item", "lost", "touch"} \X (Item \cup Account)
<1>1. IsFiniteSet(All)
  <2>1. IsFiniteSet({"item", "lost", "touch"})
    <3>1. {"item", "lost", "touch"} = ({"item"} \cup {"lost"}) \cup {"touch"}
      OBVIOUS
    <3>2. IsFiniteSet({"item"}) /\ IsFiniteSet({"lost"}) /\ IsFiniteSet({"touch"})
      BY FS_Singleton
    <3>3. IsFiniteSet({"item"} \cup {"lost"})
      BY <3>2, FS_Union
    <3>4. IsFiniteSet(({"item"} \cup {"lost"}) \cup {"touch"})
      BY <3>2, <3>3, FS_Union
    <3> QED
      BY <3>1, <3>4
  <2>2. IsFiniteSet(Item \cup Account)
    BY SpaceAssumption, FS_Union
  <2> QED
    BY <2>1, <2>2, FS_Product
<1>2. Changes(r, s) \subseteq All
  <2>1. CASE r.op = "write"
    <3>1. Stored(r, s) \subseteq Item
      BY <2>1, WriteTyped DEF Stored
    <3>2. Others(s) \subseteq Account
      BY DEF Others
    <3>3. Changes(r, s) = { <<"item", i>> : i \in Stored(r, s) }
           \cup (IF DeletesSpace(r, s) THEN { <<"lost", a>> : a \in Others(s) } ELSE {})
      BY <2>1 DEF Changes
    <3> QED
      BY <3>1, <3>2, <3>3
  <2>2. CASE r.op # "write"
    <3>1. Main \in Item
      BY SpaceAssumption
    <3> QED
      BY <2>2, <3>1, MemberRequestTyped DEF Changes
  <2> QED
    BY <2>1, <2>2
<1>3. IsFiniteSet(Changes(r, s))
  BY <1>1, <1>2, FS_Subset
<1> QED
  BY <1>3, FS_CardinalityType, FS_EmptySet

(* The new revision before the ones that are kept. *)
LEMMA PrunedTyped ==
  ASSUME NEW rev \in Rev, NEW older \in Seq(Rev)
  PROVE  /\ Pruned(rev, older) \in Seq(Rev)
         /\ Pruned(rev, older) # <<>>
         /\ Head(Pruned(rev, older)) = rev
         /\ rev \in Tombstone => Pruned(rev, older) = <<rev>>
<1> DEFINE n == IF Len(older) < Keep THEN Len(older) ELSE Keep
           kept == SubSeq(older, 1, n)
<1>1. <<rev>> \in Seq(Rev) /\ Len(<<rev>>) = 1 /\ <<rev>>[1] = rev
  OBVIOUS
<1>2. Len(older) \in Nat /\ n \in Int /\ n <= Len(older)
  BY SpaceAssumption, LenProperties
<1>3. \A i \in 1..n : older[i] \in Rev
  BY <1>2, ElementOfSeq
<1>4. kept \in Seq(Rev)
  BY <1>2, <1>3, SubSeqProperties
<1>5. <<rev>> \o kept \in Seq(Rev) /\ Len(<<rev>> \o kept) = 1 + Len(kept)
      /\ (<<rev>> \o kept)[1] = rev
  BY <1>1, <1>4, ConcatProperties, LenProperties
<1> QED
  BY <1>1, <1>4, <1>5, LenProperties, EmptySeq DEF Pruned

(* The numbers a request takes lie between the first and the last. *)
LEMMA NumberingTyped ==
  ASSUME NEW changes, NEW first \in Nat, first > 0,
         Cardinality(changes) \in Nat,
         NEW num \in Numberings(changes, first)
  PROVE  \A c \in changes :
           /\ num[c] \in Nat
           /\ first <= num[c]
           /\ num[c] <= first + Cardinality(changes) - 1
BY DEF Numberings

(* What store_revisions writes. *)
LEMMA WrittenTyped ==
  ASSUME NEW r \in Requests, r.op = "write", NEW s \in Space, NEW num,
         \A c \in Changes(r, s) : num[c] \in Nat
  PROVE  [s EXCEPT !.item = WrittenItems(r, s, num)] \in Space
<1>1. ASSUME NEW i \in Stored(r, s)
      PROVE  /\ Pruned(r.put[i].rev, s.item[i].revs) \in Seq(Rev)
             /\ num[<<"item", i>>] \in Nat
  <2>1. i \in DOMAIN r.put /\ i \in Item /\ r.put[i].rev \in Rev
    BY <1>1, WriteTyped DEF Stored
  <2>2. s.item[i].revs \in Seq(Rev)
    BY <2>1 DEF Space
  <2>3. <<"item", i>> \in Changes(r, s)
    BY <1>1 DEF Changes
  <2> QED
    BY <2>1, <2>2, <2>3, PrunedTyped
<1>2. WrittenItems(r, s, num) \in [Item -> [revs : Seq(Rev), num : Nat]]
  BY <1>1 DEF WrittenItems, Space
<1> QED
  BY <1>2 DEF Space

(* A space stays a space, whatever the request. *)
LEMMA EffectTyped ==
  ASSUME NEW r \in Requests, NEW s \in Space, NEW num,
         \A c \in Changes(r, s) : num[c] \in Nat
  PROVE  Effect(r, s, num) \in Space
<1>0. <<>> \in Seq(Rev) /\ Main \in Item
  BY SpaceAssumption, EmptySeq
<1>1. CASE r.op = "write"
  <2> DEFINE written == [s EXCEPT !.item = WrittenItems(r, s, num)]
  <2>1. written \in Space
    BY <1>1, WrittenTyped
  <2>2. CASE DeletesSpace(r, s)
    <3>1. \A a \in Others(s) : num[<<"lost", a>>] \in Nat
      BY <1>1, <2>2 DEF Changes
    <3>2. Others(written) = Others(s)
      BY DEF Others, IsMember, Space
    <3>3. Ended(written, num) \in Space
      <4> HIDE DEF written
      <4> QED
        BY <1>0, <2>1, <3>1, <3>2
        DEF Ended, Space, Standing, Access, NoItem, NoInvitation
    <3> QED
      BY <1>1, <2>2, <3>3 DEF Effect, AfterWrite
  <2>3. CASE ~DeletesSpace(r, s)
    BY <1>1, <2>1, <2>3 DEF Effect, AfterWrite
  <2> QED
    BY <2>2, <2>3
<1>2. CASE r.op = "create"
  <2>1. <<r.rev>> \in Seq(Rev) /\ r.who \in Account
    BY <1>2, MemberRequestTyped
  <2>2. num[<<"item", Main>>] \in Nat
    BY <1>2 DEF Changes
  <2> QED
    BY <1>0, <1>2, <2>1, <2>2 DEF Effect, AfterCreate, Space, Standing, Access
<1>3. ASSUME NEW a \in Account
      PROVE  WithoutInvitesFrom(s, a) \in Space
  BY DEF WithoutInvitesFrom, Space
<1>4. ASSUME NEW a \in Account, num[<<"lost", a>>] \in Nat
      PROVE  AfterRemoval(s, a, num) \in Space
  BY <1>3, <1>4 DEF AfterRemoval, Space, Standing
<1>5. CASE r.op = "remove"
  BY <1>4, <1>5, MemberRequestTyped DEF Effect, Changes
<1>6. CASE r.op = "leave"
  BY <1>4, <1>6, MemberRequestTyped DEF Effect, Changes
<1>7. CASE r.op = "modify"
  BY <1>3, <1>7, MemberRequestTyped DEF Effect, AfterModify, Space, Standing
<1>8. CASE r.op = "invite"
  BY <1>8, MemberRequestTyped DEF Effect, Space, Invitation
<1>9. CASE r.op = "accept"
  <2>1. r.who \in Account
    BY <1>9, MemberRequestTyped
  <2>2. s.invite[r.who] \in Invitation \cup {NoInvitation}
    BY <2>1 DEF Space
  <2>3. s.invite[r.who].access \in Standing
    BY <2>2 DEF Invitation, NoInvitation, Standing
  <2>4. AfterAccept(r, s) \in Space
    BY <2>1, <2>3 DEF AfterAccept, Space
  <2> QED
    BY <1>9, <2>4 DEF Effect
<1>10. CASE r.op \in {"reject", "disinvite"}
  BY <1>10, MemberRequestTyped DEF Effect, Space
<1> QED
  BY <1>1, <1>2, <1>5, <1>6, <1>7, <1>8, <1>9, <1>10, MemberRequestTyped

LEMMA AfterTyped ==
  ASSUME NEW r \in Requests, NEW s \in Space, NEW num, NEW last \in Nat,
         \A c \in Changes(r, s) : num[c] \in Nat
  PROVE  After(r, s, num, last) \in Space
<1> PICK e \in Space : e = Effect(r, s, num)
  BY EffectTyped
<1>1. [e EXCEPT !.stoken = last] \in Space
  BY ONLY e \in Space, last \in Nat DEF Space
<1> QED BY <1>1 DEF After

-----------------------------------------------------------------------------
(* Every number in a space was there before, is none, or is one the        *)
(* request took.                                                           *)
LEMMA EffectNumbers ==
  ASSUME NEW r \in Requests, NEW s \in Space, NEW num
  PROVE  /\ Effect(r, s, num).stoken = s.stoken
         /\ \A i \in Item :
              \/ Effect(r, s, num).item[i] \in {s.item[i], NoItem}
              \/ /\ <<"item", i>> \in Changes(r, s)
                 /\ Effect(r, s, num).item[i].num = num[<<"item", i>>]
         /\ \A a \in Account :
              \/ Effect(r, s, num).lost[a] \in {s.lost[a], 0}
              \/ /\ <<"lost", a>> \in Changes(r, s)
                 /\ Effect(r, s, num).lost[a] = num[<<"lost", a>>]
<1>1. CASE r.op = "write"
  <2> DEFINE written == [s EXCEPT !.item = WrittenItems(r, s, num)]
  <2>1. \A i \in Item : \/ written.item[i] = s.item[i]
                        \/ /\ <<"item", i>> \in Changes(r, s)
                           /\ written.item[i].num = num[<<"item", i>>]
    BY <1>1 DEF WrittenItems, Changes, Space
  <2>2. written.stoken = s.stoken /\ written.lost = s.lost /\ written.member = s.member
        /\ written.owner = s.owner
    BY DEF Space
  <2>3. CASE DeletesSpace(r, s)
    <3>1. Others(written) = Others(s)
      BY <2>2 DEF Others, IsMember
    <3>2. \A a \in Others(s) : <<"lost", a>> \in Changes(r, s)
      BY <1>1, <2>3 DEF Changes
    <3>3. /\ Ended(written, num).stoken = s.stoken
          /\ \A i \in Item : Ended(written, num).item[i] \in {written.item[i], NoItem}
          /\ \A a \in Account : \/ Ended(written, num).lost[a] = s.lost[a]
                                \/ /\ a \in Others(s)
                                   /\ Ended(written, num).lost[a] = num[<<"lost", a>>]
      BY <2>2, <3>1 DEF Ended, Space
    <3>4. Effect(r, s, num) = Ended(written, num)
      BY <1>1, <2>3 DEF Effect, AfterWrite
    <3>6. ASSUME NEW i \in Item
          PROVE  \/ Effect(r, s, num).item[i] \in {s.item[i], NoItem}
                 \/ /\ <<"item", i>> \in Changes(r, s)
                    /\ Effect(r, s, num).item[i].num = num[<<"item", i>>]
      <4>1. Effect(r, s, num).item[i] \in {written.item[i], NoItem}
        BY <3>3, <3>4
      <4> HIDE DEF written
      <4> QED
        BY <2>1, <4>1
    <3> HIDE DEF written
    <3> QED
      BY <3>2, <3>3, <3>4, <3>6
  <2>4. CASE ~DeletesSpace(r, s)
    BY <1>1, <2>1, <2>2, <2>4 DEF Effect, AfterWrite
  <2> QED
    BY <2>3, <2>4
<1>2. CASE r.op = "create"
  <2>1. <<"item", Main>> \in Changes(r, s)
    BY <1>2 DEF Changes
  <2>2. Effect(r, s, num) = AfterCreate(r, s, num)
    BY <1>2 DEF Effect
  <2>3. /\ Effect(r, s, num).stoken = s.stoken
        /\ Effect(r, s, num).lost = s.lost
        /\ \A i \in Item : Effect(r, s, num).item[i] =
             IF i = Main THEN [revs |-> <<r.rev>>, num |-> num[<<"item", Main>>]] ELSE s.item[i]
    BY <2>2 DEF AfterCreate, Space
  <2>4. \A i \in Item : i = Main => Effect(r, s, num).item[i].num = num[<<"item", i>>]
    BY <2>3
  <2> QED
    BY <2>1, <2>3, <2>4
<1>3. ASSUME NEW a, <<"lost", a>> \in Changes(r, s), Effect(r, s, num) = AfterRemoval(s, a, num)
      PROVE  /\ Effect(r, s, num).stoken = s.stoken
             /\ Effect(r, s, num).item = s.item
             /\ \A b \in Account : Effect(r, s, num).lost[b] =
                  IF b = a THEN num[<<"lost", a>>] ELSE s.lost[b]
  BY <1>3 DEF AfterRemoval, WithoutInvitesFrom, Space
<1>4. CASE r.op = "remove"
  BY <1>3, <1>4 DEF Effect, Changes
<1>5. CASE r.op = "leave"
  BY <1>3, <1>5 DEF Effect, Changes
<1>6. CASE r.op = "modify"
  BY <1>6 DEF Effect, AfterModify, WithoutInvitesFrom, Space
<1>7. CASE r.op \in {"invite", "reject", "disinvite"}
  BY <1>7 DEF Effect, Space
<1>8. CASE r.op = "accept"
  <2>1. Effect(r, s, num) = AfterAccept(r, s)
    BY <1>8 DEF Effect
  <2> QED
    BY <2>1 DEF AfterAccept, Space
<1> QED
  BY <1>1, <1>2, <1>4, <1>5, <1>6, <1>7, <1>8, MemberRequestTyped

=============================================================================
