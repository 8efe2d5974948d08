--------------------------- MODULE SpaceLogProofs ---------------------------
(***************************************************************************)
(* The properties of SpaceLog, for any number of accounts, items, spaces   *)
(* and requests.  RowsBehindStoken and NumbersAreUnique are inductive with *)
(* the types.  The others rest on SoundInv: authority is live in every     *)
(* space, and a space that was not created holds nothing.                  *)
(***************************************************************************)
EXTENDS SpaceLog, SpacesProofs

-----------------------------------------------------------------------------
(* A request applied is its effect on one space under numbers above the    *)
(* counter.                                                                *)
LEMMA ApplyTyped ==
  ASSUME TypeOK, NEW c \in Coll, NEW r \in Requests, Apply(c, r)
  PROVE  \E num \in Numberings(Changes(r, space[c]), counter + 1) :
           /\ space[c] \in Space
           /\ Allowed(r, space[c])
           /\ space' = [space EXCEPT ![c] = After(r, space[c], num, counter')]
           /\ counter' \in 0..MaxNum
           /\ counter <= counter'
           /\ (counter' = counter <=> Changes(r, space[c]) = {})
           /\ \A d \in Changes(r, space[c]) :
                num[d] \in Nat /\ counter < num[d] /\ num[d] <= counter'
           /\ After(r, space[c], num, counter') \in Space
<1> DEFINE changes == Changes(r, space[c])
<1>1. counter \in Nat /\ space[c] \in Space /\ MaxNum \in Nat
  BY LogAssumption DEF TypeOK
<1>2. Cardinality(changes) \in Nat /\ (Cardinality(changes) = 0 <=> changes = {})
  BY <1>1, ChangesFinite
<1>3. counter' = counter + Cardinality(changes) /\ counter' <= MaxNum
  BY DEF Apply
<1>4. PICK num \in Numberings(changes, counter + 1) :
        space' = [space EXCEPT ![c] = After(r, space[c], num, counter')]
  BY <1>3 DEF Apply
<1>5. \A d \in changes : num[d] \in Nat /\ counter + 1 <= num[d]
                         /\ num[d] <= counter + 1 + Cardinality(changes) - 1
  BY <1>1, <1>2, <1>4, NumberingTyped
<1>6. \A d \in changes : num[d] \in Nat /\ counter < num[d] /\ num[d] <= counter'
  BY <1>1, <1>2, <1>3, <1>5
<1>7. counter' \in Nat
  BY <1>1, <1>2, <1>3
<1>8. After(r, space[c], num, counter') \in Space
  BY <1>1, <1>6, <1>7, AfterTyped
<1>9. Allowed(r, space[c])
  BY DEF Apply
<1>10. counter' \in 0..MaxNum /\ counter <= counter' /\ (counter' = counter <=> changes = {})
  BY <1>1, <1>2, <1>3
<1> QED
  BY <1>1, <1>4, <1>6, <1>8, <1>9, <1>10

LEMMA TypeInit == Init => TypeOK
<1> SUFFICES ASSUME Init PROVE TypeOK
  OBVIOUS
<1>1. NoSpace \in Space
  BY EmptySeq DEF NoSpace, Space, NoItem, Standing, NoInvitation
<1> QED
  BY <1>1, LogAssumption DEF Init, TypeOK

LEMMA TypeNext == TypeOK /\ [Next]_vars => TypeOK'
<1> SUFFICES ASSUME TypeOK, [Next]_vars PROVE TypeOK'
  OBVIOUS
<1>1. ASSUME NEW c \in Coll, NEW r \in Requests, Apply(c, r)
      PROVE  TypeOK'
  BY <1>1, ApplyTyped DEF TypeOK
<1>2. CASE UNCHANGED vars
  BY <1>2 DEF vars, TypeOK
<1> QED
  BY <1>1, <1>2 DEF Next

(* The counter and every space keep their types: whatever requests arrive, *)
(* none leaves a row no handler could have written.                        *)
THEOREM TypeCorrect == Spec => []TypeOK
BY TypeInit, TypeNext, PTL DEF Spec

-----------------------------------------------------------------------------
(* What After does to the numbers: those in the space afterwards were      *)
(* there, are 0, or are new; and its stoken is the last one taken.         *)
LEMMA AfterNumbers ==
  ASSUME NEW r \in Requests, NEW s \in Space, NEW num, NEW last,
         \A c \in Changes(r, s) : num[c] \in Nat
  PROVE  /\ After(r, s, num, last).stoken = IF Changes(r, s) = {} THEN s.stoken ELSE last
         /\ \A i \in Item :
              \/ After(r, s, num, last).item[i].num \in {s.item[i].num, 0}
              \/ \E d \in Changes(r, s) : After(r, s, num, last).item[i].num = num[d]
         /\ \A a \in Account :
              \/ After(r, s, num, last).lost[a] \in {s.lost[a], 0}
              \/ \E d \in Changes(r, s) : After(r, s, num, last).lost[a] = num[d]
<1> DEFINE e == Effect(r, s, num)
           t == After(r, s, num, last)
<1>1. e \in Space
  BY EffectTyped
<1>2. /\ t.item = e.item /\ t.lost = e.lost
      /\ t.stoken = IF Changes(r, s) = {} THEN e.stoken ELSE last
  <2>1. CASE Changes(r, s) = {}
    BY <2>1 DEF After
  <2>2. CASE Changes(r, s) # {}
    <3>1. t = [e EXCEPT !.stoken = last]
      BY <2>2 DEF After
    <3> HIDE DEF e, t
    <3> QED
      BY <1>1, <2>2, <3>1 DEF Space
  <2> QED
    BY <2>1, <2>2
<1>3. /\ e.stoken = s.stoken
      /\ \A i \in Item :
              \/ e.item[i] \in {s.item[i], NoItem}
              \/ <<"item", i>> \in Changes(r, s) /\ e.item[i].num = num[<<"item", i>>]
      /\ \A a \in Account :
              \/ e.lost[a] \in {s.lost[a], 0}
              \/ <<"lost", a>> \in Changes(r, s) /\ e.lost[a] = num[<<"lost", a>>]
  BY EffectNumbers
<1>5. NoItem.num = 0
  BY DEF NoItem
<1> HIDE DEF e, t
<1>4. /\ t.stoken = IF Changes(r, s) = {} THEN s.stoken ELSE last
      /\ \A i \in Item :
              \/ t.item[i].num \in {s.item[i].num, 0}
              \/ \E d \in Changes(r, s) : t.item[i].num = num[d]
      /\ \A a \in Account :
              \/ t.lost[a] \in {s.lost[a], 0}
              \/ \E d \in Changes(r, s) : t.lost[a] = num[d]
  BY <1>2, <1>3, <1>5
<1> QED
  BY <1>4 DEF t

LEMMA BehindNext == TypeOK /\ RowsBehindStoken /\ [Next]_vars => RowsBehindStoken'
<1> SUFFICES ASSUME TypeOK, RowsBehindStoken, [Next]_vars PROVE RowsBehindStoken'
  OBVIOUS
<1>1. ASSUME NEW c \in Coll, NEW r \in Requests, Apply(c, r)
      PROVE  RowsBehindStoken'
  <2>1. PICK num \in Numberings(Changes(r, space[c]), counter + 1) :
           /\ space[c] \in Space
           /\ space' = [space EXCEPT ![c] = After(r, space[c], num, counter')]
           /\ counter' \in 0..MaxNum
           /\ counter <= counter'
           /\ (counter' = counter <=> Changes(r, space[c]) = {})
           /\ \A d \in Changes(r, space[c]) :
                num[d] \in Nat /\ counter < num[d] /\ num[d] <= counter'
    BY <1>1, ApplyTyped
  <2> DEFINE s == space[c]
             t == After(r, s, num, counter')
  <2>2. /\ counter \in Nat /\ counter' \in Nat
        /\ s.stoken \in Nat /\ s.stoken <= counter
        /\ \A i \in Item : s.item[i].num \in Nat /\ s.item[i].num <= s.stoken
        /\ \A a \in Account : s.lost[a] \in Nat /\ s.lost[a] <= s.stoken
    BY <2>1, LogAssumption DEF TypeOK, RowsBehindStoken, Space
  <2>3. /\ t.stoken = IF Changes(r, s) = {} THEN s.stoken ELSE counter'
        /\ \A i \in Item :
              \/ t.item[i].num \in {s.item[i].num, 0}
              \/ \E d \in Changes(r, s) : t.item[i].num = num[d]
        /\ \A a \in Account :
              \/ t.lost[a] \in {s.lost[a], 0}
              \/ \E d \in Changes(r, s) : t.lost[a] = num[d]
    BY <2>1, AfterNumbers
  <2> HIDE DEF s, t
  <2>4. \A d \in Changes(r, s) : num[d] \in Nat /\ num[d] <= t.stoken
    BY <2>1, <2>3 DEF s
  <2>5. t.stoken \in Nat /\ t.stoken <= counter' /\ s.stoken <= t.stoken
    BY <2>1, <2>2, <2>3
  <2>6. /\ \A i \in Item : t.item[i].num <= t.stoken
        /\ \A a \in Account : t.lost[a] <= t.stoken
    BY <2>2, <2>3, <2>4, <2>5
  <2>7. \A d \in Coll \ {c} : space[d].stoken \in Nat /\ space[d].stoken <= counter'
    BY <2>1, <2>2 DEF TypeOK, RowsBehindStoken, Space
  <2>8. /\ space' = [space EXCEPT ![c] = t]
        /\ space \in [Coll -> Space]
    BY <2>1 DEF TypeOK, s, t
  <2> QED
    BY <2>5, <2>6, <2>7, <2>8 DEF RowsBehindStoken
<1>2. CASE UNCHANGED vars
  BY <1>2 DEF vars, RowsBehindStoken
<1> QED
  BY <1>1, <1>2 DEF Next

LEMMA BehindInit == Init => RowsBehindStoken
BY DEF Init, RowsBehindStoken, NoSpace, NoItem

(* No row of a space carries a number above its stoken, and no stoken one  *)
(* above the counter: what list_items and list_collections page through is *)
(* complete up to the stoken they answer with.                             *)
THEOREM RowsStayBehindStoken == Spec => []RowsBehindStoken
BY TypeInit, TypeNext, BehindInit, BehindNext, PTL DEF Spec

-----------------------------------------------------------------------------
(* An effect that numbers were taken for differs in the stoken only.       *)
LEMMA AfterFields ==
  ASSUME NEW r, NEW s, NEW num, NEW last, Effect(r, s, num) \in Space
  PROVE  /\ After(r, s, num, last).owner  = Effect(r, s, num).owner
         /\ After(r, s, num, last).member = Effect(r, s, num).member
         /\ After(r, s, num, last).lost   = Effect(r, s, num).lost
         /\ After(r, s, num, last).invite = Effect(r, s, num).invite
         /\ After(r, s, num, last).item   = Effect(r, s, num).item
BY DEF After, Space

(* A space that is, or that was never made. *)
Sound(s) == LiveAuthority(s) /\ (Exists(s) \/ s = NoSpace)

(* No other request than a create goes ahead where there is nothing. *)
LEMMA OnlyCreateMakes ==
  ASSUME NEW r \in Requests, NEW s \in Space, s = NoSpace, Allowed(r, s)
  PROVE  r.op = "create"
<1>1. /\ \A a \in Account : /\ ~IsMember(s, a) /\ ~IsAdmin(s, a)
                           /\ s.invite[a] = NoInvitation
      /\ NoInvitation.from = NoAccount /\ NoAccount \notin Account
      /\ ~Exists(s)
  BY SpaceAssumption DEF NoSpace, IsMember, IsAdmin, NoInvitation, Exists
<1>2. r.op # "write"
  BY <1>1 DEF Allowed
<1> QED
  BY <1>1, <1>2, MemberRequestTyped DEF Allowed, InviteAllowed, Stands

(* What create, and each request about members, does to the authority      *)
(* behind the invitations.                                                 *)
LEMMA EffectSound ==
  ASSUME NEW r \in Requests, NEW s \in Space, NEW num, Sound(s), Allowed(r, s),
         \A c \in Changes(r, s) : num[c] \in Nat
  PROVE  Exists(Effect(r, s, num)) /\ LiveAuthority(Effect(r, s, num))
<1> DEFINE e == Effect(r, s, num)
<1>0. /\ NoAccount \notin Account /\ Main \in Item
      /\ s.owner \in Account \cup {NoAccount}
      /\ s.member \in [Account -> Standing]
      /\ s.invite \in [Account -> Invitation \cup {NoInvitation}]
      /\ s.lost \in [Account -> Nat]
  BY SpaceAssumption DEF Space
<1>1. CASE r.op = "create"
  <2>1. s = NoSpace /\ r.who \in Account
    BY <1>1, MemberRequestTyped DEF Allowed, Sound
  <2>2. /\ e.owner = r.who
        /\ e.member = [s.member EXCEPT ![r.who] = "admin"]
        /\ e.lost = s.lost /\ e.invite = s.invite
    BY <1>1 DEF Effect, AfterCreate, Space
  <2>3. \A a \in Account : e.invite[a] = NoInvitation /\ e.lost[a] = 0
    BY <2>1, <2>2 DEF NoSpace
  <2> HIDE DEF e
  <2>4. Exists(e) /\ LiveAuthority(e)
    BY <1>0, <2>1, <2>2, <2>3 DEF Exists, LiveAuthority, IsAdmin
  <2> QED
    BY <2>4 DEF e
<1>2. CASE r.op # "create"
  <2>1. Exists(s)
    BY <1>2, OnlyCreateMakes DEF Sound
  <2>2. /\ s.owner \in Account /\ s.member[s.owner] = "admin"
        /\ \A a \in Account :
             /\ s.invite[a] # NoInvitation =>
                   s.member[s.invite[a].from] = "admin" /\ s.member[a] = "none"
             /\ s.member[a] # "none" => s.lost[a] = 0
    BY <1>0, <2>1 DEF Sound, LiveAuthority, Exists, Stands, IsAdmin, IsMember
  <2>3. ASSUME e.owner = s.owner,
               e.member[s.owner] = "admin",
               \A a \in Account :
                 /\ e.invite[a] # NoInvitation =>
                      e.member[e.invite[a].from] = "admin" /\ e.member[a] = "none"
                 /\ e.member[a] # "none" => e.lost[a] = 0
        PROVE  Exists(e) /\ LiveAuthority(e)
    <3> HIDE DEF e
    <3> QED
      BY <1>0, <2>2, <2>3 DEF Exists, LiveAuthority, Stands, IsAdmin, IsMember
  <2>4. CASE r.op = "write"
    <3> DEFINE written == [s EXCEPT !.item = WrittenItems(r, s, num)]
    <3>1. /\ written.owner = s.owner /\ written.member = s.member
          /\ written.lost = s.lost /\ written.invite = s.invite
          /\ written \in Space
      BY <2>4, WrittenTyped DEF Space
    <3>2. CASE DeletesSpace(r, s)
      <4>1. e = Ended(written, num)
        BY <2>4, <3>2 DEF Effect, AfterWrite
      <4> HIDE DEF written
      <4>2. /\ e.owner = s.owner
            /\ \A a \in Account :
                 /\ e.member[a] = IF a \in Others(written) THEN "none" ELSE s.member[a]
                 /\ e.lost[a] = IF a \in Others(written) THEN num[<<"lost", a>>] ELSE s.lost[a]
                 /\ e.invite[a] = NoInvitation
        BY <3>1, <4>1 DEF Ended, Space
      <4>3. \A a \in Account : a \in Others(written) <=> s.member[a] # "none" /\ a # s.owner
        BY <3>1 DEF Others, IsMember
      <4> HIDE DEF e
      <4> QED
        BY <2>2, <2>3, <4>2, <4>3 DEF e
    <3>3. CASE ~DeletesSpace(r, s)
      <4>1. e = written
        BY <2>4, <3>3 DEF Effect, AfterWrite
      <4> QED
        BY <2>2, <2>3, <3>1, <4>1
    <3> QED
      BY <3>2, <3>3
  <2>5. ASSUME NEW t \in Account, t # s.owner, e = AfterRemoval(s, t, num)
        PROVE  Exists(e) /\ LiveAuthority(e)
    <3>1. /\ e.owner = s.owner
          /\ \A a \in Account :
               /\ e.member[a] = IF a = t THEN "none" ELSE s.member[a]
               /\ a # t => e.lost[a] = s.lost[a]
               /\ e.invite[a] = IF a = t \/ s.invite[a].from = t THEN NoInvitation
                                ELSE s.invite[a]
      BY <1>0, <2>5 DEF AfterRemoval, WithoutInvitesFrom, Space
    <3> HIDE DEF e
    <3>2. \A a \in Account : e.invite[a] # NoInvitation =>
            e.invite[a] = s.invite[a] /\ s.invite[a].from \in Account /\ s.invite[a].from # t
      BY <1>0, <3>1 DEF Invitation
    <3> QED
      BY <2>2, <2>3, <2>5, <3>1, <3>2 DEF e
  <2>6. CASE r.op = "remove"
    BY <2>5, <2>6, MemberRequestTyped DEF Effect, Allowed
  <2>7. CASE r.op = "leave"
    BY <2>5, <2>7, MemberRequestTyped DEF Effect, Allowed
  <2>8. CASE r.op = "modify"
    <3>1. /\ r.target \in Account /\ r.target # s.owner
          /\ s.member[r.target] # "none" /\ r.access \in Access
      BY <2>8, MemberRequestTyped DEF Allowed, IsMember
    <3>2. /\ e.owner = s.owner /\ e.lost = s.lost
          /\ \A a \in Account :
               /\ e.member[a] = IF a = r.target THEN r.access ELSE s.member[a]
               /\ e.invite[a] = IF r.access # "admin" /\ s.invite[a].from = r.target
                                THEN NoInvitation ELSE s.invite[a]
      BY <1>0, <2>8, <3>1 DEF Effect, AfterModify, WithoutInvitesFrom, Space
    <3> HIDE DEF e
    <3>3. \A a \in Account : e.invite[a] # NoInvitation =>
            /\ e.invite[a] = s.invite[a] /\ s.invite[a].from \in Account
            /\ s.invite[a].from = r.target => r.access = "admin"
            /\ a # r.target
      BY <1>0, <2>2, <3>1, <3>2 DEF Invitation
    <3> QED
      BY <2>2, <2>3, <3>1, <3>2, <3>3 DEF e
  <2>9. CASE r.op = "invite"
    <3>1. /\ r.who \in Account /\ r.target \in Account
          /\ s.member[r.who] = "admin" /\ s.member[r.target] = "none"
      BY <2>9, MemberRequestTyped DEF Allowed, InviteAllowed, IsAdmin, IsMember
    <3>2. /\ e.owner = s.owner /\ e.lost = s.lost /\ e.member = s.member
          /\ \A a \in Account : e.invite[a] =
               IF a = r.target THEN [from |-> r.who, access |-> r.access] ELSE s.invite[a]
      BY <1>0, <2>9, <3>1 DEF Effect, Space
    <3> HIDE DEF e
    <3> QED
      BY <2>2, <2>3, <3>1, <3>2 DEF e
  <2>10. CASE r.op = "accept"
    <3>1. /\ r.who \in Account /\ s.invite[r.who] # NoInvitation
          /\ s.invite[r.who] \in Invitation
          /\ e = AfterAccept(r, s)
      BY <1>0, <2>10, MemberRequestTyped DEF Allowed, Stands, Effect
    <3>2. s.member[r.who] = "none"
      BY <2>2, <3>1
    <3>3. /\ e.owner = s.owner
          /\ \A a \in Account :
               /\ e.member[a] = IF a = r.who THEN s.invite[r.who].access ELSE s.member[a]
               /\ e.lost[a] = IF a = r.who THEN 0 ELSE s.lost[a]
               /\ e.invite[a] = IF a = r.who THEN NoInvitation ELSE s.invite[a]
      BY <1>0, <3>1, <3>2 DEF AfterAccept, IsMember, Space
    <3> HIDE DEF e
    <3>4. \A a \in Account : e.invite[a] # NoInvitation =>
            s.invite[a].from \in Account /\ s.invite[a].from # r.who /\ a # r.who
      BY <1>0, <2>2, <3>2, <3>3 DEF Invitation
    <3> QED
      BY <2>2, <2>3, <3>2, <3>3, <3>4 DEF e
  <2>11. CASE r.op \in {"reject", "disinvite"}
    <3>1. /\ e.owner = s.owner /\ e.lost = s.lost /\ e.member = s.member
          /\ \A a \in Account : e.invite[a] \in {NoInvitation, s.invite[a]}
      BY <1>0, <2>11 DEF Effect, Space
    <3> HIDE DEF e
    <3> QED
      BY <2>2, <2>3, <3>1 DEF e
  <2> QED
    BY <1>2, <2>4, <2>6, <2>7, <2>8, <2>9, <2>10, <2>11, MemberRequestTyped
<1> QED
  BY <1>1, <1>2

(* The same of a space with its stoken set. *)
LEMMA AfterSound ==
  ASSUME NEW r \in Requests, NEW s \in Space, NEW num, NEW last, Sound(s), Allowed(r, s),
         \A c \in Changes(r, s) : num[c] \in Nat
  PROVE  Exists(After(r, s, num, last)) /\ LiveAuthority(After(r, s, num, last))
<1> DEFINE e == Effect(r, s, num)
           t == After(r, s, num, last)
<1>1. Exists(e) /\ LiveAuthority(e) /\ e \in Space
  BY EffectSound, EffectTyped
<1>2. /\ t.owner = e.owner /\ t.member = e.member /\ t.lost = e.lost
      /\ t.invite = e.invite
  BY <1>1, AfterFields
<1> HIDE DEF e, t
<1>3. Exists(t) /\ LiveAuthority(t)
  BY <1>1, <1>2 DEF Exists, LiveAuthority, Stands, IsAdmin, IsMember
<1> QED
  BY <1>3 DEF t

SoundInv == \A c \in Coll : Sound(space[c])

LEMMA SoundInit == Init => SoundInv
<1> SUFFICES ASSUME Init, NEW c \in Coll PROVE Sound(space[c])
  BY DEF SoundInv
<1>1. space[c] = NoSpace
  BY DEF Init
<1> QED
  BY <1>1 DEF Sound, LiveAuthority, NoSpace, Exists, IsMember

LEMMA SoundNext == TypeOK /\ SoundInv /\ [Next]_vars => SoundInv'
<1> SUFFICES ASSUME TypeOK, SoundInv, [Next]_vars PROVE SoundInv'
  OBVIOUS
<1>1. ASSUME NEW c \in Coll, NEW r \in Requests, Apply(c, r)
      PROVE  SoundInv'
  <2>1. PICK num \in Numberings(Changes(r, space[c]), counter + 1) :
           /\ space[c] \in Space
           /\ Allowed(r, space[c])
           /\ space' = [space EXCEPT ![c] = After(r, space[c], num, counter')]
           /\ \A d \in Changes(r, space[c]) : num[d] \in Nat
    BY <1>1, ApplyTyped
  <2> DEFINE t == After(r, space[c], num, counter')
  <2>2. Exists(t) /\ LiveAuthority(t)
    BY <2>1, AfterSound DEF SoundInv
  <2>3. \A d \in Coll : space'[d] = IF d = c THEN t ELSE space[d]
    BY <2>1 DEF TypeOK
  <2> HIDE DEF t
  <2> QED
    BY <2>2, <2>3 DEF SoundInv, Sound
<1>2. CASE UNCHANGED vars
  BY <1>2 DEF vars, SoundInv
<1> QED
  BY <1>1, <1>2 DEF Next

(* Nobody holds an invitation from an account that lost its authority, and *)
(* nobody is both a member and announced as lost.                          *)
THEOREM AuthorityStaysLive == Spec => []AuthorityIsLive
<1>1. SoundInv => AuthorityIsLive
  BY DEF SoundInv, Sound, AuthorityIsLive
<1> QED
  BY <1>1, TypeInit, TypeNext, SoundInit, SoundNext, PTL DEF Spec

-----------------------------------------------------------------------------
(* What each request does to a space's own item.                           *)
LEMMA EffectMain ==
  ASSUME NEW r \in Requests, NEW s \in Space, NEW num, Allowed(r, s),
         \A c \in Changes(r, s) : num[c] \in Nat
  PROVE  LET e == Effect(r, s, num)
         IN  /\ r.op = "create" => ~IsDeleted(e)
             /\ r.op = "write" /\ DeletesSpace(r, s) => IsDeleted(e)
             /\ r.op = "write" /\ ~DeletesSpace(r, s) => (IsDeleted(e) <=> IsDeleted(s))
             /\ r.op \notin {"create", "write"} => e.item = s.item
<1> DEFINE e == Effect(r, s, num)
<1>0. Main \in Item /\ Tombstone \subseteq Rev /\ NoRev \notin Rev
  BY SpaceAssumption
<1>1. CASE r.op = "create"
  <2>1. e.item[Main].revs = <<r.rev>> /\ r.rev \notin Tombstone
    BY <1>0, <1>1, MemberRequestTyped DEF Effect, AfterCreate, Space
  <2>2. <<r.rev>> # <<>> /\ Head(<<r.rev>>) = r.rev
    OBVIOUS
  <2> HIDE DEF e
  <2>3. ~IsDeleted(e)
    BY <2>1, <2>2 DEF IsDeleted, Current
  <2> QED
    BY <1>1, <2>3 DEF e
<1>2. CASE r.op = "write"
  <2> DEFINE written == [s EXCEPT !.item = WrittenItems(r, s, num)]
  <2>1. e.item[Main] = WrittenItems(r, s, num)[Main]
    <3>1. CASE DeletesSpace(r, s)
      BY <1>0, <1>2, <3>1 DEF Effect, AfterWrite, Ended, Space
    <3>2. CASE ~DeletesSpace(r, s)
      BY <1>2, <3>2 DEF Effect, AfterWrite, Space
    <3> QED
      BY <3>1, <3>2
  <2>2. CASE Main \in Stored(r, s)
    <3>1. /\ Main \in DOMAIN r.put
          /\ r.put[Main].rev \in Rev
          /\ r.put[Main].rev # Current(s, Main)
      BY <1>2, <2>2, WriteTyped DEF Stored
    <3>2. s.item[Main].revs \in Seq(Rev)
      BY <1>0 DEF Space
    <3>3. e.item[Main].revs = Pruned(r.put[Main].rev, s.item[Main].revs)
      BY <1>0, <2>1, <2>2 DEF WrittenItems
    <3> HIDE DEF e
    <3>4. Current(e, Main) = r.put[Main].rev
      BY <3>1, <3>2, <3>3, PrunedTyped DEF Current
    <3>5. WriteAllowed(r, s)
      BY <1>2 DEF Allowed
    <3>6. IsDeleted(e) <=> r.put[Main].rev \in Tombstone
      BY <3>4 DEF IsDeleted
    <3>7. DeletesSpace(r, s) <=> ~IsDeleted(s) /\ r.put[Main].rev \in Tombstone
      BY <3>1 DEF DeletesSpace
    <3>8. IsDeleted(s) => r.put[Main].rev \in Tombstone
      BY <3>1, <3>5 DEF WriteAllowed
    <3> QED
      BY <1>2, <3>6, <3>7, <3>8 DEF e
  <2>3. CASE Main \notin Stored(r, s)
    <3>1. e.item[Main] = s.item[Main]
      BY <1>0, <2>1, <2>3 DEF WrittenItems
    <3>2. ~DeletesSpace(r, s)
      BY <2>3 DEF DeletesSpace, Stored, IsDeleted
    <3> HIDE DEF e
    <3>3. IsDeleted(e) <=> IsDeleted(s)
      BY <3>1 DEF IsDeleted, Current
    <3> QED
      BY <1>2, <3>2, <3>3 DEF e
  <2> QED
    BY <2>2, <2>3
<1>3. CASE r.op \in {"remove", "leave"}
  BY <1>3 DEF Effect, AfterRemoval, WithoutInvitesFrom, Space
<1>4. CASE r.op = "modify"
  BY <1>4 DEF Effect, AfterModify, WithoutInvitesFrom, Space
<1>5. CASE r.op \in {"invite", "reject", "disinvite"}
  BY <1>5 DEF Effect, Space
<1>6. CASE r.op = "accept"
  <2>1. e = AfterAccept(r, s)
    BY <1>6 DEF Effect
  <2>2. e.item = s.item
    BY <2>1 DEF AfterAccept, Space
  <2> QED
    BY <1>6, <2>2
<1> QED
  BY <1>1, <1>2, <1>3, <1>4, <1>5, <1>6, MemberRequestTyped

(* A space that is deleted afterwards is bare, whether this request deleted *)
(* it or it was deleted before.                                            *)
LEMMA EffectBare ==
  ASSUME NEW r \in Requests, NEW s \in Space, NEW num, Allowed(r, s), Sound(s),
         \A c \in Changes(r, s) : num[c] \in Nat,
         IsDeleted(s) => Bare(s),
         IsDeleted(Effect(r, s, num))
  PROVE  /\ Bare(Effect(r, s, num))
         /\ IsDeleted(s) => \A a \in Account : Effect(r, s, num).member[a] = s.member[a]
<1> DEFINE e == Effect(r, s, num)
<1>0. /\ Main \in Item
      /\ s.owner \in Account \cup {NoAccount} /\ NoAccount \notin Account
  BY SpaceAssumption DEF Space
<1>1. CASE r.op = "write" /\ DeletesSpace(r, s)
  <2> DEFINE written == [s EXCEPT !.item = WrittenItems(r, s, num)]
  <2>1. /\ written \in Space /\ written.owner = s.owner
    BY <1>1, WrittenTyped DEF Space
  <2>2. e = Ended(written, num)
    BY <1>1 DEF Effect, AfterWrite
  <2>3. ~IsDeleted(s)
    BY <1>1 DEF DeletesSpace
  <2> HIDE DEF written
  <2>4. /\ e.owner = written.owner
        /\ \A a \in Account :
             /\ e.member[a] = IF a \in Others(written) THEN "none" ELSE written.member[a]
             /\ e.invite[a] = NoInvitation
        /\ \A i \in Item \ {Main} : e.item[i] = NoItem
    BY <2>1, <2>2 DEF Ended, Space
  <2> HIDE DEF e
  <2>5. Bare(e)
    BY <2>4 DEF Bare, Others, IsMember
  <2> QED
    BY <2>3, <2>5 DEF e
<1>2. CASE ~(r.op = "write" /\ DeletesSpace(r, s))
  <2>1. IsDeleted(s) /\ Bare(s) /\ r.op # "create"
    <3>1. r.op # "create"
      BY EffectMain
    <3>2. CASE r.op = "write"
      BY <1>2, <3>2, EffectMain
    <3>3. CASE r.op # "write"
      BY <3>1, <3>3, EffectMain DEF IsDeleted, Current
    <3> QED
      BY <3>1, <3>2, <3>3
  <2>2. \A a \in Account : s.member[a] # "none" => a = s.owner
    BY <2>1 DEF Bare, Others, IsMember
  <2>3. r.op \in {"write", "disinvite", "reject"}
    <3>1. r.op \notin {"remove", "leave", "modify"}
      BY <2>2, MemberRequestTyped DEF Allowed, IsMember
    <3>2. r.op # "invite"
      BY <2>1 DEF Allowed, InviteAllowed
    <3>3. r.op # "accept"
      <4>1. r.op = "accept" => s.invite[r.who] # NoInvitation /\ r.who \in Account
        BY MemberRequestTyped DEF Allowed, Stands
      <4> QED
        BY <2>1, <4>1 DEF Bare
    <3> QED
      BY <2>1, <3>1, <3>2, <3>3, MemberRequestTyped
  <2>4. CASE r.op = "write"
    <3>1. WriteAllowed(r, s)
      BY <2>4 DEF Allowed
    <3>2. \A i \in Item \ {Main} : i \notin Stored(r, s)
      BY <2>1, <3>1 DEF WriteAllowed, Stored
    <3>3. e = [s EXCEPT !.item = WrittenItems(r, s, num)]
      BY <1>2, <2>4 DEF Effect, AfterWrite
    <3>4. /\ e.owner = s.owner /\ e.member = s.member /\ e.invite = s.invite
          /\ \A i \in Item \ {Main} : e.item[i] = s.item[i]
      BY <3>2, <3>3 DEF WrittenItems, Space
    <3> HIDE DEF e
    <3>5. Bare(e) /\ \A a \in Account : e.member[a] = s.member[a]
      BY <2>1, <3>4 DEF Bare, Others, IsMember
    <3> QED
      BY <3>5 DEF e
  <2>5. CASE r.op \in {"reject", "disinvite"}
    <3>1. /\ e.owner = s.owner /\ e.item = s.item /\ e.member = s.member
          /\ \A a \in Account : e.invite[a] \in {NoInvitation, s.invite[a]}
      BY <2>5 DEF Effect, Space
    <3> HIDE DEF e
    <3>2. Bare(e) /\ \A a \in Account : e.member[a] = s.member[a]
      BY <2>1, <3>1 DEF Bare, Others, IsMember
    <3> QED
      BY <3>2 DEF e
  <2> QED
    BY <2>3, <2>4, <2>5
<1> QED
  BY <1>1, <1>2

(* A deleted space stays deleted under every request. *)
LEMMA EffectStaysDeleted ==
  ASSUME NEW r \in Requests, NEW s \in Space, NEW num, Allowed(r, s), Sound(s),
         \A c \in Changes(r, s) : num[c] \in Nat, IsDeleted(s)
  PROVE  IsDeleted(Effect(r, s, num))
<1>1. r.op # "create"
  <2>1. Main \in Item /\ NoRev \notin Tombstone
    BY SpaceAssumption
  <2>2. s # NoSpace
    BY <2>1 DEF IsDeleted, Current, NoSpace, NoItem
  <2> QED
    BY <2>2 DEF Allowed, Sound
<1> QED
  BY <1>1, EffectMain DEF IsDeleted, Current

(* What a step does to each space: nothing, or the effect of a request.    *)
LEMMA StepOnSpaces ==
  ASSUME TypeOK, SoundInv, DeletedIsEmpty, [Next]_vars, NEW c \in Coll
  PROVE  /\ IsDeleted(space'[c]) => Bare(space'[c])
         /\ IsDeleted(space[c]) =>
              /\ IsDeleted(space'[c])
              /\ \A a \in Account : space'[c].member[a] = space[c].member[a]
<1>1. ASSUME NEW d \in Coll, NEW r \in Requests, Apply(d, r), c = d
      PROVE  /\ IsDeleted(space'[c]) => Bare(space'[c])
             /\ IsDeleted(space[c]) =>
                  /\ IsDeleted(space'[c])
                  /\ \A a \in Account : space'[c].member[a] = space[c].member[a]
  <2> DEFINE s == space[c]
  <2>1. PICK num \in Numberings(Changes(r, s), counter + 1) :
           /\ s \in Space
           /\ Allowed(r, s)
           /\ space'[c] = After(r, s, num, counter')
           /\ \A x \in Changes(r, s) : num[x] \in Nat
    BY <1>1, ApplyTyped DEF TypeOK
  <2> DEFINE e == Effect(r, s, num)
  <2>2. Sound(s) /\ (IsDeleted(s) => Bare(s))
    BY DEF SoundInv, DeletedIsEmpty
  <2>3. e \in Space
    BY <2>1, EffectTyped
  <2>4. /\ space'[c].owner = e.owner /\ space'[c].member = e.member
        /\ space'[c].invite = e.invite /\ space'[c].item = e.item
    BY <2>1, <2>3, AfterFields
  <2>5. /\ IsDeleted(e) => Bare(e)
        /\ IsDeleted(s) => IsDeleted(e)
        /\ IsDeleted(s) => \A a \in Account : e.member[a] = s.member[a]
    BY <2>1, <2>2, EffectBare, EffectStaysDeleted
  <2> HIDE DEF e
  <2>6. IsDeleted(space'[c]) <=> IsDeleted(e)
    BY <2>4 DEF IsDeleted, Current
  <2>7. Bare(e) => Bare(space'[c])
    BY <2>4 DEF Bare, Others, IsMember
  <2> QED
    BY <2>4, <2>5, <2>6, <2>7
<1>2. ASSUME NEW d \in Coll, NEW r \in Requests, Apply(d, r), c # d
      PROVE  space'[c] = space[c]
  BY <1>2, ApplyTyped DEF TypeOK
<1>3. CASE UNCHANGED vars
  BY <1>3 DEF vars, DeletedIsEmpty
<1> QED
  BY <1>1, <1>2, <1>3 DEF Next, DeletedIsEmpty

LEMMA DeletedNext == TypeOK /\ SoundInv /\ DeletedIsEmpty /\ [Next]_vars => DeletedIsEmpty'
<1> SUFFICES ASSUME TypeOK, SoundInv, DeletedIsEmpty, [Next]_vars PROVE DeletedIsEmpty'
  OBVIOUS
<1>1. \A c \in Coll : IsDeleted(space'[c]) => Bare(space'[c])
  BY StepOnSpaces
<1> QED
  BY <1>1 DEF DeletedIsEmpty

LEMMA DeletedInit == Init => DeletedIsEmpty
<1> SUFFICES ASSUME Init, NEW c \in Coll PROVE ~IsDeleted(space[c])
  BY DEF DeletedIsEmpty
<1>1. Main \in Item /\ NoRev \notin Tombstone
  BY SpaceAssumption
<1> QED
  BY <1>1 DEF Init, IsDeleted, Current, NoSpace, NoItem

(* Deleting a space leaves no member, invitation or content behind, and    *)
(* nothing that happens later puts any back.                               *)
THEOREM DeletedStaysEmpty == Spec => []DeletedIsEmpty
BY TypeInit, TypeNext, SoundInit, SoundNext, DeletedInit, DeletedNext, PTL DEF Spec

(* And the deletion itself is for good.                                    *)
THEOREM DeletionStaysFinal == Spec => DeletionIsFinal
<1>1. TypeOK /\ SoundInv /\ DeletedIsEmpty /\ [Next]_vars =>
        [\A c \in Coll : IsDeleted(space[c]) =>
           /\ IsDeleted(space[c])'
           /\ \A a \in Account : ~IsMember(space[c], a) => ~IsMember(space[c], a)']_vars
  BY StepOnSpaces DEF IsMember
<1> QED
  BY <1>1, TypeInit, TypeNext, SoundInit, SoundNext, DeletedInit, DeletedNext, PTL
  DEF Spec, DeletionIsFinal

-----------------------------------------------------------------------------
(* Whoever a request takes out of a space is marked with a number of it.   *)
LEMMA EffectLoss ==
  ASSUME NEW r \in Requests, NEW s \in Space, NEW num, Allowed(r, s),
         NEW a \in Account, IsMember(s, a), ~IsMember(Effect(r, s, num), a)
  PROVE  /\ <<"lost", a>> \in Changes(r, s)
         /\ Effect(r, s, num).lost[a] = num[<<"lost", a>>]
<1> DEFINE e == Effect(r, s, num)
<1>0. /\ s.member[a] # "none" /\ e.member[a] = "none"
      /\ s.member \in [Account -> Standing]
  BY DEF IsMember, Space
<1>8. ASSUME NEW t \in Account, e = AfterRemoval(s, t, num)
      PROVE  \A b \in Account : /\ e.member[b] = IF b = t THEN "none" ELSE s.member[b]
                                /\ e.lost[b] = IF b = t THEN num[<<"lost", t>>] ELSE s.lost[b]
  <2>1. /\ e.member = [s.member EXCEPT ![t] = "none"]
        /\ e.lost = [s.lost EXCEPT ![t] = num[<<"lost", t>>]]
    BY <1>8 DEF AfterRemoval, WithoutInvitesFrom, Space
  <2> HIDE DEF e
  <2> QED
    BY <2>1 DEF Space
<1>1. CASE r.op = "write"
  <2> DEFINE written == [s EXCEPT !.item = WrittenItems(r, s, num)]
  <2>1. /\ written.owner = s.owner /\ written.member = s.member
        /\ written.lost = s.lost /\ written.stoken = s.stoken
        /\ DOMAIN written = DOMAIN s
    BY DEF Space
  <2>2. CASE DeletesSpace(r, s)
    <3>1. e = Ended(written, num)
      BY <1>1, <2>2 DEF Effect, AfterWrite
    <3>2. Others(written) = Others(s)
      BY <2>1 DEF Others, IsMember
    <3>3. /\ e.member[a] = IF a \in Others(s) THEN "none" ELSE s.member[a]
          /\ e.lost[a] = IF a \in Others(s) THEN num[<<"lost", a>>] ELSE s.lost[a]
      BY <3>1, <3>2 DEF Ended, Space
    <3>4. a \in Others(s)
      BY <3>3 DEF IsMember
    <3> QED
      BY <1>1, <2>2, <3>3, <3>4 DEF Changes
  <2>3. CASE ~DeletesSpace(r, s)
    BY <1>1, <2>1, <2>3 DEF Effect, AfterWrite, IsMember
  <2> QED
    BY <2>2, <2>3
<1>2. CASE r.op = "remove"
  <2>1. /\ r.target \in Account
        /\ e = AfterRemoval(s, r.target, num)
        /\ <<"lost", r.target>> \in Changes(r, s)
    BY <1>2, MemberRequestTyped DEF Effect, Changes
  <2> HIDE DEF e
  <2> QED
    BY <1>0, <1>8, <2>1 DEF e
<1>3. CASE r.op = "leave"
  <2>1. /\ r.who \in Account
        /\ e = AfterRemoval(s, r.who, num)
        /\ <<"lost", r.who>> \in Changes(r, s)
    BY <1>3, MemberRequestTyped DEF Effect, Changes
  <2> HIDE DEF e
  <2> QED
    BY <1>0, <1>8, <2>1 DEF e
<1>4. CASE r.op = "create"
  <2>1. e.member = [s.member EXCEPT ![r.who] = "admin"]
    BY <1>4 DEF Effect, AfterCreate, Space
  <2> QED
    BY <2>1 DEF IsMember, Space
<1>5. CASE r.op = "modify"
  <2>1. e.member = [s.member EXCEPT ![r.target] = r.access]
    <3>1. e = AfterModify(r, s)
      BY <1>5 DEF Effect
    <3> QED
      BY <3>1 DEF AfterModify, WithoutInvitesFrom, Space
  <2>2. r.access \in Access
    BY <1>5, MemberRequestTyped
  <2> QED
    BY <2>1, <2>2 DEF IsMember, Space, Access
<1>6. CASE r.op = "accept"
  <2>1. /\ r.who \in Account
        /\ e.member = IF IsMember(s, r.who) THEN s.member
                      ELSE [s.member EXCEPT ![r.who] = s.invite[r.who].access]
    <3>1. e = AfterAccept(r, s) /\ r.who \in Account
      BY <1>6, MemberRequestTyped DEF Effect
    <3> QED
      BY <3>1 DEF AfterAccept, Space
  <2> HIDE DEF e
  <2> QED
    BY <1>0, <2>1 DEF IsMember
<1>7. CASE r.op \in {"invite", "reject", "disinvite"}
  <2>1. e.member = s.member
    BY <1>7 DEF Effect, Space
  <2> QED
    BY <2>1 DEF IsMember
<1> QED
  BY <1>1, <1>2, <1>3, <1>4, <1>5, <1>6, <1>7, MemberRequestTyped

LEMMA LossNext ==
  TypeOK /\ RowsBehindStoken /\ RowsBehindStoken' /\ [Next]_vars =>
    [\A c \in Coll, a \in Account :
       IsMember(space[c], a) /\ ~IsMember(space[c], a)' =>
         /\ space'[c].lost[a] > space[c].stoken
         /\ space'[c].stoken >= space'[c].lost[a]]_vars
<1> SUFFICES ASSUME TypeOK, RowsBehindStoken, RowsBehindStoken', [Next]_vars,
                    NEW c \in Coll, NEW a \in Account,
                    IsMember(space[c], a), ~IsMember(space'[c], a)
             PROVE  /\ space'[c].lost[a] > space[c].stoken
                    /\ space'[c].stoken >= space'[c].lost[a]
  OBVIOUS
<1>1. PICK d \in Coll, r \in Requests : Apply(d, r)
  BY DEF Next, vars
<1>2. d = c
  BY <1>1, ApplyTyped DEF TypeOK
<1> DEFINE s == space[c]
<1>3. PICK num \in Numberings(Changes(r, s), counter + 1) :
        /\ s \in Space
        /\ Allowed(r, s)
        /\ space'[c] = After(r, s, num, counter')
        /\ \A x \in Changes(r, s) : num[x] \in Nat /\ counter < num[x]
  BY <1>1, <1>2, ApplyTyped DEF TypeOK
<1>4. /\ space'[c].member = Effect(r, s, num).member
      /\ space'[c].lost = Effect(r, s, num).lost
  BY <1>3, EffectTyped, AfterFields
<1>5. /\ <<"lost", a>> \in Changes(r, s)
      /\ space'[c].lost[a] = num[<<"lost", a>>]
  BY <1>3, <1>4, EffectLoss DEF IsMember
<1>6. /\ counter \in Nat /\ s.stoken \in Nat /\ s.stoken <= counter
      /\ space'[c].lost[a] <= space'[c].stoken
  BY <1>3 DEF TypeOK, RowsBehindStoken, Space
<1>7. TypeOK'
  BY TypeNext
<1>8. space'[c].lost[a] \in Nat /\ space'[c].stoken \in Nat
  BY <1>7 DEF TypeOK, Space
<1> QED
  BY <1>3, <1>5, <1>6, <1>8

(* Whoever loses a space is told by a number above every cursor a device   *)
(* may have taken from that space before.                                  *)
THEOREM LossesAreAnnounced == Spec => LossIsAnnounced
BY TypeInit, TypeNext, BehindInit, BehindNext, LossNext, PTL DEF Spec, LossIsAnnounced

-----------------------------------------------------------------------------
(* A row is numbered exactly when it is there. *)
Numbered(s) == \A i \in Item : s.item[i] = NoItem \/ s.item[i].num > 0

Distinct(s) == \A i, j \in Item :
  s.item[i].revs # <<>> /\ s.item[i].num = s.item[j].num => i = j

(* The rows a request writes take numbers above all others, each its own.  *)
LEMMA AfterDistinct ==
  ASSUME NEW r \in Requests, NEW s \in Space, NEW first \in Nat, first > 0,
         NEW num \in Numberings(Changes(r, s), first), NEW last,
         \A c \in Changes(r, s) : num[c] \in Nat /\ first <= num[c],
         \A i \in Item : s.item[i].num < first,
         Numbered(s), Distinct(s)
  PROVE  Numbered(After(r, s, num, last)) /\ Distinct(After(r, s, num, last))
<1> DEFINE e == Effect(r, s, num)
           t == After(r, s, num, last)
<1>1. e \in Space
  BY EffectTyped
<1>2. t.item = e.item
  BY <1>1, AfterFields
<1>3. \A i \in Item :
        \/ e.item[i] \in {s.item[i], NoItem}
        \/ <<"item", i>> \in Changes(r, s) /\ e.item[i].num = num[<<"item", i>>]
  BY EffectNumbers
<1>4. \A c, d \in Changes(r, s) : num[c] = num[d] => c = d
  BY DEF Numberings
<1>5. NoItem.num = 0 /\ NoItem.revs = <<>>
  BY DEF NoItem
<1>6. \A i \in Item : s.item[i].num \in Nat
  BY DEF Space
<1> HIDE DEF e, t
<1>10. \A i \in Item :
         t.item[i] \in {s.item[i], NoItem} \/ (t.item[i].num \in Nat /\ first <= t.item[i].num)
  <2>1. \A i \in Item : <<"item", i>> \in Changes(r, s) =>
          num[<<"item", i>>] \in Nat /\ first <= num[<<"item", i>>]
    OBVIOUS
  <2> QED
    BY <1>2, <1>3, <2>1
<1>11. \A i \in Item : s.item[i].num < first /\ (s.item[i] = NoItem \/ s.item[i].num > 0)
  BY DEF Numbered
<1>7. ASSUME NEW i \in Item
      PROVE  t.item[i] = NoItem \/ t.item[i].num > 0
  BY <1>10, <1>11
<1>8. ASSUME NEW i \in Item, NEW j \in Item,
             t.item[i].revs # <<>>, t.item[i].num = t.item[j].num
      PROVE  i = j
  <2>1. CASE t.item[i] = s.item[i]
    <3>1. s.item[i].num > 0 /\ s.item[i].num < first /\ t.item[j].num = s.item[i].num
      BY <1>5, <1>8, <1>11, <2>1
    <3>2. t.item[j] = s.item[j]
      BY <1>5, <1>6, <1>10, <3>1
    <3> QED
      BY <1>8, <2>1, <3>2 DEF Distinct
  <2>2. CASE <<"item", i>> \in Changes(r, s) /\ t.item[i].num = num[<<"item", i>>]
    <3>1. CASE t.item[j] \in {s.item[j], NoItem}
      <4>1. first <= t.item[i].num /\ t.item[i].num \in Nat
        BY <2>2
      <4>2. t.item[j].num < first /\ t.item[j].num \in Nat
        BY <1>5, <1>6, <1>11, <3>1
      <4> QED
        BY <1>8, <4>1, <4>2
    <3>2. CASE <<"item", j>> \in Changes(r, s) /\ t.item[j].num = num[<<"item", j>>]
      <4>1. <<"item", i>> = <<"item", j>>
        BY <1>4, <1>8, <2>2, <3>2
      <4> QED
        BY <4>1
    <3> QED
      BY <1>2, <1>3, <3>1, <3>2
  <2>3. t.item[i] # NoItem
    BY <1>5, <1>8
  <2> QED
    BY <1>2, <1>3, <2>1, <2>2, <2>3
<1>9. Numbered(t) /\ Distinct(t)
  BY <1>7, <1>8 DEF Numbered, Distinct
<1> QED
  BY <1>9 DEF t

NumberedInv == \A c \in Coll : Numbered(space[c]) /\ Distinct(space[c])

StokensInv == \A c, d \in Coll :
  Exists(space[c]) /\ space[c].stoken = space[d].stoken => c = d

LEMMA NumberedInit == Init => NumberedInv /\ StokensInv
BY DEF Init, NumberedInv, StokensInv, Numbered, Distinct, NoSpace, NoItem, Exists

LEMMA NumberedNext ==
  TypeOK /\ RowsBehindStoken /\ SoundInv /\ NumberedInv /\ StokensInv /\ [Next]_vars
    => NumberedInv' /\ StokensInv'
<1> SUFFICES ASSUME TypeOK, RowsBehindStoken, SoundInv, NumberedInv, StokensInv, [Next]_vars
             PROVE  NumberedInv' /\ StokensInv'
  OBVIOUS
<1>1. ASSUME NEW c \in Coll, NEW r \in Requests, Apply(c, r)
      PROVE  NumberedInv' /\ StokensInv'
  <2> DEFINE s == space[c]
  <2>1. PICK num \in Numberings(Changes(r, s), counter + 1) :
           /\ s \in Space
           /\ Allowed(r, s)
           /\ space' = [space EXCEPT ![c] = After(r, s, num, counter')]
           /\ counter' \in Nat
           /\ counter <= counter'
           /\ (counter' = counter <=> Changes(r, s) = {})
           /\ \A d \in Changes(r, s) : num[d] \in Nat /\ counter < num[d]
    BY <1>1, ApplyTyped
  <2> DEFINE t == After(r, s, num, counter')
  <2>2. \A d \in Coll : space'[d] = IF d = c THEN t ELSE space[d]
    BY <2>1 DEF TypeOK
  <2>3. counter \in Nat
    BY DEF TypeOK
  <2>4. NumberedInv'
    <3>1. \A i \in Item : s.item[i].num < counter + 1
      BY <2>1, <2>3 DEF RowsBehindStoken, Space
    <3>2. \A d \in Changes(r, s) : num[d] \in Nat /\ counter + 1 <= num[d]
      BY <2>1, <2>3
    <3>3. Numbered(t) /\ Distinct(t)
      BY <2>1, <2>3, <3>1, <3>2, AfterDistinct DEF NumberedInv
    <3> HIDE DEF t
    <3> QED
      BY <2>2, <3>3 DEF NumberedInv
  <2>5. StokensInv'
    <3>1. t.stoken = IF Changes(r, s) = {} THEN s.stoken ELSE counter'
      BY <2>1, AfterNumbers
    <3>2. \A d \in Coll : space[d].stoken \in Nat /\ space[d].stoken <= counter
      BY DEF TypeOK, RowsBehindStoken, Space
    <3>3. Changes(r, s) = {} => Exists(s)
      <4>1. Changes(r, s) = {} => r.op # "create"
        BY DEF Changes
      <4> QED
        BY <2>1, <4>1, OnlyCreateMakes DEF SoundInv, Sound
    <3> HIDE DEF t
    <3>4. ASSUME NEW a \in Coll, NEW b \in Coll, Exists(space'[a]),
                 space'[a].stoken = space'[b].stoken
          PROVE  a = b
      BY <2>1, <2>2, <2>3, <3>1, <3>2, <3>3, <3>4 DEF StokensInv
    <3> QED
      BY <3>4 DEF StokensInv
  <2> QED
    BY <2>4, <2>5
<1>2. CASE UNCHANGED vars
  BY <1>2 DEF vars, NumberedInv, StokensInv
<1> QED
  BY <1>1, <1>2 DEF Next

(* No two rows of a list share a number: a page that ends at one continues *)
(* after it without leaving a row out.                                     *)
THEOREM NumbersStayUnique == Spec => []NumbersAreUnique
<1>1. NumberedInv /\ StokensInv => NumbersAreUnique
  BY DEF NumberedInv, StokensInv, NumbersAreUnique, Distinct
<1> QED
  BY <1>1, TypeInit, TypeNext, BehindInit, BehindNext, SoundInit, SoundNext,
     NumberedInit, NumberedNext, PTL DEF Spec

=============================================================================
