---------------------- MODULE SpaceTransactionsProofs -----------------------
(***************************************************************************)
(* That the transactions implement SpaceLog, whatever their number and     *)
(* whatever the requests.  The argument is the locks: from the moment a    *)
(* handler has read its space until it ends, nobody else writes to it, and *)
(* from the moment it took numbers nobody else moves the counter.          *)
(***************************************************************************)
EXTENDS SpaceTransactions, SpacesProofs

Type ==
  /\ counter \in 0..MaxNum
  /\ space \in [Coll -> Space]
  /\ collLock \in [Coll -> Tx \cup {NoTx}]
  /\ counterLock \in Tx \cup {NoTx}
  /\ tx \in [Tx -> Transaction]

(* What an open transaction has read is what is committed. *)
Holds(t) ==
  /\ tx[t].pc # "idle" => collLock[tx[t].coll] = t
  /\ tx[t].pc \in {"decided", "numbered"} =>
       /\ tx[t].view = space[tx[t].coll]
       /\ Allowed(tx[t].req, tx[t].view)
  /\ tx[t].pc = "numbered" =>
       /\ counterLock = t
       /\ tx[t].first = counter + 1
       /\ Count(t) > 0
       /\ counter + Count(t) <= MaxNum

Inv == Type /\ \A t \in Tx : Holds(t)

-----------------------------------------------------------------------------
(* SpaceLog reads the operators of Spaces as this module does. *)
LEMMA SameChanges == \A r, s : Log!Changes(r, s) = Changes(r, s)
BY DEF Changes, Log!Changes, Stored, Log!Stored, Current, Log!Current, DeletesSpace,
       Log!DeletesSpace, IsDeleted, Log!IsDeleted, Others, Log!Others, IsMember, Log!IsMember

LEMMA SameCardinality == \A c : Log!Cardinality(c) = Cardinality(c)
BY DEF Cardinality, Log!Cardinality

LEMMA SameNumberings == \A c, f : Log!Numberings(c, f) = Numberings(c, f)
BY SameCardinality DEF Numberings, Log!Numberings

LEMMA SameRequests == Log!Requests = Requests
BY DEF Requests, Log!Requests, WriteRequests, Log!WriteRequests, Put, Log!Put,
       MemberRequests, Log!MemberRequests, Access, Log!Access

LEMMA SameAllowed == \A r, s : Log!Allowed(r, s) <=> Allowed(r, s)
BY DEF Allowed, Log!Allowed, Exists, Log!Exists, WriteAllowed, Log!WriteAllowed,
       IsAdmin, Log!IsAdmin, IsMember, Log!IsMember, IsDeleted, Log!IsDeleted,
       Current, Log!Current, DeletesSpace, Log!DeletesSpace, Stored, Log!Stored,
       InviteAllowed, Log!InviteAllowed, NoInvitation, Log!NoInvitation, Stands, Log!Stands

LEMMA SameEffect == \A r, s, n : Log!Effect(r, s, n) = Effect(r, s, n)
<1> TAKE r, s, n
<1>1. /\ Log!DeletesSpace(r, s) <=> DeletesSpace(r, s)
      /\ Log!Stored(r, s) = Stored(r, s)
      /\ Log!IsMember(s, r.who) <=> IsMember(s, r.who)
      /\ Log!NoItem = NoItem /\ Log!NoInvitation = NoInvitation
  BY DEF Stored, Log!Stored, Current, Log!Current, DeletesSpace, Log!DeletesSpace,
         IsDeleted, Log!IsDeleted, IsMember, Log!IsMember, NoItem, Log!NoItem,
         NoInvitation, Log!NoInvitation
<1>2. \A a : Log!WithoutInvitesFrom(s, a) = WithoutInvitesFrom(s, a)
  BY <1>1 DEF WithoutInvitesFrom, Log!WithoutInvitesFrom
<1>3. \A a : Log!AfterRemoval(s, a, n) = AfterRemoval(s, a, n)
  BY <1>1, <1>2 DEF AfterRemoval, Log!AfterRemoval
<1>4. Log!AfterModify(r, s) = AfterModify(r, s)
  BY <1>2 DEF AfterModify, Log!AfterModify
<1>5. Log!AfterAccept(r, s) = AfterAccept(r, s)
  BY <1>1 DEF AfterAccept, Log!AfterAccept
<1>6. Log!AfterCreate(r, s, n) = AfterCreate(r, s, n)
  BY DEF AfterCreate, Log!AfterCreate
<1>7. Log!WrittenItems(r, s, n) = WrittenItems(r, s, n)
  BY <1>1 DEF WrittenItems, Log!WrittenItems, Pruned, Log!Pruned
<1>8. \A t : Log!Ended(t, n) = Ended(t, n)
  BY <1>1 DEF Ended, Log!Ended, Others, Log!Others, IsMember, Log!IsMember
<1>9. Log!AfterWrite(r, s, n) = AfterWrite(r, s, n)
  BY <1>1, <1>7, <1>8 DEF AfterWrite, Log!AfterWrite
<1> QED
  BY <1>1, <1>3, <1>4, <1>5, <1>6, <1>9 DEF Effect, Log!Effect

LEMMA SameAfter == \A r, s, n, l : Log!After(r, s, n, l) = After(r, s, n, l)
BY SameChanges, SameEffect DEF After, Log!After

-----------------------------------------------------------------------------
LEMMA InvInit == Init => Inv
<1> SUFFICES ASSUME Init PROVE Inv
  OBVIOUS
<1>1. NoSpace \in Space
  BY EmptySeq DEF NoSpace, Space, NoItem, Standing, NoInvitation
<1>2. Type
  BY <1>1, TxAssumption DEF Init, Type, Transaction
<1> QED
  BY <1>2 DEF Init, Inv, Holds, Idle

(* What a transaction that is open knows. *)
LEMMA OpenTyped ==
  ASSUME Inv, NEW t \in Tx
  PROVE  /\ tx[t] = Idle \/ tx[t].pc \in {"locked", "decided", "numbered"}
         /\ tx[t].pc # "idle" => tx[t].coll \in Coll
         /\ tx[t].pc \in {"decided", "numbered"} =>
              /\ tx[t].req \in Requests
              /\ tx[t].view \in Space
              /\ Count(t) \in Nat
              /\ (Count(t) = 0 <=> Changes(tx[t].req, tx[t].view) = {})
         /\ tx[t].pc = "numbered" => tx[t].first \in Nat
<1>1. tx[t] \in Transaction
  BY DEF Inv, Type
<1>2. tx[t].pc \in {"decided", "numbered"} => tx[t].req \in Requests /\ tx[t].view \in Space
  BY <1>1 DEF Transaction, Idle
<1>3. tx[t].pc \in {"decided", "numbered"} =>
        Count(t) \in Nat /\ (Count(t) = 0 <=> Changes(tx[t].req, tx[t].view) = {})
  BY <1>2, ChangesFinite DEF Count
<1>4. /\ tx[t] = Idle \/ tx[t].pc \in {"locked", "decided", "numbered"}
      /\ tx[t].pc # "idle" => tx[t].coll \in Coll
      /\ tx[t].pc = "numbered" => tx[t].first \in Nat
  BY <1>1 DEF Transaction, Idle
<1> QED
  BY <1>2, <1>3, <1>4

(* Ending a transaction that holds a lock on nothing but its own leaves    *)
(* what the others hold.                                                   *)
LEMMA ReleaseHolds ==
  ASSUME Inv, NEW t \in Tx, tx[t].pc # "idle", Release(t),
         counter' \in 0..MaxNum, space' \in [Coll -> Space],
         \A c \in Coll \ {tx[t].coll} : space'[c] = space[c],
         tx[t].pc # "numbered" => counter' = counter
  PROVE  Inv'
<1>1. Type'
  BY DEF Inv, Type, Release, Transaction
<1>2. ASSUME NEW u \in Tx
      PROVE  Holds(u)'
  <2>1. CASE u = t
    BY <2>1 DEF Inv, Type, Release, Holds, Idle
  <2>2. CASE u # t
    <3>1. tx'[u] = tx[u] /\ Holds(u) /\ Holds(t)
      BY <2>2 DEF Inv, Type, Release
    <3>2. Count(u)' = Count(u)
      BY <3>1 DEF Count
    <3>3. tx[u].pc # "idle" => /\ tx[u].coll \in Coll
                               /\ tx[u].coll # tx[t].coll
                               /\ collLock'[tx[u].coll] = u
      BY <2>2, <3>1, OpenTyped DEF Holds, Release
    <3>4. tx[u].pc = "numbered" => counterLock' = u /\ counter' = counter
      BY <2>2, <3>1 DEF Holds, Release
    <3>5. tx[u].pc # "idle" => space'[tx[u].coll] = space[tx[u].coll]
      BY <3>3
    <3>6. tx[u].pc \in {"decided", "numbered"} => tx[u].pc # "idle"
      OBVIOUS
    <3> QED
      BY <3>1, <3>2, <3>3, <3>4, <3>5, <3>6 DEF Holds
  <2> QED
    BY <2>1, <2>2
<1> QED
  BY <1>1, <1>2 DEF Inv

(* A commit is the request, applied to what is committed now.              *)
LEMMA CommitApplies ==
  ASSUME Inv, NEW t \in Tx, CommitNumbered(t) \/ CommitUnnumbered(t)
  PROVE  /\ Log!Apply(tx[t].coll, tx[t].req)
         /\ counter' \in 0..MaxNum
         /\ space' \in [Coll -> Space]
         /\ \A c \in Coll \ {tx[t].coll} : space'[c] = space[c]
<1> DEFINE c == tx[t].coll
           r == tx[t].req
           s == space[c]
           last == counter + Cardinality(Changes(r, s))
<1>1. tx[t].pc \in {"decided", "numbered"}
  BY DEF CommitNumbered, CommitUnnumbered
<1>2. /\ c \in Coll /\ r \in Requests /\ s \in Space /\ counter \in Nat
      /\ tx[t].view = s /\ Allowed(r, s)
  BY <1>1, OpenTyped DEF Inv, Type, Holds
<1>3. /\ Count(t) = Cardinality(Changes(r, s)) /\ Count(t) \in Nat
      /\ (Count(t) = 0 <=> Changes(r, s) = {})
  BY <1>1, <1>2, OpenTyped DEF Count
<1>4. \E num \in Numberings(Changes(r, s), counter + 1) :
        /\ counter' = last
        /\ last <= MaxNum
        /\ space' = [space EXCEPT ![c] = After(r, s, num, last)]
  <2>1. CASE CommitNumbered(t)
    <3>1. tx[t].first = counter + 1 /\ counter + Count(t) <= MaxNum /\ tx[t].pc = "numbered"
      BY <2>1 DEF CommitNumbered, Inv, Holds
    <3>2. tx[t].first + Count(t) - 1 = last
      BY <1>2, <1>3, <3>1
    <3> QED
      BY <1>2, <1>3, <2>1, <3>1, <3>2 DEF CommitNumbered
  <2>2. CASE CommitUnnumbered(t)
    <3>1. Changes(r, s) = {} /\ last = counter
      BY <1>2, <1>3, <2>2 DEF CommitUnnumbered
    <3>2. counter <= MaxNum
      BY TxAssumption DEF Inv, Type
    <3> QED
      BY <1>2, <2>2, <3>1, <3>2 DEF CommitUnnumbered
  <2> QED
    BY <2>1, <2>2
<1>5. PICK num \in Numberings(Changes(r, s), counter + 1) :
        /\ counter' = last
        /\ last <= MaxNum
        /\ space' = [space EXCEPT ![c] = After(r, s, num, last)]
  BY <1>4
<1>6. \A d \in Changes(r, s) : num[d] \in Nat
  BY <1>2, <1>3, NumberingTyped
<1>7. last \in Nat /\ After(r, s, num, last) \in Space
  BY <1>2, <1>3, <1>6, AfterTyped
<1>8. Log!Apply(c, r)
  BY <1>2, <1>5, SameChanges, SameAllowed, SameNumberings, SameAfter, SameCardinality
  DEF Log!Apply
<1> QED
  BY <1>2, <1>5, <1>7, <1>8 DEF Inv, Type

LEMMA InvNext == Inv /\ [Next]_vars => Inv'
<1> SUFFICES ASSUME Inv, [Next]_vars PROVE Inv'
  OBVIOUS
<1>1. ASSUME NEW t \in Tx, NEW c \in Coll, LockCollection(t, c)
      PROVE  Inv'
  <2>1. Type'
    BY <1>1 DEF Inv, Type, LockCollection, Transaction
  <2>2. ASSUME NEW u \in Tx
        PROVE  Holds(u)'
    <3>1. CASE u = t
      BY <1>1, <3>1 DEF Inv, Type, LockCollection, Holds
    <3>2. CASE u # t
      <4>1. tx'[u] = tx[u] /\ Holds(u)
        BY <1>1, <3>2 DEF Inv, Type, LockCollection
      <4>2. tx[u].pc # "idle" => tx[u].coll # c /\ tx[u].coll \in Coll
        BY <1>1, <4>1, OpenTyped, TxAssumption DEF LockCollection, Holds
      <4>3. tx[u].pc # "idle" => collLock'[tx[u].coll] = collLock[tx[u].coll]
        BY <1>1, <4>2 DEF Inv, Type, LockCollection
      <4>4. Count(u)' = Count(u)
        BY <4>1 DEF Count
      <4> QED
        BY <1>1, <4>1, <4>3, <4>4 DEF LockCollection, Holds
    <3> QED
      BY <3>1, <3>2
  <2> QED
    BY <2>1, <2>2 DEF Inv
<1>2. ASSUME NEW t \in Tx, NEW r \in Requests, Decide(t, r)
      PROVE  Inv'
  <2>1. tx[t].coll \in Coll /\ space[tx[t].coll] \in Space
    BY <1>2, OpenTyped DEF Decide, Inv, Type
  <2>2. Type'
    BY <1>2, <2>1 DEF Inv, Type, Decide, Transaction
  <2>3. ASSUME NEW u \in Tx
        PROVE  Holds(u)'
    <3>1. CASE u = t
      BY <1>2, <3>1 DEF Inv, Type, Decide, Holds
    <3>2. CASE u # t
      <4>1. tx'[u] = tx[u] /\ Holds(u)
        BY <1>2, <3>2 DEF Inv, Type, Decide
      <4>2. Count(u)' = Count(u)
        BY <4>1 DEF Count
      <4> QED
        BY <1>2, <4>1, <4>2 DEF Decide, Holds
    <3> QED
      BY <3>1, <3>2
  <2> QED
    BY <2>2, <2>3 DEF Inv
<1>3. ASSUME NEW t \in Tx, TakeNumbers(t)
      PROVE  Inv'
  <2>1. /\ tx[t].coll \in Coll /\ tx[t].req \in Requests /\ tx[t].view \in Space
        /\ Count(t) \in Nat
    BY <1>3, OpenTyped DEF TakeNumbers
  <2>2. counter + 1 \in Nat
    BY TxAssumption DEF Inv, Type
  <2>3. Type'
    BY <1>3, <2>1, <2>2 DEF Inv, Type, TakeNumbers, Transaction
  <2>4. ASSUME NEW u \in Tx
        PROVE  Holds(u)'
    <3>1. CASE u = t
      <4>1. /\ tx'[t] = [pc |-> "numbered", coll |-> tx[t].coll, req |-> tx[t].req,
                         view |-> tx[t].view, first |-> counter + 1]
            /\ Holds(t)
        BY <1>3 DEF Inv, Type, TakeNumbers
      <4>2. Count(t)' = Count(t)
        BY <4>1 DEF Count
      <4> QED
        BY <1>3, <3>1, <4>1, <4>2 DEF TakeNumbers, Holds
    <3>2. CASE u # t
      <4>1. tx'[u] = tx[u] /\ Holds(u)
        BY <1>3, <3>2 DEF Inv, Type, TakeNumbers
      <4>2. Count(u)' = Count(u)
        BY <4>1 DEF Count
      <4>3. tx[u].pc # "numbered"
        BY <1>3, <4>1, TxAssumption DEF TakeNumbers, Holds
      <4> QED
        BY <1>3, <4>1, <4>2, <4>3 DEF TakeNumbers, Holds
    <3> QED
      BY <3>1, <3>2
  <2> QED
    BY <2>3, <2>4 DEF Inv
<1>4. ASSUME NEW t \in Tx, CommitNumbered(t) \/ CommitUnnumbered(t)
      PROVE  Inv'
  <2>1. Release(t) /\ tx[t].pc # "idle" /\ (tx[t].pc # "numbered" => counter' = counter)
    BY <1>4 DEF CommitNumbered, CommitUnnumbered
  <2> QED
    BY <1>4, <2>1, CommitApplies, ReleaseHolds
<1>5. ASSUME NEW t \in Tx, RollBack(t)
      PROVE  Inv'
  <2>1. tx[t].pc # "idle"
    BY <1>5, OpenTyped DEF RollBack
  <2> QED
    BY <1>5, <2>1, ReleaseHolds DEF RollBack, Inv, Type
<1>6. CASE UNCHANGED vars
  BY <1>6 DEF vars, Inv, Type, Holds, Count
<1> QED
  BY <1>1, <1>2, <1>3, <1>4, <1>5, <1>6 DEF Next

LEMMA StepApplies == Inv /\ [Next]_vars => [Log!Next]_Log!vars
<1> SUFFICES ASSUME Inv, [Next]_vars PROVE [Log!Next]_Log!vars
  OBVIOUS
<1>1. ASSUME NEW t \in Tx, CommitNumbered(t) \/ CommitUnnumbered(t)
      PROVE  Log!Next
  <2>1. tx[t].coll \in Coll /\ tx[t].req \in Requests
    BY <1>1, OpenTyped DEF CommitNumbered, CommitUnnumbered
  <2> QED
    BY <1>1, <2>1, CommitApplies, SameRequests DEF Log!Next
<1>2. ASSUME NEW t \in Tx,
             \/ \E c \in Coll : LockCollection(t, c)
             \/ \E r \in Requests : Decide(t, r)
             \/ TakeNumbers(t)
             \/ RollBack(t)
      PROVE  UNCHANGED Log!vars
  BY <1>2 DEF LockCollection, Decide, TakeNumbers, RollBack, Log!vars
<1>3. CASE UNCHANGED vars
  BY <1>3 DEF vars, Log!vars
<1> QED
  BY <1>1, <1>2, <1>3 DEF Next

(* The transactions implement the log: every handler that commits takes    *)
(* effect at its commit as one request, on the space as it is then, and    *)
(* every other step changes nothing anybody can see.                       *)
THEOREM TransactionsImplementLog == Spec => ImplementsLog
<1>1. Init => Log!Init
  BY DEF Init, Log!Init, NoSpace, Log!NoSpace, NoItem, Log!NoItem, NoInvitation,
         Log!NoInvitation
<1> QED
  BY <1>1, InvInit, InvNext, StepApplies, PTL DEF Spec, ImplementsLog, Log!Spec

=============================================================================
