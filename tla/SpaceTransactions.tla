------------------------- MODULE SpaceTransactions --------------------------
(***************************************************************************)
(* The requests that write to spaces, as the database transactions the     *)
(* server runs them in (READ COMMITTED).  A handler locks the collection's *)
(* row, reads in statements of their own what it decides by, takes numbers *)
(* from the one row of change_counter, whose lock it then holds too, and   *)
(* commits.  Nothing it wrote shows before the commit.  It can end at any  *)
(* step without one: the request is refused, a limit or the blob storage   *)
(* says no, the client goes away, or the server does.                      *)
(*                                                                         *)
(* Two handlers on one collection take turns at the first lock.  Handlers  *)
(* on different collections run side by side and meet at the counter.      *)
(***************************************************************************)
EXTENDS Spaces

CONSTANTS
  Coll,         \* the uids of spaces
  MaxNum,       \* bound: no handler takes a number above this
  Tx,           \* the transactions that may be open at once
  NoTx          \* nobody holds the lock

ASSUME TxAssumption == MaxNum \in Nat /\ NoTx \notin Tx

VARIABLES
  counter,      \* change_counter, as committed
  space,        \* the spaces, as committed
  collLock,     \* who holds the row lock of a collection
  counterLock,  \* who holds the row lock of change_counter
  tx            \* the open transactions

vars == <<counter, space, collLock, counterLock, tx>>

Idle == [pc |-> "idle"]

Transaction ==
       { Idle }
  \cup [pc : {"locked"}, coll : Coll]
  \cup [pc : {"decided"}, coll : Coll, req : Requests, view : Space]
  \cup [pc : {"numbered"}, coll : Coll, req : Requests, view : Space, first : Nat]

Count(t) == Cardinality(Changes(tx[t].req, tx[t].view))

Init ==
  /\ counter = 0
  /\ space = [c \in Coll |-> NoSpace]
  /\ collLock = [c \in Coll |-> NoTx]
  /\ counterLock = NoTx
  /\ tx = [t \in Tx |-> Idle]

-----------------------------------------------------------------------------
(* SELECT ... FOR UPDATE on the collection's row, or, for a create, the    *)
(* INSERT of it, which waits for another insert of the same uid.           *)
LockCollection(t, c) ==
  /\ tx[t] = Idle
  /\ collLock[c] = NoTx
  /\ collLock' = [collLock EXCEPT ![c] = t]
  /\ tx' = [tx EXCEPT ![t] = [pc |-> "locked", coll |-> c]]
  /\ UNCHANGED <<counter, space, counterLock>>

(* What the handler decides by is read once the lock is held.              *)
Decide(t, r) ==
  /\ tx[t].pc = "locked"
  /\ Allowed(r, space[tx[t].coll])
  /\ tx' = [tx EXCEPT ![t] = [pc |-> "decided", coll |-> tx[t].coll,
                              req |-> r, view |-> space[tx[t].coll]]]
  /\ UNCHANGED <<counter, space, collLock, counterLock>>

(* As when the number is read without the row's lock.                      *)
TakeNumbersUnlocked(t) ==
  /\ tx[t].pc = "decided"
  /\ Count(t) > 0
  /\ counter + Count(t) <= MaxNum
  /\ tx' = [tx EXCEPT ![t] = [pc |-> "numbered", coll |-> tx[t].coll, req |-> tx[t].req,
                              view |-> tx[t].view, first |-> counter + 1]]
  /\ UNCHANGED <<counter, space, collLock, counterLock>>

(* next_changes: the UPDATE waits for the row's lock, adds to the value as *)
(* last committed, and keeps the lock.                                     *)
TakeNumbers(t) ==
  /\ tx[t].pc = "decided"
  /\ Count(t) > 0
  /\ counterLock = NoTx
  /\ counter + Count(t) <= MaxNum
  /\ counterLock' = t
  /\ tx' = [tx EXCEPT ![t] = [pc |-> "numbered", coll |-> tx[t].coll, req |-> tx[t].req,
                              view |-> tx[t].view, first |-> counter + 1]]
  /\ UNCHANGED <<counter, space, collLock>>

(* As when the counter's lock outlives the transaction.                    *)
ReleaseSpaceOnly(t) ==
  /\ tx' = [tx EXCEPT ![t] = Idle]
  /\ collLock' = [c \in Coll |-> IF collLock[c] = t THEN NoTx ELSE collLock[c]]
  /\ UNCHANGED counterLock

(* The end of a transaction, however it ends, releases what it holds.      *)
Release(t) ==
  /\ tx' = [tx EXCEPT ![t] = Idle]
  /\ collLock' = [c \in Coll |-> IF collLock[c] = t THEN NoTx ELSE collLock[c]]
  /\ counterLock' = IF counterLock = t THEN NoTx ELSE counterLock

(* The handler wrote by what it had read, under the numbers it took.       *)
CommitNumbered(t) ==
  /\ tx[t].pc = "numbered"
  /\ LET last == tx[t].first + Count(t) - 1
     IN  /\ counter' = last
         /\ \E num \in Numberings(Changes(tx[t].req, tx[t].view), tx[t].first) :
              space' = [space EXCEPT ![tx[t].coll] = After(tx[t].req, tx[t].view, num, last)]
  /\ Release(t)

(* A retry, an invitation: the space changes or does not, and no cursor    *)
(* moves.                                                                  *)
CommitUnnumbered(t) ==
  /\ tx[t].pc = "decided"
  /\ Count(t) = 0
  /\ \E num \in Numberings({}, counter + 1) :
       space' = [space EXCEPT ![tx[t].coll] = After(tx[t].req, tx[t].view, num, counter)]
  /\ Release(t)
  /\ UNCHANGED counter

RollBack(t) ==
  /\ tx[t] # Idle
  /\ Release(t)
  /\ UNCHANGED <<counter, space>>

Next ==
  \E t \in Tx :
    \/ \E c \in Coll : LockCollection(t, c)
    \/ \E r \in Requests : Decide(t, r)
    \/ TakeNumbers(t)
    \/ CommitNumbered(t)
    \/ CommitUnnumbered(t)
    \/ RollBack(t)

(* The database gives a lock to whoever waits for it in turn, and a        *)
(* handler that has decided runs on to its commit.                         *)
Fairness ==
  \A t \in Tx :
    /\ SF_vars(TakeNumbers(t))
    /\ WF_vars(CommitNumbered(t) \/ CommitUnnumbered(t))

Spec == Init /\ [][Next]_vars
FairSpec == Spec /\ Fairness

-----------------------------------------------------------------------------
(* Each transaction takes effect as one request of SpaceLog, at its        *)
(* commit, on the space as it is then: no lost update, no write by someone *)
(* who was removed or demoted while it waited, nothing into a space that   *)
(* was deleted while it waited, and numbers in the order of the commits.   *)
Log == INSTANCE SpaceLog
ImplementsLog == Log!Spec

(* A handler that has decided and whose numbers are left to take ends, in  *)
(* a commit or without: none waits for a lock for ever, whatever the other *)
(* handlers hold.                                                         *)
Running(t) ==
  \/ tx[t].pc = "numbered"
  \/ tx[t].pc = "decided" /\ counter + Count(t) <= MaxNum

EveryHandlerEnds == \A t \in Tx : Running(t) ~> ~Running(t)

=============================================================================
