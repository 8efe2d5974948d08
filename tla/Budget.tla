------------------------------- MODULE Budget -------------------------------
(***************************************************************************)
(* What one account may store: its plan limits the bytes of all its spaces *)
(* together and the number of its spaces (limits.rs).  The transactions    *)
(* that charge bytes run side by side.  Each holds the row of its space,   *)
(* then the account's budget lock, then the change counter, every one      *)
(* until it commits; a new space has no row to hold before the budget.     *)
(* A transaction sees what others committed, at each of its statements.    *)
(***************************************************************************)
EXTENDS Naturals, FiniteSetsExt

CONSTANTS
  Request,      \* transactions of members of the account's spaces
  Owned,        \* ids of the account's spaces: numbers, in the order they are locked
  StorageLimit, \* storage_limit_bytes of the plan
  SpaceLimit    \* max_spaces of the plan

Nobody == "nobody"

ASSUME BudgetAssumption ==
  /\ IsFiniteSet(Owned) /\ Owned \subseteq Nat /\ Nobody \notin Request
  /\ {StorageLimit, SpaceLimit} \subseteq Nat

VARIABLES
  bytesUsed,    \* collections.bytes_used, as committed
  spaceState,   \* "none", "live" or "deleted"
  rowLock,      \* who holds the row of a space
  budgetLock,   \* who holds the account's advisory lock
  counterLock,  \* who holds the change counter
  request       \* what each request is doing

budgetVars == <<bytesUsed, spaceState, rowLock, budgetLock, counterLock, request>>

(* What a request comes to: bytes it adds, bytes that pruning gives back.  *)
(* A deletion drops what it deletes and leaves a tombstone.                *)
Work ==
  [op : {"create", "write", "upload", "invite"}, add : {1, 2}, back : {0}]
    \cup [op : {"write"}, add : {1}, back : {1}]
    \cup [op : {"delete"}, add : {1}, back : {0, 2}]
    \cup [op : {"end"}, add : {1}, back : {0}]

Idle == [at |-> "idle", op |-> "none", space |-> 0, rest |-> {}, add |-> 0, back |-> 0, left |-> 0]

LiveSpaces == {c \in Owned : spaceState[c] = "live"}

(* storage_used: the sum over every space of the owner.                    *)
StorageUsed == MapThenSumSet(LAMBDA c : bytesUsed[c], Owned)

Minus(x, y) == IF x > y THEN x - y ELSE 0

BudgetInit ==
  /\ bytesUsed = [c \in Owned |-> 0]
  /\ spaceState \in [Owned -> {"none", "live"}]
  /\ Cardinality(LiveSpaces) <= SpaceLimit
  /\ rowLock = [c \in Owned |-> Nobody]
  /\ budgetLock = Nobody
  /\ counterLock = Nobody
  /\ request = [r \in Request |-> Idle]

At(r, places) == request[r].at \in places

Moved(r, place) == request' = [request EXCEPT ![r].at = place]

Asked(r, place, w, c) ==
  request' = [request EXCEPT ![r] =
    [@ EXCEPT !.at = place, !.op = w.op, !.space = c, !.add = w.add, !.back = w.back]]

(* membership(lock) and lock_collection: the row of the space is held to   *)
(* the end, and what the space is like is read after. A deleted space      *)
(* takes nothing more.                                                     *)
LockRow(r) ==
  \E w \in Work, c \in Owned :
    /\ At(r, {"idle"}) /\ w.op # "create"
    /\ spaceState[c] # "none" /\ rowLock[c] = Nobody
    /\ rowLock' = [rowLock EXCEPT ![c] = r]
    /\ Asked(r, IF spaceState[c] = "deleted" THEN "refused" ELSE "row", w, c)
    /\ UNCHANGED <<bytesUsed, spaceState, budgetLock, counterLock>>

(* create_collection: check_new_space takes the budget lock before there   *)
(* is a row, counts the live spaces and refuses one too many.              *)
StartSpace(r) ==
  \E w \in Work, c \in Owned :
    /\ At(r, {"idle"}) /\ w.op = "create"
    /\ spaceState[c] = "none"
    /\ budgetLock = Nobody
    /\ budgetLock' = r
    /\ rowLock' = [rowLock EXCEPT ![c] = r]
    /\ Asked(r, IF Cardinality(LiveSpaces) >= SpaceLimit THEN "refused" ELSE "row", w, c)
    /\ UNCHANGED <<bytesUsed, spaceState, counterLock>>

Look(r) ==
  request' = [request EXCEPT ![r] =
    [@ EXCEPT !.at = "budget", !.left = Minus(StorageLimit, StorageUsed)]]

(* As when the bytes were summed without waiting for those who hold the    *)
(* budget.                                                                 *)
LockBudgetLate(r) ==
  /\ At(r, {"row"})
  /\ budgetLock' = IF budgetLock = Nobody THEN r ELSE budgetLock
  /\ Look(r)
  /\ UNCHANGED <<bytesUsed, spaceState, rowLock, counterLock>>

(* for_writes: wait for the budget lock, then see what the plan leaves.    *)
LockBudget(r) ==
  /\ At(r, {"row"}) /\ budgetLock \in {Nobody, r}
  /\ budgetLock' = r
  /\ Look(r)
  /\ UNCHANGED <<bytesUsed, spaceState, rowLock, counterLock>>

(* WriteLimits::check: what only deletes always goes through.              *)
Fits(r) == request[r].op \in {"delete", "end"} \/ request[r].add <= request[r].left

(* An upload and an invitation take no number from the counter.            *)
Check(r) ==
  /\ At(r, {"budget"})
  /\ Moved(r, IF ~Fits(r) THEN "refused"
              ELSE IF request[r].op \in {"upload", "invite"} THEN "stored" ELSE "checked")
  /\ UNCHANGED <<bytesUsed, spaceState, rowLock, budgetLock, counterLock>>

(* next_changes: writes take their numbers under the counter's row lock.   *)
LockCounter(r) ==
  /\ At(r, {"checked"}) /\ counterLock = Nobody
  /\ counterLock' = r
  /\ Moved(r, "stored")
  /\ UNCHANGED <<bytesUsed, spaceState, rowLock, budgetLock>>

(* Every lock of a transaction goes when it ends.                          *)
Freed(r) ==
  /\ rowLock' = [c \in Owned |-> IF rowLock[c] = r THEN Nobody ELSE rowLock[c]]
  /\ budgetLock' = IF budgetLock = r THEN Nobody ELSE budgetLock
  /\ counterLock' = IF counterLock = r THEN Nobody ELSE counterLock
  /\ request' = [request EXCEPT ![r] = [Idle EXCEPT !.at = "done"]]

(* store_revisions adds what is new, takes off what pruning gave back and  *)
(* never goes below nothing; drop_content counts again what is left of a   *)
(* space that ends: its own deleted item.                                  *)
Charged(r) ==
  LET q == request[r] IN
  IF q.op = "end" THEN q.add ELSE Minus(bytesUsed[q.space] + q.add, q.back)

Commit(r) ==
  /\ At(r, {"stored"})
  /\ bytesUsed' = [bytesUsed EXCEPT ![request[r].space] = Charged(r)]
  /\ spaceState' = [spaceState EXCEPT ![request[r].space] =
       CASE request[r].op = "create" -> "live"
         [] request[r].op = "end" -> "deleted"
         [] OTHER -> @]
  /\ Freed(r)

(* A refusal, and a request that loses its connection or fails: the        *)
(* transaction rolls back.                                                 *)
RollBack(r) ==
  /\ ~At(r, {"idle", "done"})
  /\ Freed(r)
  /\ UNCHANGED <<bytesUsed, spaceState>>

(* remove_account of somebody who belongs to several of the spaces asks    *)
(* for their rows in one statement.                                        *)
StartRemoval(r) ==
  \E cs \in SUBSET {c \in Owned : spaceState[c] # "none"} :
    /\ At(r, {"idle"}) /\ cs # {}
    /\ request' = [request EXCEPT ![r] = [@ EXCEPT !.at = "removing", !.rest = cs]]
    /\ UNCHANGED <<bytesUsed, spaceState, rowLock, budgetLock, counterLock>>

(* As when the rows were taken in any order.                               *)
LockAny(r) ==
  \E c \in request[r].rest :
    /\ At(r, {"removing"})
    /\ rowLock[c] = Nobody
    /\ rowLock' = [rowLock EXCEPT ![c] = r]
    /\ request' = [request EXCEPT ![r].rest = @ \ {c}]
    /\ UNCHANGED <<bytesUsed, spaceState, budgetLock, counterLock>>

(* The statement takes the rows in the order of their ids, as every such   *)
(* removal does.                                                           *)
LockNext(r) ==
  \E c \in request[r].rest :
    /\ At(r, {"removing"})
    /\ \A d \in request[r].rest : c <= d
    /\ rowLock[c] = Nobody
    /\ rowLock' = [rowLock EXCEPT ![c] = r]
    /\ request' = [request EXCEPT ![r].rest = @ \ {c}]
    /\ UNCHANGED <<bytesUsed, spaceState, budgetLock, counterLock>>

(* The spaces are counted again without what they held of the account.     *)
Removed(r) ==
  /\ At(r, {"removing"}) /\ request[r].rest = {}
  /\ bytesUsed' = [c \in Owned |-> IF rowLock[c] = r THEN Minus(bytesUsed[c], 1) ELSE bytesUsed[c]]
  /\ Freed(r)
  /\ UNCHANGED spaceState

Proceed(r) ==
  \/ LockBudget(r) \/ Check(r) \/ LockCounter(r) \/ Commit(r)
  \/ LockNext(r) \/ Removed(r)
  \/ At(r, {"refused"}) /\ RollBack(r)

BudgetNext == \E r \in Request : LockRow(r) \/ StartSpace(r) \/ StartRemoval(r) \/ Proceed(r) \/ RollBack(r)

BudgetSpec == BudgetInit /\ [][BudgetNext]_budgetVars

-----------------------------------------------------------------------------
(* The spaces never come to more than the plan allows, and no more of them *)
(* are live: whatever is written side by side, only a deletion's tombstone *)
(* takes the bytes past the limit (for_writes, check_new_space).           *)
PlanKept ==
  [][/\ Cardinality(LiveSpaces') <= SpaceLimit
     /\ \/ StorageUsed' <= StorageUsed
        \/ StorageUsed' <= StorageLimit
        \/ \E r \in Request : request[r].op \in {"delete", "end"} /\ request'[r].at = "done"]_budgetVars

(* Every request that got its row or its place in the queue comes to an    *)
(* end: nobody waits for somebody who waits for them (remove_account,      *)
(* for_writes, next_changes).                                              *)
RequestsEnd == \A r \in Request : []<>At(r, {"idle", "done"})
=============================================================================
