------------------------------ MODULE Sessions ------------------------------
(***************************************************************************)
(* The sessions of one account: what a signed request proves, the second   *)
(* factor, changes of the password, recovery and the end of sessions       *)
(* (auth.rs, security.rs).  A request proves its key before it holds the   *)
(* account's row and once more when it does; everything a request does     *)
(* after that is seen when it commits, or not at all.                      *)
(***************************************************************************)
EXTENDS Naturals, FiniteSets

CONSTANTS
  Device,     \* each has at most one session and one request under way
  Code,       \* codes: of an authenticator's time step, or backup codes
  MaxRequests, \* bound: requests that come in
  MaxKeys,    \* bound: how often the password or the recovery key changes
  MaxWrong    \* wrong codes within ten minutes before an account has to wait

NoRow == "no row"

ASSUME SessionsAssumption ==
  {MaxRequests, MaxKeys} \subseteq Nat /\ MaxWrong \in Nat \ {0} /\ NoRow \notin Device

VARIABLES
  stored,     \* which password and which recovery key the account has now
  factor,     \* confirmed: a second factor is on; pending: one is set up
  closed,     \* accounts.disabled
  session,    \* the session of a device, with the password it rests on
  spent,      \* spent_challenges
  unused,     \* codes nobody used
  wrong,      \* CodeLimiter: wrong codes since the wait began
  accountRow, \* who holds the account's row
  came,       \* how many requests came in
  signed,     \* what each device's request is and how far it got
  granted,    \* devices whose first half of a recovery was proven
  tally       \* not in the code: what was let through, to state the properties

sessionVars == <<stored, factor, closed, session, spent, unused, wrong, accountRow, came, signed,
                 granted, tally>>

NoSession == [open |-> FALSE, marked |-> FALSE, key |-> 0]
NoRequest == [at |-> "idle", what |-> "none", challenge |-> 0, code |-> "none", key |-> 0]

Signed == {"login", "changePassword", "enrollTotp", "disableTotp", "setRecovery"}
Recovering == {"recover", "recoverComplete"}

SessionsInit ==
  /\ stored = [login |-> 0, recovery |-> 0]
  /\ factor \in [confirmed : BOOLEAN, pending : BOOLEAN]
  /\ closed = FALSE
  /\ session = [d \in Device |-> [open |-> TRUE, marked |-> factor.confirmed, key |-> 0]]
  /\ spent = {} /\ unused \in SUBSET Code /\ wrong = 0
  /\ accountRow = NoRow
  /\ signed = [d \in Device |-> NoRequest]
  /\ tally = [answers |-> [h \in 1 .. MaxRequests |-> 0],
              codes |-> [k \in Code |-> IF k \in unused THEN 0 ELSE 1], tries |-> 0]
  /\ granted \in {{}, Device} /\ came = 0

Stage(d, at) == signed[d].at = at
Asks(d, whats) == signed[d].what \in whats
KeyFor(what) == IF what \in Recovering THEN stored.recovery ELSE stored.login
Held(d) == KeyFor(signed[d].what)
Over(d) == signed' = [signed EXCEPT ![d] = NoRequest]

(* A request comes in. All but signing in and recovering are let in by a   *)
(* session first, and that is not looked at again. It is signed with what  *)
(* the account had when it was sent. A grant is the server's word that the *)
(* first half of a recovery was proven.                                    *)
Receive(d) ==
  \E what \in Signed \cup Recovering \cup {"confirmTotp"}, h \in 1 .. came + 1,
     k \in Code :
    /\ Stage(d, "idle") /\ came < MaxRequests
    /\ what \in {"login"} \cup Recovering \/ session[d].open
    /\ what = "recoverComplete" => d \in granted
    /\ signed' = [signed EXCEPT ![d] =
         [at |-> "here", what |-> what, challenge |-> h, code |-> k,
          key |-> KeyFor(what)]]
    /\ came' = came + 1
    /\ UNCHANGED <<stored, factor, closed, session, spent, unused, wrong, accountRow, granted, tally>>

(* verify_signed checks the signature by the key it finds, without holding *)
(* the row: what is signed with another one ends here.                     *)
Prove(d) ==
  /\ Stage(d, "here") /\ ~Asks(d, {"confirmTotp"})
  /\ IF signed[d].key = Held(d) THEN signed' = [signed EXCEPT ![d].at = "proven"] ELSE Over(d)
  /\ UNCHANGED <<stored, factor, closed, session, spent, unused, wrong, accountRow, granted, came, tally>>

(* As when the key was not compared again once the row was held.           *)
StillGoodUnread(d) == ~closed /\ signed[d].challenge \notin spent

(* As when an answered challenge was not refused.                          *)
StillGoodAgain(d) == signed[d].key = Held(d) /\ ~closed

(* find_account_for_change, held_by, disabled and spend_challenge.         *)
StillGood(d) == signed[d].key = Held(d) /\ ~closed /\ signed[d].challenge \notin spent

LockAccount(d) ==
  /\ accountRow = NoRow
  /\ \/ Stage(d, "proven")
     \/ Stage(d, "here") /\ Asks(d, {"confirmTotp"})
  /\ IF Stage(d, "here") \/ StillGood(d)
     THEN accountRow' = d /\ signed' = [signed EXCEPT ![d].at = "locked"]
     ELSE accountRow' = accountRow /\ Over(d)
  /\ UNCHANGED <<stored, factor, closed, session, spent, unused, wrong, granted, came, tally>>

(* Whether the request has to show a code. Replacing an authenticator may  *)
(* go without from a device that has shown one before.                     *)
CodeAsked(d) == factor.confirmed /\ ~(Asks(d, {"enrollTotp"}) /\ session[d].open /\ session[d].marked)

CodeGood(d) == signed[d].code \in unused

(* What ends without an effect gives the row back, and the challenge and   *)
(* the code with it: none of it is committed.                              *)
Undone(d) ==
  /\ accountRow' = NoRow /\ Over(d)
  /\ UNCHANGED <<stored, factor, closed, session, spent, unused, granted, came>>

Tried == tally' = [tally EXCEPT !.tries = @ + 1]

(* check_second_factor: a wrong code counts though nothing is committed.   *)
WrongCode(d) ==
  /\ Stage(d, "locked") /\ ~Asks(d, {"confirmTotp", "recoverComplete"}) /\ CodeAsked(d)
  /\ ~CodeGood(d)
  /\ IF wrong < MaxWrong THEN wrong' = wrong + 1 /\ Tried
     ELSE UNCHANGED <<wrong, tally>>
  /\ Undone(d)

(* The connection is lost or the database fails.                           *)
Fail(d) ==
  /\ Stage(d, "locked")
  /\ Undone(d)
  /\ UNCHANGED <<wrong, tally>>

Allow(d) ==
  /\ Stage(d, "locked") /\ ~Asks(d, {"confirmTotp"})
  /\ Asks(d, {"recoverComplete"}) \/ ~CodeAsked(d) \/ (CodeGood(d) /\ wrong < MaxWrong)

UsesCode(d) == ~Asks(d, {"recoverComplete"}) /\ CodeAsked(d)

(* The challenge is spent and so is the code, with whatever they allow.    *)
Spend(d) ==
  LET ks == IF UsesCode(d) THEN {signed[d].code} ELSE {} IN
  /\ spent' = spent \cup {signed[d].challenge}
  /\ unused' = unused \ ks
  /\ wrong' = IF UsesCode(d) THEN 0 ELSE wrong
  /\ tally' = [tally EXCEPT
       !.answers[signed[d].challenge] = @ + 1,
       !.codes = [k \in Code |-> IF k \in ks THEN @[k] + 1 ELSE @[k]],
       !.tries = IF UsesCode(d) THEN 0 ELSE @]
  /\ granted' = IF Asks(d, {"recover"}) THEN granted \cup {d} ELSE granted
  /\ accountRow' = NoRow /\ Over(d)
  /\ UNCHANGED <<closed, came>>

Fresh(key) == [open |-> TRUE, marked |-> factor.confirmed, key |-> key]

(* login and open_session.                                                 *)
Login(d) ==
  /\ Allow(d) /\ Asks(d, {"login"})
  /\ Spend(d)
  /\ UNCHANGED <<stored, factor>>
  /\ session' = [session EXCEPT ![d] = Fresh(signed[d].key)]

(* close_sessions: all but the one that asks, if it is still there.        *)
Others(d, s) == [e \in Device |-> IF e = d THEN s ELSE NoSession]

Own(d, marked, key) == IF session[d].open THEN [open |-> TRUE, marked |-> marked, key |-> key] ELSE NoSession

ChangePassword(d) ==
  /\ Allow(d) /\ Asks(d, {"changePassword"}) /\ stored.login < MaxKeys
  /\ Spend(d)
  /\ stored' = [stored EXCEPT !.login = @ + 1]
  /\ session' = Others(d, Own(d, session[d].marked, stored.login + 1))
  /\ UNCHANGED factor

EnrollTotp(d) ==
  /\ Allow(d) /\ Asks(d, {"enrollTotp"})
  /\ Spend(d)
  /\ factor' = [factor EXCEPT !.pending = TRUE]
  /\ UNCHANGED <<stored, session>>

DisableTotp(d) ==
  /\ Allow(d) /\ Asks(d, {"disableTotp"}) /\ factor.confirmed
  /\ Spend(d)
  /\ factor' = [confirmed |-> FALSE, pending |-> FALSE]
  /\ session' = [e \in Device |-> [session[e] EXCEPT !.marked = FALSE]]
  /\ UNCHANGED stored

SetRecovery(d) ==
  /\ Allow(d) /\ Asks(d, {"setRecovery"}) /\ stored.recovery < MaxKeys
  /\ Spend(d)
  /\ stored' = [stored EXCEPT !.recovery = @ + 1]
  /\ UNCHANGED <<factor, session>>

(* recover: the code is spent, and what is given out is a grant.           *)
Recover(d) ==
  /\ Allow(d) /\ Asks(d, {"recover"})
  /\ Spend(d)
  /\ UNCHANGED <<stored, factor, session>>

(* finish_recovery: both keys are replaced, every session ends, and the    *)
(* one it opens is marked by whether a factor is on.                       *)
FinishRecovery(d) ==
  /\ Allow(d) /\ Asks(d, {"recoverComplete"})
  /\ stored.login < MaxKeys /\ stored.recovery < MaxKeys
  /\ Spend(d)
  /\ stored' = [login |-> stored.login + 1, recovery |-> stored.recovery + 1]
  /\ session' = Others(d, Fresh(stored.login + 1))
  /\ UNCHANGED factor

(* confirm_totp: takes a code of the authenticator that is set up, makes   *)
(* it the only one, marks its own session and ends the others. The codes   *)
(* start over.                                                             *)
ConfirmTotp(d) ==
  /\ Stage(d, "locked") /\ Asks(d, {"confirmTotp"}) /\ factor.pending /\ wrong < MaxWrong
  /\ factor' = [confirmed |-> TRUE, pending |-> FALSE]
  /\ session' = Others(d, Own(d, TRUE, session[d].key))
  /\ unused' = Code
  /\ tally' = [tally EXCEPT !.codes = [k \in Code |-> 0]]
  /\ accountRow' = NoRow /\ Over(d)
  /\ UNCHANGED <<stored, closed, spent, wrong, granted, came>>

Committed(d) ==
  \/ Login(d) \/ ChangePassword(d) \/ EnrollTotp(d) \/ DisableTotp(d) \/ SetRecovery(d)
  \/ Recover(d) \/ FinishRecovery(d) \/ ConfirmTotp(d)

(* logout, revoke_session and the end of idle sessions do not take the     *)
(* account's row.                                                          *)
EndSession(d) ==
  /\ session[d].open
  /\ session' = [session EXCEPT ![d] = NoSession]
  /\ UNCHANGED <<stored, factor, closed, spent, unused, wrong, accountRow, signed, granted, came, tally>>

(* set_disabled: the update waits for the row like any other.              *)
SetDisabled ==
  /\ accountRow = NoRow
  /\ closed' = ~closed
  /\ session' = IF closed THEN session ELSE [d \in Device |-> NoSession]
  /\ UNCHANGED <<stored, factor, spent, unused, wrong, accountRow, signed, granted, came, tally>>

(* The ten minutes are over.                                               *)
WaitOver ==
  /\ wrong > 0
  /\ wrong' = 0
  /\ tally' = [tally EXCEPT !.tries = 0]
  /\ UNCHANGED <<stored, factor, closed, session, spent, unused, accountRow, signed, granted, came>>

SessionsNext ==
  \/ \E d \in Device :
       \/ Receive(d) \/ Prove(d) \/ LockAccount(d) \/ WrongCode(d) \/ Fail(d) \/ Committed(d)
       \/ EndSession(d)
  \/ SetDisabled \/ WaitOver

SessionsSpec == SessionsInit /\ [][SessionsNext]_sessionVars

-----------------------------------------------------------------------------
(* Every session rests on the password that stands, belongs to an account  *)
(* that is not closed, and is marked if a second factor is on: no sign-in  *)
(* slips in behind a change of the password, of the factor or of the       *)
(* account (login, change_password, confirm_totp, set_disabled).           *)
SessionsRest ==
  \A d \in Device : session[d].open =>
    session[d].key = stored.login /\ ~closed /\ (factor.confirmed => session[d].marked)

(* An answer to a challenge, and a code, let one request through, also if  *)
(* it was sent twice; and no more wrong codes are tried than the account   *)
(* may (spend_challenge, check_second_factor, CodeLimiter).                *)
UsedOnce ==
  /\ \A h \in 1 .. MaxRequests : tally.answers[h] <= 1
  /\ \A k \in Code : tally.codes[k] <= 1
  /\ tally.tries <= MaxWrong
=============================================================================
