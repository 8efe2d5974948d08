---------------------------- MODULE ServerProofs ----------------------------
(***************************************************************************)
(* What is proved of the parts of the sync server that share nothing with  *)
(* each other: sessions (Sessions), invitation links (Links), chunks and   *)
(* their files (Blobs), the budget of an account (Budget), the caps on what*)
(* is held for callers (Gates), and what the sockets of a room are told    *)
(* (RoomFrames).                                                           *)
(***************************************************************************)
EXTENDS Sessions, Links, Blobs, Budget, Gates, RoomFrames, FoldTheorems, SequenceTheorems, TLAPS
-----------------------------------------------------------------------------
(***************************************************************************)
(* Sessions: that no session outlives the account or its second factor,    *)
(* and that no code or challenge is used twice, for any number of devices, *)
(* codes and requests.                                                     *)
(***************************************************************************)
Kinds == Signed \cup Recovering \cup {"confirmTotp"}
AskedFor == [at : {"idle", "here", "proven", "locked"}, what : Kinds \cup {"none"},
             challenge : Nat, code : Code \cup {"none"}, key : Nat]
SessionRow == [open : BOOLEAN, marked : BOOLEAN, key : Nat]

SessionsTypeOK ==
  /\ stored \in [login : Nat, recovery : Nat]
  /\ factor \in [confirmed : BOOLEAN, pending : BOOLEAN]
  /\ closed \in BOOLEAN
  /\ session \in [Device -> SessionRow]
  /\ spent \subseteq 1 .. MaxRequests /\ unused \subseteq Code /\ wrong \in 0 .. MaxWrong
  /\ accountRow \in Device \cup {NoRow}
  /\ came \in 0 .. MaxRequests
  /\ signed \in [Device -> AskedFor]
  /\ tally \in [answers : [1 .. MaxRequests -> Nat], codes : [Code -> Nat], tries : Nat]

(* What a request that holds the account's row was let in by still holds:    *)
(* only one holds it, and whatever could change that waits for the row.      *)
StandsWhileHeld ==
  \A d \in Device :
    /\ ~Stage(d, "idle") =>
         signed[d].what \in Kinds /\ signed[d].challenge \in 1 .. MaxRequests /\ signed[d].code \in Code
    /\ Stage(d, "locked") =>
         accountRow = d /\ (Asks(d, {"confirmTotp"}) \/ StillGood(d))

(* The tally agrees with what the server keeps.                              *)
TallyAgrees ==
  /\ \A h \in 1 .. MaxRequests : tally.answers[h] = IF h \in spent THEN 1 ELSE 0
  /\ \A k \in Code : tally.codes[k] <= 1 /\ (k \in unused => tally.codes[k] = 0)
  /\ tally.tries = wrong

SessionsInv == SessionsTypeOK /\ StandsWhileHeld /\ TallyAgrees /\ SessionsRest

-----------------------------------------------------------------------------
LEMMA RequestsAreTyped ==
  ASSUME SessionsTypeOK, NEW d \in Device
  PROVE  /\ signed[d] \in AskedFor /\ session[d] \in SessionRow
         /\ NoRequest \in AskedFor /\ NoSession \in SessionRow
         /\ stored.login \in Nat /\ stored.recovery \in Nat
         /\ factor.confirmed \in BOOLEAN /\ factor.pending \in BOOLEAN
         /\ KeyFor(signed[d].what) \in Nat
BY DEF SessionsTypeOK, AskedFor, SessionRow, NoRequest, NoSession, KeyFor

(* A request that holds the row, and ends, leaves nobody who holds it.       *)
LEMMA RowGivenBack ==
  ASSUME SessionsInv, NEW d \in Device, Stage(d, "locked"), Over(d)
  PROVE  signed' \in [Device -> AskedFor] /\ StandsWhileHeld'
<1>1. signed' \in [Device -> AskedFor]
  BY RequestsAreTyped DEF SessionsInv, SessionsTypeOK, Over
<1>2. \A e \in Device : signed'[e] = IF e = d THEN NoRequest ELSE signed[e]
  BY DEF SessionsInv, SessionsTypeOK, Over
<1>3. \A e \in Device : e # d => ~Stage(e, "locked")
  BY DEF SessionsInv, StandsWhileHeld
<1>4. \A e \in Device : signed'[e].at # "locked"
  BY <1>2, <1>3 DEF Stage, NoRequest
<1>5. \A e \in Device : signed'[e].at # "idle" =>
        signed'[e].what \in Kinds /\ signed'[e].challenge \in 1 .. MaxRequests /\ signed'[e].code \in Code
  BY <1>2 DEF SessionsInv, StandsWhileHeld, Stage, NoRequest
<1> QED BY <1>1, <1>4, <1>5 DEF StandsWhileHeld, Stage

(* What a request is let through with is spent, and counted once.            *)
LEMMA SpendingIsCounted ==
  ASSUME SessionsInv, NEW d \in Device, Allow(d), Spend(d)
  PROVE  /\ StandsWhileHeld' /\ TallyAgrees'
         /\ signed' \in [Device -> AskedFor]
         /\ closed' = FALSE /\ closed = FALSE /\ came' \in 0 .. MaxRequests
         /\ spent' \subseteq 1 .. MaxRequests /\ unused' \subseteq Code /\ wrong' \in 0 .. MaxWrong
         /\ accountRow' \in Device \cup {NoRow}
         /\ tally' \in [answers : [1 .. MaxRequests -> Nat], codes : [Code -> Nat], tries : Nat]
<1> DEFINE h == signed[d].challenge
           ks == IF UsesCode(d) THEN {signed[d].code} ELSE {}
<1>1. Stage(d, "locked") /\ Over(d) /\ accountRow' = NoRow /\ closed' = closed /\ came' = came
  BY DEF Allow, Spend
<1>2. h \in 1 .. MaxRequests /\ h \notin spent /\ closed = FALSE
  <2>1. Stage(d, "locked") /\ ~Asks(d, {"confirmTotp"})
    BY DEF Allow
  <2> QED BY <2>1 DEF SessionsInv, SessionsTypeOK, StandsWhileHeld, Stage, StillGood
<1>3. ks \subseteq unused /\ ks \subseteq Code
  BY DEF Allow, UsesCode, CodeGood, SessionsInv, SessionsTypeOK
<1>4. /\ spent' = spent \cup {h} /\ unused' = unused \ ks
      /\ wrong' = IF UsesCode(d) THEN 0 ELSE wrong
  BY DEF Spend
<1>5. /\ tally'.answers = [tally.answers EXCEPT ![h] = @ + 1]
      /\ tally'.codes = [k \in Code |-> IF k \in ks THEN tally.codes[k] + 1 ELSE tally.codes[k]]
      /\ tally'.tries = IF UsesCode(d) THEN 0 ELSE tally.tries
      /\ tally' \in [answers : [1 .. MaxRequests -> Nat], codes : [Code -> Nat], tries : Nat]
  <2>1. tally.answers \in [1 .. MaxRequests -> Nat] /\ tally.codes \in [Code -> Nat] /\ tally.tries \in Nat
    BY DEF SessionsInv, SessionsTypeOK
  <2>2. tally' = [answers |-> [tally.answers EXCEPT ![h] = @ + 1],
                  codes |-> [k \in Code |-> IF k \in ks THEN tally.codes[k] + 1 ELSE tally.codes[k]],
                  tries |-> IF UsesCode(d) THEN 0 ELSE tally.tries]
    BY DEF Spend, SessionsInv, SessionsTypeOK
  <2>3. [tally.answers EXCEPT ![h] = @ + 1] \in [1 .. MaxRequests -> Nat]
    <3> HIDE DEF h
    <3>1. \A g \in 1 .. MaxRequests : tally.answers[g] \in Nat /\ tally.answers[g] + 1 \in Nat
      BY <2>1, SessionsAssumption
    <3>2. h \in 1 .. MaxRequests
      BY <1>2
    <3> QED BY <2>1, <3>1, <3>2
  <2>4. [k \in Code |-> IF k \in ks THEN tally.codes[k] + 1 ELSE tally.codes[k]] \in [Code -> Nat]
    <3> HIDE DEF ks
    <3>1. \A k \in Code : tally.codes[k] \in Nat /\ tally.codes[k] + 1 \in Nat
      BY <2>1
    <3> QED BY <3>1
  <2>5. (IF UsesCode(d) THEN 0 ELSE tally.tries) \in Nat
    BY <2>1
  <2> QED BY <2>2, <2>3, <2>4, <2>5
<1>6. TallyAgrees'
  <2>1. \A g \in 1 .. MaxRequests : tally'.answers[g] = IF g \in spent' THEN 1 ELSE 0
    <3>1. /\ tally.answers \in [1 .. MaxRequests -> Nat]
          /\ \A g \in 1 .. MaxRequests : tally.answers[g] = IF g \in spent THEN 1 ELSE 0
      BY DEF SessionsInv, SessionsTypeOK, TallyAgrees
    <3> TAKE g \in 1 .. MaxRequests
    <3> HIDE DEF h, ks
    <3>2. tally'.answers[g] = IF g = h THEN tally.answers[g] + 1 ELSE tally.answers[g]
      BY <1>5, <3>1
    <3> QED BY <1>2, <1>4, <3>1, <3>2
  <2>2. \A k \in Code : tally'.codes[k] <= 1 /\ (k \in unused' => tally'.codes[k] = 0)
    BY <1>3, <1>4, <1>5 DEF SessionsInv, SessionsTypeOK, TallyAgrees
  <2> QED BY <1>4, <1>5, <2>1, <2>2 DEF SessionsInv, TallyAgrees
<1>7. wrong' \in 0 .. MaxWrong /\ came' \in 0 .. MaxRequests
  BY <1>1, <1>4, SessionsAssumption DEF SessionsInv, SessionsTypeOK
<1> QED BY <1>1, <1>2, <1>3, <1>4, <1>5, <1>6, <1>7, RowGivenBack DEF SessionsInv, SessionsTypeOK

-----------------------------------------------------------------------------
LEMMA SessionsInitInv == SessionsInit => SessionsInv
<1> SUFFICES ASSUME SessionsInit PROVE SessionsInv
  OBVIOUS
<1>1. SessionsTypeOK
  <2>1. /\ signed \in [Device -> AskedFor] /\ session \in [Device -> SessionRow]
        /\ stored \in [login : Nat, recovery : Nat]
    BY DEF SessionsInit, SessionRow, AskedFor, NoRequest
  <2>2. tally \in [answers : [1 .. MaxRequests -> Nat], codes : [Code -> Nat], tries : Nat]
    BY DEF SessionsInit
  <2>3. wrong \in 0 .. MaxWrong /\ came \in 0 .. MaxRequests
    BY SessionsAssumption DEF SessionsInit
  <2> QED BY <2>1, <2>2, <2>3 DEF SessionsInit, SessionsTypeOK
<1>2. StandsWhileHeld /\ TallyAgrees /\ SessionsRest
  BY DEF SessionsInit, StandsWhileHeld, TallyAgrees, SessionsRest, Stage, NoRequest
<1> QED BY <1>1, <1>2 DEF SessionsInv

(* What is committed under the row. Of the sessions only what the step does  *)
(* to them is left to be shown.                                              *)
LEMMA CommitsAreSound ==
  ASSUME SessionsInv, NEW d \in Device, Allow(d), Spend(d),
         stored' \in [login : Nat, recovery : Nat],
         factor' \in [confirmed : BOOLEAN, pending : BOOLEAN],
         session' \in [Device -> SessionRow], SessionsRest'
  PROVE  SessionsInv'
BY SpendingIsCounted DEF SessionsInv, SessionsTypeOK

LEMMA CommittedKeeps ==
  ASSUME SessionsInv, NEW d \in Device, Committed(d)
  PROVE  SessionsInv'
<1>0. /\ stored \in [login : Nat, recovery : Nat] /\ factor \in [confirmed : BOOLEAN, pending : BOOLEAN]
      /\ session \in [Device -> SessionRow] /\ signed[d].key \in Nat
      /\ session[d] \in SessionRow
  BY RequestsAreTyped DEF SessionsInv, SessionsTypeOK, AskedFor
<1>1. CASE Login(d)
  <2>1. Allow(d) /\ Spend(d) /\ closed' = FALSE /\ stored' = stored /\ factor' = factor
    BY <1>1, SpendingIsCounted DEF Login
  <2>2. Fresh(signed[d].key) \in SessionRow
    BY <1>0 DEF Fresh, SessionRow
  <2>3. session' \in [Device -> SessionRow]
    BY <1>0, <1>1, <2>2 DEF Login
  <2>4. signed[d].key = stored.login
    BY <1>1 DEF Login, Allow, SessionsInv, StandsWhileHeld, StillGood, Held, KeyFor, Asks, Recovering
  <2>5. SessionsRest'
    BY <1>0, <1>1, <2>1, <2>4 DEF Login, SessionsInv, SessionsRest, Fresh
  <2> QED BY <1>0, <2>1, <2>3, <2>5, CommitsAreSound
<1>2. CASE ChangePassword(d)
  <2>1. Allow(d) /\ Spend(d) /\ closed' = FALSE /\ factor' = factor
    BY <1>2, SpendingIsCounted DEF ChangePassword
  <2>2. stored' \in [login : Nat, recovery : Nat] /\ stored'.login = stored.login + 1
    BY <1>0, <1>2 DEF ChangePassword
  <2>3. Own(d, session[d].marked, stored.login + 1) \in SessionRow
    BY <1>0 DEF Own, SessionRow, NoSession
  <2>4. session' \in [Device -> SessionRow]
    BY <1>2, <2>3 DEF ChangePassword, Others, SessionRow, NoSession
  <2>5. SessionsRest'
    BY <1>2, <2>1, <2>2 DEF ChangePassword, Others, Own, NoSession, SessionsInv, SessionsRest
  <2> QED BY <1>0, <2>1, <2>2, <2>4, <2>5, CommitsAreSound
<1>3. CASE EnrollTotp(d)
  <2>1. /\ Allow(d) /\ Spend(d) /\ closed' = FALSE /\ closed = FALSE
        /\ stored' = stored /\ session' = session
    BY <1>3, SpendingIsCounted DEF EnrollTotp
  <2>2. factor' \in [confirmed : BOOLEAN, pending : BOOLEAN] /\ factor'.confirmed = factor.confirmed
    BY <1>0, <1>3 DEF EnrollTotp
  <2>3. SessionsRest'
    BY <2>1, <2>2 DEF SessionsInv, SessionsRest
  <2> QED BY <1>0, <2>1, <2>2, <2>3, CommitsAreSound
<1>4. CASE DisableTotp(d)
  <2>1. /\ Allow(d) /\ Spend(d) /\ closed' = FALSE /\ stored' = stored
        /\ factor' = [confirmed |-> FALSE, pending |-> FALSE]
    BY <1>4, SpendingIsCounted DEF DisableTotp
  <2>2. session' \in [Device -> SessionRow]
    BY <1>0, <1>4 DEF DisableTotp, SessionRow
  <2>3. SessionsRest'
    BY <1>0, <1>4, <2>1 DEF DisableTotp, SessionsInv, SessionsRest, SessionRow
  <2> QED BY <1>0, <2>1, <2>2, <2>3, CommitsAreSound
<1>5. CASE SetRecovery(d)
  <2>1. /\ Allow(d) /\ Spend(d) /\ closed' = FALSE /\ closed = FALSE
        /\ factor' = factor /\ session' = session
    BY <1>5, SpendingIsCounted DEF SetRecovery
  <2>2. stored' \in [login : Nat, recovery : Nat] /\ stored'.login = stored.login
    BY <1>0, <1>5 DEF SetRecovery
  <2>3. SessionsRest'
    BY <2>1, <2>2 DEF SessionsInv, SessionsRest
  <2> QED BY <1>0, <2>1, <2>2, <2>3, CommitsAreSound
<1>6. CASE Recover(d)
  <2>1. /\ Allow(d) /\ Spend(d) /\ closed' = FALSE /\ closed = FALSE
        /\ factor' = factor /\ session' = session /\ stored' = stored
    BY <1>6, SpendingIsCounted DEF Recover
  <2>2. SessionsRest'
    BY <2>1 DEF SessionsInv, SessionsRest
  <2> QED BY <1>0, <2>1, <2>2, CommitsAreSound
<1>7. CASE FinishRecovery(d)
  <2>1. Allow(d) /\ Spend(d) /\ closed' = FALSE /\ factor' = factor
    BY <1>7, SpendingIsCounted DEF FinishRecovery
  <2>2. stored' \in [login : Nat, recovery : Nat] /\ stored'.login = stored.login + 1
    BY <1>0, <1>7 DEF FinishRecovery
  <2>3. session' \in [Device -> SessionRow]
    BY <1>0, <1>7 DEF FinishRecovery, Others, Fresh, SessionRow, NoSession
  <2>4. SessionsRest'
    BY <1>7, <2>1, <2>2 DEF FinishRecovery, Others, Fresh, NoSession, SessionsRest
  <2> QED BY <1>0, <2>1, <2>2, <2>3, <2>4, CommitsAreSound
<1>8. CASE ConfirmTotp(d)
  <2>1. /\ stored' = stored /\ closed' = closed /\ spent' = spent /\ wrong' = wrong /\ came' = came
        /\ unused' = Code /\ factor' = [confirmed |-> TRUE, pending |-> FALSE]
        /\ accountRow' = NoRow
        /\ session' = Others(d, Own(d, TRUE, session[d].key))
    BY <1>8 DEF ConfirmTotp
  <2>2. /\ tally' \in [answers : [1 .. MaxRequests -> Nat], codes : [Code -> Nat], tries : Nat]
        /\ tally'.answers = tally.answers /\ tally'.tries = tally.tries
        /\ \A k \in Code : tally'.codes[k] = 0
    BY <1>8 DEF ConfirmTotp, SessionsInv, SessionsTypeOK
  <2>3. session' \in [Device -> SessionRow]
    BY <1>0, <2>1 DEF Others, Own, SessionRow, NoSession
  <2>4. signed' \in [Device -> AskedFor] /\ StandsWhileHeld'
    BY <1>8, RowGivenBack DEF ConfirmTotp
  <2>5. TallyAgrees'
    BY <2>1, <2>2 DEF SessionsInv, TallyAgrees
  <2>6. SessionsRest'
    BY <2>1 DEF Others, Own, NoSession, SessionsInv, SessionsRest
  <2> QED BY <2>1, <2>2, <2>3, <2>4, <2>5, <2>6 DEF SessionsInv, SessionsTypeOK
<1> QED BY <1>1, <1>2, <1>3, <1>4, <1>5, <1>6, <1>7, <1>8 DEF Committed

(* A request that ends without an effect, but for a wrong code that counts.  *)
LEMMA UndoneKeeps ==
  ASSUME SessionsInv, NEW d \in Device, Stage(d, "locked"), Undone(d),
         \/ UNCHANGED <<wrong, tally>>
         \/ wrong < MaxWrong /\ wrong' = wrong + 1 /\ Tried
  PROVE  SessionsInv'
<1>1. signed' \in [Device -> AskedFor] /\ StandsWhileHeld'
  BY RowGivenBack DEF Undone
<1>2. /\ wrong' \in 0 .. MaxWrong /\ TallyAgrees'
      /\ tally' \in [answers : [1 .. MaxRequests -> Nat], codes : [Code -> Nat], tries : Nat]
  <2>1. CASE UNCHANGED <<wrong, tally>>
    BY <2>1 DEF Undone, SessionsInv, SessionsTypeOK, TallyAgrees
  <2>2. CASE wrong < MaxWrong /\ wrong' = wrong + 1 /\ Tried
    <3>1. /\ tally' \in [answers : [1 .. MaxRequests -> Nat], codes : [Code -> Nat], tries : Nat]
          /\ tally'.answers = tally.answers /\ tally'.codes = tally.codes
          /\ tally'.tries = tally.tries + 1
      BY <2>2 DEF Tried, SessionsInv, SessionsTypeOK
    <3> QED BY <2>2, <3>1, SessionsAssumption DEF Undone, SessionsInv, SessionsTypeOK, TallyAgrees
  <2> QED BY <2>1, <2>2
<1> QED BY <1>1, <1>2 DEF Undone, SessionsInv, SessionsTypeOK, SessionsRest

-----------------------------------------------------------------------------
LEMMA SessionsStepInv == SessionsInv /\ [SessionsNext]_sessionVars => SessionsInv'
<1> SUFFICES ASSUME SessionsInv, [SessionsNext]_sessionVars PROVE SessionsInv'
  OBVIOUS
<1>1. CASE UNCHANGED sessionVars
  BY <1>1 DEF sessionVars, SessionsInv, SessionsTypeOK, StandsWhileHeld, TallyAgrees, SessionsRest,
    Stage, Asks, StillGood, Held, KeyFor
<1>2. ASSUME NEW d \in Device, Receive(d) PROVE SessionsInv'
  <2>1. PICK what \in Signed \cup Recovering \cup {"confirmTotp"}, h \in 1 .. came + 1, k \in Code :
          /\ Stage(d, "idle") /\ came < MaxRequests
          /\ signed' = [signed EXCEPT ![d] =
               [at |-> "here", what |-> what, challenge |-> h, code |-> k, key |-> KeyFor(what)]]
          /\ came' = came + 1
    BY <1>2 DEF Receive
  <2>2. UNCHANGED <<stored, factor, closed, session, spent, unused, wrong, accountRow, tally>>
    BY <1>2 DEF Receive
  <2>3. h \in 1 .. MaxRequests /\ came' \in 0 .. MaxRequests /\ KeyFor(what) \in Nat
    BY <2>1, SessionsAssumption DEF SessionsInv, SessionsTypeOK, KeyFor
  <2>4. signed' \in [Device -> AskedFor]
    BY <2>1, <2>3 DEF SessionsInv, SessionsTypeOK, AskedFor, Kinds
  <2>5. StandsWhileHeld'
    BY <2>1, <2>2, <2>3 DEF SessionsInv, SessionsTypeOK, StandsWhileHeld, Stage, Asks, StillGood, Held, KeyFor, Kinds
  <2> QED BY <2>2, <2>3, <2>4, <2>5 DEF SessionsInv, SessionsTypeOK, TallyAgrees, SessionsRest
<1>3. ASSUME NEW d \in Device, Prove(d) PROVE SessionsInv'
  <2>1. UNCHANGED <<stored, factor, closed, session, spent, unused, wrong, accountRow, came, tally>>
    BY <1>3 DEF Prove
  <2>2. signed' = [signed EXCEPT ![d].at = "proven"] \/ signed' = [signed EXCEPT ![d] = NoRequest]
    BY <1>3 DEF Prove, Over
  <2>3. /\ signed[d] \in AskedFor /\ NoRequest \in AskedFor
        /\ signed \in [Device -> AskedFor]
    BY RequestsAreTyped DEF SessionsInv, SessionsTypeOK
  <2>4. PICK q \in AskedFor : /\ signed' = [signed EXCEPT ![d] = q]
                              /\ q = NoRequest \/ q = [signed[d] EXCEPT !.at = "proven"]
    BY <2>2, <2>3 DEF AskedFor
  <2>5. signed' \in [Device -> AskedFor] /\ \A e \in Device : signed'[e] = IF e = d THEN q ELSE signed[e]
    BY <2>3, <2>4
  <2>6. /\ q.at # "locked"
        /\ q.at # "idle" =>
             q.what \in Kinds /\ q.challenge \in 1 .. MaxRequests /\ q.code \in Code
    BY <1>3, <2>3, <2>4 DEF Prove, SessionsInv, StandsWhileHeld, Stage, AskedFor, NoRequest
  <2>7. StandsWhileHeld'
    BY <2>1, <2>5, <2>6 DEF SessionsInv, StandsWhileHeld, Stage, Asks, StillGood, Held, KeyFor
  <2> QED BY <2>1, <2>5, <2>7 DEF SessionsInv, SessionsTypeOK, TallyAgrees, SessionsRest
<1>4. ASSUME NEW d \in Device, LockAccount(d) PROVE SessionsInv'
  <2>1. /\ accountRow = NoRow
        /\ UNCHANGED <<stored, factor, closed, session, spent, unused, wrong, came, tally>>
    BY <1>4 DEF LockAccount
  <2>2. \A e \in Device : ~Stage(e, "locked")
    BY <2>1, SessionsAssumption DEF SessionsInv, StandsWhileHeld
  <2>3. CASE accountRow' = accountRow /\ Over(d)
    <3>1. signed' \in [Device -> AskedFor]
      BY <2>3, RequestsAreTyped DEF SessionsInv, SessionsTypeOK, Over
    <3>2. StandsWhileHeld'
      BY <2>2, <2>3 DEF SessionsInv, SessionsTypeOK, StandsWhileHeld, Stage, Over, NoRequest
    <3> QED BY <2>1, <2>3, <3>1, <3>2 DEF SessionsInv, SessionsTypeOK, TallyAgrees, SessionsRest
  <2>4. CASE /\ accountRow' = d /\ signed' = [signed EXCEPT ![d].at = "locked"]
             /\ (Stage(d, "here") /\ Asks(d, {"confirmTotp"})) \/ StillGood(d)
    <3>1. signed' \in [Device -> AskedFor]
      BY <2>4, ZenonT(60) DEF SessionsInv, SessionsTypeOK, AskedFor
    <3>2. \A e \in Device \ {d} : signed'[e] = signed[e]
      BY <2>4 DEF SessionsInv, SessionsTypeOK
    <3>3. /\ signed'[d].what = signed[d].what /\ signed'[d].challenge = signed[d].challenge
          /\ signed'[d].code = signed[d].code /\ signed'[d].key = signed[d].key
      BY <2>4 DEF SessionsInv, SessionsTypeOK, AskedFor
    <3>4. ~Stage(d, "idle")
      BY <1>4 DEF LockAccount, Stage
    <3>5. StandsWhileHeld'
      BY <2>1, <2>2, <2>4, <3>2, <3>3, <3>4
      DEF SessionsInv, StandsWhileHeld, Stage, Asks, StillGood, Held, KeyFor
    <3> QED BY <2>1, <2>4, <3>1, <3>5 DEF SessionsInv, SessionsTypeOK, TallyAgrees, SessionsRest
  <2> QED BY <1>4, <2>3, <2>4 DEF LockAccount, Stage
<1>5. ASSUME NEW d \in Device, WrongCode(d) \/ Fail(d) PROVE SessionsInv'
  BY <1>5, UndoneKeeps DEF WrongCode, Fail
<1>6. ASSUME NEW d \in Device, Committed(d) PROVE SessionsInv'
  BY <1>6, CommittedKeeps
<1>7. ASSUME NEW d \in Device, EndSession(d) PROVE SessionsInv'
  <2>1. session' \in [Device -> SessionRow] /\ SessionsRest'
    BY <1>7, RequestsAreTyped DEF EndSession, SessionsInv, SessionsTypeOK, SessionsRest, NoSession
  <2> QED BY <1>7, <2>1 DEF EndSession, SessionsInv, SessionsTypeOK, StandsWhileHeld, TallyAgrees,
        Stage, Asks, StillGood, Held, KeyFor
<1>8. CASE SetDisabled
  <2>1. session' \in [Device -> SessionRow] /\ SessionsRest' /\ closed' \in BOOLEAN
    BY <1>8 DEF SetDisabled, SessionsInv, SessionsTypeOK, SessionsRest, NoSession, SessionRow
  <2>2. StandsWhileHeld'
    BY <1>8, SessionsAssumption DEF SetDisabled, SessionsInv, StandsWhileHeld, Stage
  <2> QED BY <1>8, <2>1, <2>2 DEF SetDisabled, SessionsInv, SessionsTypeOK, TallyAgrees
<1>9. CASE WaitOver
  <2>1. /\ tally' \in [answers : [1 .. MaxRequests -> Nat], codes : [Code -> Nat], tries : Nat]
        /\ tally'.answers = tally.answers /\ tally'.codes = tally.codes /\ tally'.tries = 0
    BY <1>9 DEF WaitOver, SessionsInv, SessionsTypeOK
  <2>2. TallyAgrees' /\ wrong' \in 0 .. MaxWrong
    BY <1>9, <2>1, SessionsAssumption DEF WaitOver, SessionsInv, TallyAgrees
  <2> QED BY <1>9, <2>1, <2>2 DEF WaitOver, SessionsInv, SessionsTypeOK, SessionsRest, StandsWhileHeld,
        Stage, Asks, StillGood, Held, KeyFor
<1> QED BY <1>1, <1>2, <1>3, <1>4, <1>5, <1>6, <1>7, <1>8, <1>9 DEF SessionsNext

(* However requests of several devices, changes of the password and of the   *)
(* second factor, a closing of the account and recovery are interleaved, a   *)
(* session rests on what the account has now (login, change_password,        *)
(* confirm_totp, finish_recovery, set_disabled).                             *)
THEOREM SessionsAreCurrent == SessionsSpec => []SessionsRest
<1>1. SessionsInv => SessionsRest
  BY DEF SessionsInv
<1> QED BY <1>1, SessionsInitInv, SessionsStepInv, PTL DEF SessionsSpec

(* A challenge and a code let one request through, whatever is sent twice,   *)
(* and the account's wrong codes are counted in full (spend_challenge,       *)
(* check_second_factor, CodeLimiter).                                        *)
THEOREM NothingIsUsedTwice == SessionsSpec => []UsedOnce
<1>1. SessionsInv => UsedOnce
  <2> SUFFICES ASSUME SessionsInv PROVE UsedOnce
    OBVIOUS
  <2>1. \A h \in 1 .. MaxRequests : tally.answers[h] <= 1
    BY DEF SessionsInv, TallyAgrees
  <2>2. tally.tries <= MaxWrong
    BY SessionsAssumption DEF SessionsInv, SessionsTypeOK, TallyAgrees
  <2> QED BY <2>1, <2>2 DEF SessionsInv, TallyAgrees, UsedOnce
<1> QED BY <1>1, SessionsInitInv, SessionsStepInv, PTL DEF SessionsSpec
-----------------------------------------------------------------------------
(***************************************************************************)
(* Links: that no link, invitation or signup code brings more people into  *)
(* a space than its plan allows, and none that an admin did not let in.    *)
(***************************************************************************)
Ways == {"link", "invitation", "signup"}
Attempt == {Still} \cup [at : {"locked", "granted"}, by : Ways, link : Ids]
LinkRow == [made : BOOLEAN, sender : Person, uses : Nat, signups : Nat, expired : BOOLEAN]

LinksTypeOK ==
  /\ standing \in [Person -> {"stranger", "out", "member", "admin"}]
  /\ barred \subseteq Person
  /\ invited \subseteq [to : Person, from : Person]
  /\ links \in [Ids -> LinkRow]
  /\ row \in Person \cup {Unlocked}
  /\ attempt \in [Person -> Attempt]

(* What a grant was given for is still so when it is used.                   *)
MayEnter(p) ==
  LET l == attempt[p].link IN
  /\ attempt[p].by = "signup" => links[l].signups < MaxUses
  /\ attempt[p].by # "signup" => p \notin Members /\ Cardinality(Members) < MaxMembers
  /\ attempt[p].by = "link" =>
       standing[links[l].sender] = "admin" /\ p \notin barred /\ links[l].uses < MaxUses

(* Somebody on the way in holds the row of the space, from before they are   *)
(* examined until they are in.                                               *)
EntersUnderRow ==
  \A p \in Person :
    /\ attempt[p] # Still => row = p
    /\ attempt[p].at = "granted" => MayEnter(p)
    /\ attempt[p] # Still /\ attempt[p].by = "signup" => standing[p] = "stranger"

OwnerStays == standing[Maker] = "admin" /\ IsFiniteSet(Members)

LinksInv == LinksTypeOK /\ EntersUnderRow /\ OwnerStays /\ PlacesKept

-----------------------------------------------------------------------------
LEMMA LinkFacts ==
  ASSUME LinksInv, NEW p \in Person
  PROVE  /\ attempt[p] \in Attempt
         /\ attempt[p] # Still => /\ row = p /\ row # Unlocked
                                  /\ attempt[p].at \in {"locked", "granted"}
                                  /\ attempt[p].by \in Ways /\ attempt[p].link \in Ids
         /\ attempt[p].at \in {"locked", "granted"} => attempt[p] # Still
         /\ \A q \in Person : attempt[p] # Still /\ q # p => attempt[q] = Still
BY LinksAssumption DEF LinksInv, LinksTypeOK, EntersUnderRow, Attempt, Still

LEMMA MembersAreFinite ==
  ASSUME LinksInv
  PROVE  IsFiniteSet(Members) /\ Cardinality(Members) \in Nat /\ Maker \in Members
<1>1. IsFiniteSet(Members) /\ Maker \in Members
  BY LinksAssumption DEF LinksInv, OwnerStays, Members
<1> QED BY <1>1, FS_CardinalityType

LEMMA LinksInitInv == LinksInit => LinksInv
<1> SUFFICES ASSUME LinksInit PROVE LinksInv
  OBVIOUS
<1>1. LinksTypeOK
  BY LinksAssumption DEF LinksInit, LinksTypeOK, LinkRow, NoLink, Attempt
<1>2. EntersUnderRow
  BY DEF LinksInit, EntersUnderRow, Still
<1>3. Members = {Maker} /\ standing[Maker] = "admin"
  BY LinksAssumption DEF LinksInit, Members
<1>4. OwnerStays
  BY <1>3, FS_Singleton DEF OwnerStays
<1>5. PlacesKept
  BY <1>3, LinksAssumption DEF LinksInit, PlacesKept, NoLink
<1> QED BY <1>1, <1>2, <1>4, <1>5 DEF LinksInv

(* Nobody is on the way in, and no place is taken: what then changes can     *)
(* only take away members.                                                   *)
LEMMA RowFreeKeeps ==
  ASSUME LinksInv, row = Unlocked, row' = row, attempt' = attempt, LinksTypeOK',
         standing'[Maker] = "admin", Members' \subseteq Members,
         \A l \in Ids : links'[l].uses <= MaxUses /\ links'[l].signups <= MaxUses
  PROVE  LinksInv'
<1>1. \A p \in Person : attempt[p] = Still
  BY LinkFacts
<1>2. EntersUnderRow'
  BY <1>1 DEF EntersUnderRow, Still
<1>3. /\ IsFiniteSet(Members') /\ Cardinality(Members') <= Cardinality(Members)
      /\ Cardinality(Members') \in Nat /\ Cardinality(Members) \in Nat
  BY MembersAreFinite, FS_Subset, FS_CardinalityType
<1>4. Maker \in Members'
  BY LinksAssumption DEF Members
<1>5. PlacesKept'
  <2>1. CASE Members = {Maker}
    <3>1. Members' = {Maker}
      BY <2>1, <1>4
    <3> QED BY <3>1 DEF PlacesKept
  <2>2. CASE Cardinality(Members) <= MaxMembers
    <3>1. Cardinality(Members') <= MaxMembers
      BY <2>2, <1>3, LinksAssumption
    <3> QED BY <3>1 DEF PlacesKept
  <2> QED BY <2>1, <2>2 DEF LinksInv, PlacesKept
<1> QED BY <1>2, <1>3, <1>5 DEF LinksInv, OwnerStays

(* Somebody gives the row back without having come in.                       *)
LEMMA GivesUp ==
  ASSUME LinksInv, NEW p \in Person, attempt[p] # Still,
         attempt' = [attempt EXCEPT ![p] = Still],
         row' = IF row = p THEN Unlocked ELSE row
  PROVE  /\ \A q \in Person : attempt'[q] = Still
         /\ row' = Unlocked /\ attempt' \in [Person -> Attempt]
BY LinkFacts DEF LinksInv, LinksTypeOK, Attempt

-----------------------------------------------------------------------------
LEMMA TakeRowKeeps ==
  ASSUME LinksInv, NEW p \in Person, TakeRow(p)
  PROVE  LinksInv'
<1>1. PICK by \in Ways, l \in Ids :
        /\ attempt[p] = Still /\ row = Unlocked /\ row' = p
        /\ by = "signup" => standing[p] = "stranger"
        /\ attempt' = [attempt EXCEPT ![p] = [at |-> "locked", by |-> by, link |-> l]]
  BY DEF TakeRow, Wait, Ways
<1>2. UNCHANGED <<standing, barred, disabled, invited, links>>
  BY DEF TakeRow
<1>3. \A q \in Person : attempt[q] = Still
  BY <1>1, LinkFacts
<1>4. LinksTypeOK'
  BY <1>1, <1>2 DEF LinksInv, LinksTypeOK, Attempt
<1>5. EntersUnderRow'
  BY <1>1, <1>2, <1>3 DEF LinksInv, LinksTypeOK, EntersUnderRow, Still
<1> QED BY <1>2, <1>4, <1>5 DEF LinksInv, OwnerStays, PlacesKept, Members

LEMMA ExamineKeeps ==
  ASSUME LinksInv, NEW p \in Person, Examine(p)
  PROVE  LinksInv'
<1>1. /\ attempt[p].at = "locked" /\ attempt[p] # Still
      /\ UNCHANGED <<standing, barred, disabled, invited, links>>
  BY LinkFacts DEF Examine
<1>2. CASE Allowed(p)
  <2>1. attempt' = [attempt EXCEPT ![p].at = "granted"] /\ row' = row
    BY <1>2 DEF Examine
  <2>2. /\ attempt[p] \in [at : {"locked", "granted"}, by : Ways, link : Ids]
        /\ attempt \in [Person -> Attempt]
    BY <1>1, LinkFacts DEF Attempt, LinksInv, LinksTypeOK
  <2>3. /\ attempt' \in [Person -> Attempt]
        /\ attempt'[p].by = attempt[p].by /\ attempt'[p].link = attempt[p].link
        /\ \A q \in Person \ {p} : attempt'[q] = attempt[q]
    BY <2>1, <2>2 DEF Attempt
  <2>4. MayEnter(p)'
    <3>1. Room(FALSE) => Cardinality(Members) < MaxMembers
      BY MembersAreFinite DEF Room
    <3> QED BY <1>1, <1>2, <2>3, <3>1
          DEF Allowed, Stands, Claimable, SignupAvailable, MayEnter, Members
  <2>5. row = p /\ \A q \in Person \ {p} : attempt[q] = Still
    BY <1>1, LinkFacts
  <2>6. EntersUnderRow'
    BY <1>1, <2>1, <2>3, <2>4, <2>5 DEF LinksInv, EntersUnderRow, Still
  <2> QED BY <1>1, <2>1, <2>3, <2>6 DEF LinksInv, LinksTypeOK, OwnerStays, PlacesKept, Members
<1>3. CASE ~Allowed(p)
  <2>1. \A q \in Person : attempt'[q] = Still /\ row' = Unlocked /\ attempt' \in [Person -> Attempt]
    BY <1>1, <1>3, GivesUp DEF Examine
  <2>2. EntersUnderRow'
    BY <2>1 DEF EntersUnderRow, Still
  <2> QED BY <1>1, <2>1, <2>2, LinksAssumption DEF LinksInv, LinksTypeOK, OwnerStays, PlacesKept, Members
<1> QED BY <1>2, <1>3

LEMMA RefusedKeeps ==
  ASSUME LinksInv, NEW p \in Person, Refused(p)
  PROVE  LinksInv'
<1>1. \A q \in Person : attempt'[q] = Still /\ row' = Unlocked /\ attempt' \in [Person -> Attempt]
  BY GivesUp, LinksAssumption DEF Refused
<1>2. EntersUnderRow'
  BY <1>1 DEF EntersUnderRow, Still
<1> QED BY <1>1, <1>2, LinksAssumption
      DEF Refused, LinksInv, LinksTypeOK, OwnerStays, PlacesKept, Members

LEMMA JoinKeeps ==
  ASSUME LinksInv, NEW p \in Person, Join(p)
  PROVE  LinksInv'
<1> DEFINE l == attempt[p].link
<1>1. /\ attempt[p].at = "granted" /\ attempt[p] # Still /\ attempt[p].by \in Ways /\ l \in Ids
      /\ row = p
  BY LinkFacts DEF Join
<1>2. \A q \in Person : attempt'[q] = Still /\ row' = Unlocked /\ attempt' \in [Person -> Attempt]
  BY <1>1, GivesUp, LinksAssumption DEF Join
<1>3. EntersUnderRow'
  BY <1>2 DEF EntersUnderRow, Still
<1>4. MayEnter(p) /\ (attempt[p].by = "signup" => standing[p] = "stranger")
  BY <1>1 DEF LinksInv, EntersUnderRow
<1>5. /\ links[l] \in LinkRow /\ links \in [Ids -> LinkRow]
      /\ links[l].uses + 1 \in Nat /\ links[l].signups + 1 \in Nat
      /\ standing \in [Person -> {"stranger", "out", "member", "admin"}]
  BY <1>1 DEF LinksInv, LinksTypeOK, LinkRow
<1>6. CASE attempt[p].by = "signup"
  <2>1. /\ standing' = [standing EXCEPT ![p] = "out"]
        /\ links' = [links EXCEPT ![l].signups = @ + 1]
        /\ UNCHANGED <<barred, invited, disabled>>
    BY <1>6 DEF Join
  <2>2. links' \in [Ids -> LinkRow]
    BY <1>1, <1>5, <2>1 DEF LinkRow
  <2>3. Members' = Members
    BY <1>4, <1>5, <1>6, <2>1 DEF Members
  <2>4. \A k \in Ids : links'[k].uses = links[k].uses /\ links'[k].signups <= MaxUses
    <3>1. links[l].signups + 1 <= MaxUses
      BY <1>4, <1>5, <1>6, LinksAssumption DEF MayEnter, LinkRow
    <3> QED BY <1>1, <1>5, <2>1, <3>1 DEF LinksInv, PlacesKept, LinkRow
  <2>5. standing'[Maker] = "admin"
    BY <1>4, <1>5, <1>6, <2>1, LinksAssumption DEF LinksInv, OwnerStays
  <2> QED BY <1>2, <1>3, <1>5, <2>1, <2>2, <2>3, <2>4, <2>5, LinksAssumption
        DEF LinksInv, LinksTypeOK, OwnerStays, PlacesKept
<1>7. CASE attempt[p].by # "signup"
  <2>1. /\ standing' = [standing EXCEPT ![p] = "member"]
        /\ links' = IF attempt[p].by = "link" THEN [links EXCEPT ![l].uses = @ + 1] ELSE links
        /\ barred' = barred \ {p} /\ invited' = {i \in invited : i.to # p}
    BY <1>7 DEF Join
  <2>2. links' \in [Ids -> LinkRow]
    BY <1>1, <1>5, <2>1 DEF LinkRow
  <2>3. Members' = Members \cup {p} /\ p \notin Members /\ Cardinality(Members) < MaxMembers
    BY <1>4, <1>5, <1>7, <2>1 DEF MayEnter, Members
  <2>4. IsFiniteSet(Members') /\ Cardinality(Members') = Cardinality(Members) + 1
    BY <2>3, MembersAreFinite, FS_AddElement
  <2>5. Cardinality(Members') <= MaxMembers
    BY <2>3, <2>4, MembersAreFinite, LinksAssumption
  <2>6. \A k \in Ids : links'[k].uses <= MaxUses /\ links'[k].signups = links[k].signups
    <3>1. attempt[p].by = "link" => links[l].uses + 1 <= MaxUses
      BY <1>4, <1>5, LinksAssumption DEF MayEnter, LinkRow
    <3> QED BY <1>1, <1>5, <2>1, <3>1 DEF LinksInv, PlacesKept, LinkRow
  <2>7. standing'[Maker] = "admin"
    BY <1>5, <2>1, <2>3, MembersAreFinite, LinksAssumption DEF LinksInv, OwnerStays
  <2> QED BY <1>2, <1>3, <1>5, <2>1, <2>2, <2>4, <2>5, <2>6, <2>7, LinksAssumption
        DEF LinksInv, LinksTypeOK, OwnerStays, PlacesKept
<1> QED BY <1>6, <1>7

(* The operator and the clock take nothing a grant was given for.            *)
LEMMA DisableExpireKeep ==
  ASSUME LinksInv, \/ Expire
                   \/ \E p \in Person : Disable(p)
  PROVE  LinksInv'
<1>1. UNCHANGED <<standing, barred, invited, row, attempt>>
  BY DEF Expire, Disable
<1>2. /\ links' \in [Ids -> LinkRow]
      /\ \A l \in Ids : /\ links'[l].sender = links[l].sender /\ links'[l].uses = links[l].uses
                        /\ links'[l].signups = links[l].signups
  <2>1. links \in [Ids -> LinkRow]
    BY DEF LinksInv, LinksTypeOK
  <2>2. CASE Expire
    <3>1. PICK l \in Ids : links' = [links EXCEPT ![l].expired = TRUE]
      BY <2>2 DEF Expire
    <3> QED BY <2>1, <3>1 DEF LinkRow
  <2>3. CASE links' = links
    BY <2>1, <2>3
  <2> QED BY <2>2, <2>3 DEF Disable
<1>3. \A p \in Person : MayEnter(p) /\ attempt[p].at = "granted" => MayEnter(p)'
  <2> SUFFICES ASSUME NEW p \in Person, MayEnter(p), attempt[p].at = "granted" PROVE MayEnter(p)'
    OBVIOUS
  <2>1. attempt[p].link \in Ids
    BY LinkFacts
  <2> QED BY <1>1, <1>2, <2>1 DEF MayEnter, Members
<1> QED BY <1>1, <1>2, <1>3 DEF LinksInv, LinksTypeOK, EntersUnderRow, OwnerStays, PlacesKept, Members

(* What an admin does with the row of the space free.                        *)
LEMMA AdminsKeep ==
  ASSUME LinksInv, NEW p \in Person,
         \/ Create(p) \/ Revoke(p)
         \/ \E q \in Person : Invite(p, q) \/ Remove(p, q) \/ Modify(p, q)
  PROVE  LinksInv'
<1>1. row = Unlocked /\ row' = row /\ attempt' = attempt
  BY DEF Create, Revoke, Invite, Remove, Modify, Admin
<1>2. /\ standing \in [Person -> {"stranger", "out", "member", "admin"}] /\ barred \subseteq Person
      /\ invited \subseteq [to : Person, from : Person] /\ links \in [Ids -> LinkRow]
      /\ \A l \in Ids : links[l].uses <= MaxUses /\ links[l].signups <= MaxUses
      /\ standing[Maker] = "admin"
  BY DEF LinksInv, LinksTypeOK, OwnerStays, PlacesKept
<1>3. \A q \in Person : /\ Without(q) \in [Ids -> LinkRow]
                        /\ \A l \in Ids : Without(q)[l].uses <= MaxUses /\ Without(q)[l].signups <= MaxUses
                        /\ Unsent(q) \subseteq invited
  BY <1>2 DEF Without, Unsent, LinkRow
<1>4. CASE Create(p)
  <2>1. PICK l \in Ids : links' = [links EXCEPT ![l] = [NoLink EXCEPT !.made = TRUE, !.sender = p]]
    BY <1>4 DEF Create
  <2>2. links' \in [Ids -> LinkRow] /\ \A k \in Ids : links'[k].uses <= MaxUses /\ links'[k].signups <= MaxUses
    <3> DEFINE made == [NoLink EXCEPT !.made = TRUE, !.sender = p]
    <3>1. made \in LinkRow /\ made.uses = 0 /\ made.signups = 0
      BY DEF NoLink, LinkRow
    <3> HIDE DEF made
    <3>2. links' \in [Ids -> LinkRow] /\ \A k \in Ids : links'[k] \in {links[k], made}
      BY <1>2, <2>1, <3>1 DEF made
    <3> QED BY <1>2, <3>1, <3>2, LinksAssumption
  <2> QED BY <1>1, <1>2, <1>4, <2>2, RowFreeKeeps DEF Create, LinksInv, LinksTypeOK, Members
<1>5. CASE Revoke(p)
  <2>1. PICK l \in Ids : links' = [links EXCEPT ![l].made = FALSE]
    BY <1>5 DEF Revoke
  <2>2. links' \in [Ids -> LinkRow] /\ \A k \in Ids : links'[k].uses <= MaxUses /\ links'[k].signups <= MaxUses
    BY <1>2, <2>1 DEF LinkRow
  <2> QED BY <1>1, <1>2, <1>5, <2>2, RowFreeKeeps DEF Revoke, LinksInv, LinksTypeOK, Members
<1>6. ASSUME NEW q \in Person, Invite(p, q) PROVE LinksInv'
  <2>1. invited' \subseteq [to : Person, from : Person]
    BY <1>2, <1>6 DEF Invite
  <2> QED BY <1>1, <1>2, <1>6, <2>1, RowFreeKeeps DEF Invite, LinksInv, LinksTypeOK, Members
<1>7. ASSUME NEW q \in Person, Remove(p, q) PROVE LinksInv'
  <2>1. /\ standing' = [standing EXCEPT ![q] = "out"] /\ q # Maker /\ barred' \subseteq Person
        /\ links' = Without(q) /\ invited' = Unsent(q)
    BY <1>2, <1>7 DEF Remove
  <2>2. Members' \subseteq Members /\ standing'[Maker] = "admin"
    BY <1>2, <2>1, LinksAssumption DEF Members
  <2> QED BY <1>1, <1>2, <1>3, <2>1, <2>2, RowFreeKeeps DEF LinksInv, LinksTypeOK
<1>8. ASSUME NEW q \in Person, Modify(p, q) PROVE LinksInv'
  <2>1. PICK level \in {"member", "admin"} : standing' = [standing EXCEPT ![q] = level]
    BY <1>8 DEF Modify
  <2>2. q \in Members /\ q # Maker /\ barred' = barred
        /\ \/ links' = links /\ invited' = invited
           \/ links' = Without(q) /\ invited' = Unsent(q)
    BY <1>8 DEF Modify
  <2>3. Members' \subseteq Members /\ standing'[Maker] = "admin"
    BY <1>2, <2>1, <2>2, LinksAssumption DEF Members
  <2> QED BY <1>1, <1>2, <1>3, <2>1, <2>2, <2>3, RowFreeKeeps DEF LinksInv, LinksTypeOK
<1> QED BY <1>4, <1>5, <1>6, <1>7, <1>8

LEMMA LinksStepInv == LinksInv /\ [LinksNext]_linkVars => LinksInv'
<1> SUFFICES ASSUME LinksInv, [LinksNext]_linkVars PROVE LinksInv'
  OBVIOUS
<1>1. CASE UNCHANGED linkVars
  BY <1>1 DEF linkVars, LinksInv, LinksTypeOK, EntersUnderRow, MayEnter, OwnerStays, PlacesKept, Members
<1> QED BY <1>1, TakeRowKeeps, ExamineKeeps, JoinKeeps, RefusedKeeps, DisableExpireKeep, AdminsKeep
      DEF LinksNext

LEMMA LinksInvHolds == LinksSpec => []LinksInv
BY LinksInitInv, LinksStepInv, PTL DEF LinksSpec

(* For any people, links and limits, nobody comes in past what a link or the *)
(* plan allows: what a claim counted is still so when it adds the member,    *)
(* because it holds the row of the space (claim, signup_grant, accept).      *)
THEOREM PlacesAreKept == LinksSpec => []PlacesKept
<1>1. LinksInv => PlacesKept
  BY DEF LinksInv
<1> QED BY <1>1, LinksInvHolds, PTL

(* The word of an admin still stands at the moment it lets somebody in, for  *)
(* the same reason (find, withdraw_links, add_member).                       *)
THEOREM LinksJoinByAnAdmin == LinksSpec => JoinsAreAuthorised
<1>1. LinksInv => \A p \in Person :
        attempt[p].at = "granted" /\ attempt[p].by = "link" =>
          standing[links[attempt[p].link].sender] = "admin" /\ p \notin barred
  BY DEF LinksInv, EntersUnderRow, MayEnter
<1>2. LinksInv /\ [LinksNext]_linkVars =>
        [\A p \in Person :
           /\ attempt[p].at = "granted" /\ attempt[p].by = "link" /\ p \notin Members /\ p \in Members'
           => /\ standing[links[attempt[p].link].sender] = "admin"
              /\ p \notin barred]_linkVars
  BY <1>1
<1> QED BY <1>2, LinksInvHolds, PTL DEF LinksSpec, JoinsAreAuthorised
-----------------------------------------------------------------------------
(***************************************************************************)
(* Blobs: that every revision stays readable while chunks are written,     *)
(* shared, freed and swept away at the same time.                          *)
(***************************************************************************)
RowsOf == [Chunk -> BlobKey \cup {NoKey}]
RevsOf == [Note -> Seq(Chunk)]
Transaction ==
  [at : {"none", "open", "putting", "put", "written"}, revs : RevsOf, rows : RowsOf,
   chunk : Chunk \cup {NoKey}, put : SUBSET BlobKey, freed : SUBSET BlobKey, ended : BOOLEAN]

BlobsTypeOK ==
  /\ revs \in RevsOf /\ rows \in RowsOf
  /\ files \subseteq BlobKey /\ aged \subseteq BlobKey /\ fresh \subseteq BlobKey
  /\ late \subseteq BlobKey /\ doomed \subseteq BlobKey /\ sweep \subseteq BlobKey
  /\ tx \in Transaction

(* The keys rows point into.                                                 *)
Pointed(rs) == {rs[c] : c \in Chunk} \ {NoKey}

Stored(rv, rs) == \A c \in Named(rv) : c \in Chunk /\ rs[c] # NoKey

(* A row's file is there, and nobody who removes files has its key: not      *)
(* those who remove after a transaction, and not the sweep.                  *)
RowsHaveFiles ==
  /\ Stored(revs, rows)
  /\ Pointed(rows) \subseteq files
  /\ Pointed(rows) \cap (doomed \cup sweep) = {}

(* A key not made yet is nowhere.                                            *)
FreshIsUnseen ==
  fresh \cap (files \cup aged \cup late \cup doomed \cup sweep \cup Pointed(rows)) = {}

(* The rows a transaction would leave are committed ones and the one it put, *)
(* and its file is there before that row is; nobody else has its key.        *)
WritesAreSound ==
  tx.at # "none" =>
    /\ Stored(tx.revs, tx.rows)
    /\ Pointed(tx.rows) \subseteq Pointed(rows) \cup (IF tx.at \in {"put", "written"} THEN tx.put ELSE {})
    /\ tx.put \cap (Pointed(rows) \cup fresh \cup aged \cup doomed \cup sweep) = {}
    /\ tx.at \in {"put", "written"} => tx.put \subseteq files
    /\ tx.at = "open" => tx.put = {}
    /\ tx.at = "putting" => tx.chunk \in Chunk /\ tx.put # {}
    /\ tx.at # "written" => tx.freed = {}
    /\ tx.freed \subseteq (Pointed(rows) \cup tx.put) \ Pointed(tx.rows)

BlobsInv == BlobsTypeOK /\ RowsHaveFiles /\ FreshIsUnseen /\ WritesAreSound

-----------------------------------------------------------------------------
LEMMA NamedChunks ==
  ASSUME NEW rv \in RevsOf
  PROVE  /\ Named(rv) \subseteq Chunk
         /\ \A n \in Note : \A i \in DOMAIN rv[n] : rv[n][i] \in Named(rv)
         /\ \A c \in Named(rv) : \E n \in Note : \E i \in DOMAIN rv[n] : c = rv[n][i]
<1>1. \A n \in Note : \A i \in DOMAIN rv[n] : rv[n][i] \in Chunk
  BY DEF RevsOf
<1> QED BY <1>1 DEF Named

LEMMA NothingStored ==
  /\ NoTx.revs \in RevsOf /\ NoTx.rows \in RowsOf /\ NoTx \in Transaction
  /\ Named(NoTx.revs) = {} /\ Pointed(NoTx.rows) = {}
  /\ NoTx.at = "none" /\ NoTx.put = {} /\ NoTx.freed = {}
<1>1. NoTx.revs \in RevsOf /\ NoTx.rows \in RowsOf
  BY DEF NoTx, RevsOf, RowsOf
<1>2. NoTx \in Transaction
  BY <1>1 DEF NoTx, Transaction
<1>3. Named(NoTx.revs) = {} /\ Pointed(NoTx.rows) = {}
  BY DEF NoTx, Named, Pointed
<1> QED BY <1>1, <1>2, <1>3 DEF NoTx

LEMMA PointedKeys ==
  ASSUME NEW rs \in RowsOf
  PROVE  Pointed(rs) \subseteq BlobKey /\ \A c \in Chunk : rs[c] = NoKey \/ rs[c] \in Pointed(rs)
BY DEF Pointed, RowsOf

LEMMA TransactionFields ==
  ASSUME BlobsInv
  PROVE  /\ tx.revs \in RevsOf /\ tx.rows \in RowsOf /\ tx.put \subseteq BlobKey
         /\ tx.freed \subseteq BlobKey /\ tx.chunk \in Chunk \cup {NoKey}
         /\ revs \in RevsOf /\ rows \in RowsOf
BY DEF BlobsInv, BlobsTypeOK, Transaction

LEMMA BlobsInitInv == BlobsInit => BlobsInv
<1> SUFFICES ASSUME BlobsInit PROVE BlobsInv
  OBVIOUS
<1>1. BlobsTypeOK
  BY NothingStored DEF BlobsInit, BlobsTypeOK
<1>2. RowsHaveFiles /\ FreshIsUnseen /\ WritesAreSound
  BY NothingStored DEF BlobsInit, RowsHaveFiles, FreshIsUnseen, WritesAreSound, Stored
<1> QED BY <1>1, <1>2 DEF BlobsInv

(* A transaction is over: committed, with what it freed about to be removed, *)
(* or not, with what it put.                                                 *)
LEMMA TransactionOver ==
  ASSUME BlobsInv, tx.at # "none", tx' = NoTx, fresh' = fresh, aged' = aged, sweep' \subseteq sweep,
         files \subseteq files', files' \subseteq files \cup tx.put,
         late' \subseteq late \cup tx.put,
         \/ UNCHANGED <<revs, rows>> /\ doomed' \subseteq doomed \cup tx.put
         \/ Complete /\ Applied /\ doomed' \subseteq doomed \cup tx.freed
  PROVE  BlobsInv'
<1>1. WritesAreSound'
  BY NothingStored DEF WritesAreSound
<1>2. CASE UNCHANGED <<revs, rows>> /\ doomed' \subseteq doomed \cup tx.put
  <2>1. BlobsTypeOK'
    BY <1>2, TransactionFields, NothingStored DEF BlobsInv, BlobsTypeOK
  <2>2. RowsHaveFiles' /\ FreshIsUnseen'
    BY <1>2 DEF BlobsInv, RowsHaveFiles, FreshIsUnseen, WritesAreSound, Stored
  <2> QED BY <1>1, <2>1, <2>2 DEF BlobsInv
<1>3. CASE Complete /\ Applied /\ doomed' \subseteq doomed \cup tx.freed
  <2>1. BlobsTypeOK'
    BY <1>3, TransactionFields, NothingStored DEF BlobsInv, BlobsTypeOK, Applied
  <2>2. /\ Stored(tx.revs, tx.rows) /\ tx.put \subseteq files
        /\ Pointed(tx.rows) \subseteq Pointed(rows) \cup tx.put
        /\ tx.put \cap (Pointed(rows) \cup fresh \cup aged \cup doomed \cup sweep) = {}
        /\ tx.at # "written" => tx.freed = {}
    /\ tx.freed \subseteq (Pointed(rows) \cup tx.put) \ Pointed(tx.rows)
    BY <1>3 DEF Complete, BlobsInv, WritesAreSound
  <2>3. RowsHaveFiles'
    BY <1>3, <2>2 DEF Applied, BlobsInv, RowsHaveFiles
  <2>4. FreshIsUnseen'
    BY <1>3, <2>2 DEF Applied, BlobsInv, FreshIsUnseen
  <2> QED BY <1>1, <2>1, <2>3, <2>4 DEF BlobsInv
<1> QED BY <1>2, <1>3

(* What prune and drop_content leave of a transaction's rows.                *)
LEMMA WrittenKeeps ==
  ASSUME BlobsInv, NEW rv \in RevsOf, NEW dropped \in SUBSET Chunk, NEW over \in BOOLEAN,
         tx.at \in {"open", "put"}, Stored(rv, tx.rows), Written(rv, dropped, over),
         UNCHANGED <<revs, rows, files, aged, fresh, late, doomed, sweep>>
  PROVE  BlobsInv'
<1> DEFINE rs == Pruned(rv, tx.rows, dropped)
           freed == Unused({tx.rows[c] : c \in dropped} \ {NoKey}, rs)
<1>1. rs \in RowsOf /\ Pointed(rs) \subseteq Pointed(tx.rows) /\ Stored(rv, rs)
  BY TransactionFields, NamedChunks DEF Pruned, RowsOf, Pointed, Stored
<1>2. freed \subseteq Pointed(tx.rows) \ Pointed(rs) /\ freed \subseteq BlobKey
  BY TransactionFields, PointedKeys DEF Unused, Pointed
<1>3. /\ tx' \in Transaction /\ tx'.at = "written" /\ tx'.revs = rv /\ tx'.rows = rs
      /\ tx'.put = tx.put /\ tx'.freed = freed
  <2> HIDE DEF rs, freed
  <2>1. tx \in Transaction
    BY DEF BlobsInv, BlobsTypeOK
  <2>2. tx' = [tx EXCEPT !.at = "written", !.revs = rv, !.rows = rs, !.ended = over, !.freed = freed]
    BY DEF Written, rs, freed
  <2> QED BY <1>1, <1>2, <2>1, <2>2 DEF Transaction
<1>4. WritesAreSound'
  <2> HIDE DEF rs, freed
  <2>1. /\ Pointed(tx.rows) \subseteq Pointed(rows) \cup tx.put /\ tx.put \subseteq files
        /\ tx.put \cap (Pointed(rows) \cup fresh \cup aged \cup doomed \cup sweep) = {}
    BY DEF BlobsInv, WritesAreSound
  <2> QED BY <1>1, <1>2, <1>3, <2>1 DEF WritesAreSound
<1> QED BY <1>3, <1>4 DEF BlobsInv, BlobsTypeOK, RowsHaveFiles, FreshIsUnseen, Stored

-----------------------------------------------------------------------------
LEMMA ReviseKeeps ==
  ASSUME BlobsInv, NEW n \in Note, NEW c \in Chunk, Revise(n, c)
  PROVE  BlobsInv'
<1> DEFINE old == tx.revs[n]
           m == IF Len(old) < Kept THEN Len(old) + 1 ELSE Kept + 1
           keep == SubSeq(<<c>> \o old, 1, m)
           rv == [tx.revs EXCEPT ![n] = keep]
<1>1. tx.revs \in RevsOf /\ old \in Seq(Chunk)
  BY TransactionFields DEF RevsOf
<1>2. keep \in Seq(Chunk) /\ \A i \in DOMAIN keep : keep[i] = c \/ \E j \in DOMAIN old : keep[i] = old[j]
  <2>1. m \in Nat /\ m <= Len(old) + 1 /\ Len(old) \in Nat
    BY <1>1, BlobsAssumption
  <2> HIDE DEF m, old
  <2>2. <<c>> \o old \in Seq(Chunk) /\ Len(<<c>> \o old) = Len(old) + 1
    BY <1>1
  <2>3. \A i \in 1 .. Len(old) + 1 : (<<c>> \o old)[i] = IF i = 1 THEN c ELSE old[i - 1]
    BY <1>1
  <2>4. keep \in Seq(Chunk) /\ Len(keep) = m /\ \A i \in 1 .. m : keep[i] = (<<c>> \o old)[i]
    BY <2>1, <2>2
  <2> HIDE DEF keep
  <2>5. DOMAIN keep = 1 .. m /\ DOMAIN old = 1 .. Len(old)
    BY <1>1, <2>4
  <2>6. ASSUME NEW i \in DOMAIN keep
        PROVE  keep[i] = c \/ \E j \in DOMAIN old : keep[i] = old[j]
    <3>1. i \in 1 .. m /\ i \in 1 .. Len(old) + 1
      BY <2>1, <2>5
    <3>2. CASE i = 1
      BY <2>3, <2>4, <3>1, <3>2
    <3>3. CASE i # 1
      <4>1. i - 1 \in DOMAIN old
        BY <2>1, <2>5, <3>1, <3>3
      <4> QED BY <2>3, <2>4, <3>1, <3>3, <4>1
    <3> QED BY <3>2, <3>3
  <2> QED BY <2>4, <2>6
<1>3. rv \in RevsOf
  <2> HIDE DEF keep
  <2> QED BY <1>1, <1>2 DEF RevsOf
<1>4. tx.at \in {"open", "put"} /\ tx.rows[c] # NoKey
  BY DEF Revise
<1>5. Stored(rv, tx.rows)
  <2> HIDE DEF keep
  <2>1. Stored(tx.revs, tx.rows)
    BY <1>4 DEF BlobsInv, WritesAreSound
  <2>2. ASSUME NEW k \in Note, NEW i \in DOMAIN rv[k]
        PROVE  rv[k][i] \in Chunk /\ tx.rows[rv[k][i]] # NoKey
    <3>1. CASE k = n
      <4>1. rv[k] = keep
        BY <1>1, <3>1 DEF RevsOf
      <4> QED BY <1>1, <1>2, <1>4, <2>1, <2>2, <4>1, NamedChunks DEF Stored
    <3>2. CASE k # n
      <4>1. rv[k] = tx.revs[k]
        BY <1>1, <3>2 DEF RevsOf
      <4> QED BY <1>1, <2>1, <2>2, <4>1, NamedChunks DEF Stored
    <3> QED BY <3>1, <3>2
  <2> HIDE DEF rv
  <2> QED BY <1>3, <2>2, NamedChunks DEF Stored
<1>6. {old[i] : i \in DOMAIN old} \in SUBSET Chunk
  BY <1>1
<1> QED BY <1>3, <1>4, <1>5, <1>6, WrittenKeeps DEF Revise

LEMMA DeletingKeeps ==
  ASSUME BlobsInv, EndSpace \/ \E n \in Note : DeleteItem(n)
  PROVE  BlobsInv'
<1>1. CASE EndSpace
  <2>1. /\ [n \in Note |-> <<>>] \in RevsOf
        /\ Named([n \in Note |-> <<>>]) = {}
    BY DEF RevsOf, Named
  <2> QED BY <1>1, <2>1, WrittenKeeps DEF EndSpace, Stored
<1>2. ASSUME NEW n \in Note, DeleteItem(n) PROVE BlobsInv'
  <2> DEFINE rv == [tx.revs EXCEPT ![n] = <<>>]
  <2>1. tx.revs \in RevsOf /\ rv \in RevsOf /\ tx.at = "open"
    BY <1>2, TransactionFields DEF RevsOf, DeleteItem
  <2>2. Named(rv) \subseteq Named(tx.revs)
    <3>1. \A k \in Note : \A i \in DOMAIN rv[k] : i \in DOMAIN tx.revs[k] /\ rv[k][i] = tx.revs[k][i]
      BY <2>1 DEF RevsOf
    <3> HIDE DEF rv
    <3> QED BY <2>1, <3>1, NamedChunks
  <2>3. Stored(rv, tx.rows)
    BY <2>1, <2>2 DEF Stored, BlobsInv, WritesAreSound
  <2>4. {tx.revs[n][i] : i \in DOMAIN tx.revs[n]} \in SUBSET Chunk
    BY <2>1 DEF RevsOf
  <2> QED BY <1>2, <2>1, <2>3, <2>4, WrittenKeeps DEF DeleteItem
<1> QED BY <1>1, <1>2

LEMMA StartWriteKeeps ==
  ASSUME BlobsInv, StartWrite
  PROVE  BlobsInv'
<1>1. /\ tx' = [NoTx EXCEPT !.at = "open", !.revs = revs, !.rows = rows]
      /\ UNCHANGED <<revs, rows, files, aged, fresh, late, doomed, sweep, ended, stops>>
  BY DEF StartWrite
<1>2. /\ tx' \in Transaction /\ tx'.at = "open" /\ tx'.put = {} /\ tx'.freed = {}
      /\ tx'.revs = revs /\ tx'.rows = rows
  BY <1>1, TransactionFields, NothingStored DEF NoTx, Transaction
<1> QED BY <1>1, <1>2 DEF BlobsInv, BlobsTypeOK, RowsHaveFiles, FreshIsUnseen, WritesAreSound, Stored

LEMMA PuttingKeeps ==
  ASSUME BlobsInv, Inserted \/ \E c \in Chunk : StartPut(c)
  PROVE  BlobsInv'
<1>1. ASSUME NEW c \in Chunk, StartPut(c) PROVE BlobsInv'
  <2>1. PICK k \in fresh :
          /\ tx.at = "open" /\ fresh' = fresh \ {k}
          /\ tx' = [tx EXCEPT !.at = "putting", !.chunk = c, !.put = {k}]
          /\ UNCHANGED <<revs, rows, files, aged, late, doomed, sweep>>
    BY <1>1 DEF StartPut
  <2>2. k \in BlobKey /\ tx \in Transaction
    BY DEF BlobsInv, BlobsTypeOK
  <2>3. /\ tx' \in Transaction /\ tx'.at = "putting" /\ tx'.put = {k} /\ tx'.chunk = c
        /\ tx'.revs = tx.revs /\ tx'.rows = tx.rows /\ tx'.freed = tx.freed
    BY <2>1, <2>2 DEF Transaction
  <2>4. BlobsTypeOK' /\ RowsHaveFiles' /\ FreshIsUnseen'
    BY <2>1, <2>3 DEF BlobsInv, BlobsTypeOK, RowsHaveFiles, FreshIsUnseen, Stored
  <2>5. WritesAreSound'
    BY <2>1, <2>3 DEF BlobsInv, FreshIsUnseen, WritesAreSound, Stored
  <2> QED BY <2>4, <2>5 DEF BlobsInv
<1>2. CASE Inserted
  <2> DEFINE k == CHOOSE k \in tx.put : TRUE
             rs == [tx.rows EXCEPT ![tx.chunk] = k]
  <2>1. /\ tx.at = "putting" /\ files' = files \cup tx.put
        /\ UNCHANGED <<revs, rows, aged, fresh, late, doomed, sweep>>
    BY <1>2 DEF Inserted
  <2>2. k \in tx.put /\ tx.chunk \in Chunk /\ k \in BlobKey /\ k # NoKey
    BY <2>1, TransactionFields, BlobsAssumption DEF BlobsInv, WritesAreSound
  <2>3. /\ rs \in RowsOf /\ Pointed(rs) \subseteq Pointed(tx.rows) \cup tx.put
        /\ Pointed(tx.rows) \subseteq Pointed(rows)
        /\ Stored(tx.revs, rs)
    <3> HIDE DEF k
    <3>1. Stored(tx.revs, tx.rows) /\ Pointed(tx.rows) \subseteq Pointed(rows)
      BY <2>1 DEF BlobsInv, WritesAreSound
    <3>2. tx.rows \in RowsOf
      BY TransactionFields
    <3> QED BY <2>2, <3>1, <3>2 DEF RowsOf, Pointed, Stored
  <2>4. /\ tx' \in Transaction /\ tx'.at = "put" /\ tx'.put = tx.put
        /\ tx'.revs = tx.revs /\ tx'.rows = rs /\ tx'.freed = tx.freed
    <3>1. tx \in Transaction /\ tx' = [tx EXCEPT !.at = "put", !.rows = rs]
      <4>1. tx \in Transaction /\ tx' = [tx EXCEPT !.at = "put", !.rows[tx.chunk] = k]
        BY <1>2 DEF Inserted, BlobsInv, BlobsTypeOK
      <4> HIDE DEF k
      <4> QED BY <4>1 DEF Transaction
    <3> HIDE DEF rs
    <3> QED BY <2>3, <3>1 DEF Transaction
  <2> HIDE DEF rs, k
  <2>5. BlobsTypeOK' /\ RowsHaveFiles' /\ FreshIsUnseen'
    BY <2>1, <2>4, TransactionFields DEF BlobsInv, BlobsTypeOK, RowsHaveFiles, FreshIsUnseen, WritesAreSound, Stored
  <2>6. WritesAreSound'
    BY <2>1, <2>3, <2>4 DEF BlobsInv, WritesAreSound
  <2> QED BY <2>5, <2>6 DEF BlobsInv
<1> QED BY <1>1, <1>2

LEMMA EndingKeeps ==
  ASSUME BlobsInv, CommitWrite \/ CommitUnanswered \/ Abandon
  PROVE  BlobsInv'
<1>1. CASE CommitWrite
  BY <1>1, TransactionOver DEF CommitWrite, Complete
<1>2. CASE CommitUnanswered
  BY <1>2, TransactionOver DEF CommitUnanswered, Complete
<1>3. CASE Abandon
  BY <1>3, TransactionOver DEF Abandon
<1> QED BY <1>1, <1>2, <1>3

(* Files are removed, age or appear: those that rows point into stay.        *)
LEMMA FilesKeep ==
  ASSUME BlobsInv, Appear \/ RemoveDoomed \/ GrowOld \/ Sweep \/ Reclaim
  PROVE  BlobsInv'
<1>1. /\ UNCHANGED <<revs, rows, fresh, tx>>
      /\ files' \subseteq BlobKey /\ aged' \subseteq BlobKey /\ late' \subseteq BlobKey
      /\ doomed' \subseteq BlobKey /\ sweep' \subseteq BlobKey
  BY DEF Appear, RemoveDoomed, GrowOld, Sweep, Reclaim, Swept, Unused, BlobsInv, BlobsTypeOK
<1>2. /\ files \ (doomed \cup sweep) \subseteq files'
      /\ files' \subseteq files \cup late
      /\ late' \subseteq late /\ doomed' \subseteq doomed
      /\ sweep' \subseteq sweep \cup (aged \ Pointed(rows))
      /\ aged' \subseteq aged \cup (files \ tx.put)
  BY PointedKeys DEF Appear, RemoveDoomed, GrowOld, Sweep, Reclaim, Swept, Unused, Pointed
<1>3. BlobsTypeOK'
  BY <1>1 DEF BlobsInv, BlobsTypeOK
<1>4. RowsHaveFiles' /\ FreshIsUnseen'
  BY <1>1, <1>2 DEF BlobsInv, RowsHaveFiles, FreshIsUnseen, Stored
<1>5. WritesAreSound'
  BY <1>1, <1>2 DEF BlobsInv, WritesAreSound, Stored
<1> QED BY <1>3, <1>4, <1>5 DEF BlobsInv

LEMMA OwnerRemovedKeeps ==
  ASSUME BlobsInv, OwnerRemoved
  PROVE  BlobsInv'
<1>1. /\ revs' = NoTx.revs /\ rows' = NoTx.rows /\ doomed' = doomed \cup files
      /\ UNCHANGED <<files, aged, fresh, late, tx, sweep>> /\ tx.at = "none"
  BY DEF OwnerRemoved
<1>2. BlobsTypeOK'
  BY <1>1, NothingStored DEF BlobsInv, BlobsTypeOK
<1>3. RowsHaveFiles' /\ FreshIsUnseen' /\ WritesAreSound'
  BY <1>1, NothingStored DEF BlobsInv, RowsHaveFiles, FreshIsUnseen, WritesAreSound, Stored
<1> QED BY <1>2, <1>3 DEF BlobsInv

LEMMA ServerStopsKeeps ==
  ASSUME BlobsInv, ServerStops
  PROVE  BlobsInv'
<1>1. /\ tx' = NoTx /\ doomed' = {} /\ sweep' = {} /\ late' = {} /\ UNCHANGED <<aged, fresh>>
      /\ UNCHANGED <<revs, rows>> \/ (Complete /\ Applied)
      /\ files' = files \/ (tx.at = "putting" /\ files' = files \cup tx.put)
  BY DEF ServerStops
<1>2. CASE tx.at # "none"
  BY <1>1, <1>2, TransactionOver
<1>3. CASE tx.at = "none"
  <2>1. UNCHANGED <<revs, rows, files>>
    BY <1>1, <1>3 DEF Complete
  <2> QED BY <1>1, <2>1, NothingStored
        DEF BlobsInv, BlobsTypeOK, RowsHaveFiles, FreshIsUnseen, WritesAreSound, Stored
<1> QED BY <1>2, <1>3

LEMMA BlobsStepInv == BlobsInv /\ [BlobsNext]_blobVars => BlobsInv'
<1> SUFFICES ASSUME BlobsInv, [BlobsNext]_blobVars PROVE BlobsInv'
  OBVIOUS
<1>1. CASE UNCHANGED blobVars
  BY <1>1 DEF blobVars, BlobsInv, BlobsTypeOK, RowsHaveFiles, FreshIsUnseen, WritesAreSound, Stored
<1> QED BY <1>1, ReviseKeeps, DeletingKeeps, StartWriteKeeps, PuttingKeeps, EndingKeeps, FilesKeep,
      OwnerRemovedKeeps, ServerStopsKeeps DEF BlobsNext, Handler

(* For any items, chunks, keys and stops of the server, what a revision      *)
(* names can be read: whoever removes a file, after a transaction or in the  *)
(* sweep, has a key that no row points into and none ever will (Uncommitted, *)
(* prune, discard_blobs, reclaim_blobs).                                     *)
THEOREM RevisionsStayReadable == BlobsSpec => []RevisionsReadable
<1>1. BlobsInv => RevisionsReadable
  BY PointedKeys DEF BlobsInv, BlobsTypeOK, RowsHaveFiles, Stored, RevisionsReadable
<1> QED BY <1>1, BlobsInitInv, BlobsStepInv, PTL DEF BlobsSpec
-----------------------------------------------------------------------------
(***************************************************************************)
(* Budget: that what an account stores and the spaces it has stay within   *)
(* its plan, for any number of requests and objects.                       *)
(***************************************************************************)
Charging == {"budget", "checked", "stored"}

BudgetRequest ==
  [at : Charging \cup {"idle", "row", "refused", "removing", "done"},
   op : {"create", "write", "upload", "invite", "delete", "end", "none"},
   space : Owned \cup {0}, rest : SUBSET Owned, add : Nat, back : Nat, left : Nat]

BudgetTypeOK ==
  /\ bytesUsed \in [Owned -> Nat]
  /\ spaceState \in [Owned -> {"none", "live", "deleted"}]
  /\ rowLock \in [Owned -> Request \cup {Nobody}]
  /\ {budgetLock, counterLock} \subseteq Request \cup {Nobody}
  /\ request \in [Request -> BudgetRequest]

(* Whoever is charged holds the budget lock to the end, and a new space has  *)
(* it from the start.                                                        *)
BudgetIsHeld ==
  \A r \in Request :
    /\ At(r, Charging) \/ (At(r, {"row"}) /\ request[r].op = "create") => budgetLock = r
    /\ At(r, Charging \cup {"row"}) => request[r].space \in Owned /\ request[r].add > 0

(* What was seen under the lock is still there.                              *)
SeenIsLeft ==
  \A r \in Request :
    /\ At(r, Charging) /\ request[r].left > 0 => StorageUsed + request[r].left <= StorageLimit
    /\ At(r, {"checked", "stored"}) => Fits(r)
    /\ At(r, Charging \cup {"row"}) /\ request[r].op = "create" => Cardinality(LiveSpaces) < SpaceLimit

BudgetInv == BudgetTypeOK /\ BudgetIsHeld /\ SeenIsLeft /\ Cardinality(LiveSpaces) <= SpaceLimit

LEMMA UsedAdds ==
  ASSUME BudgetTypeOK
  PROVE  StorageUsed = Adds(bytesUsed, Owned) /\ StorageUsed \in Nat
<1>1. StorageUsed = Adds(bytesUsed, Owned)
  BY DEF StorageUsed, Adds, MapThenSumSet, MapThenFoldSet
<1>2. bytesUsed \in [Owned -> Nat] /\ IsFiniteSet(Owned)
  BY BudgetAssumption DEF BudgetTypeOK
<1>3. Adds(bytesUsed, Owned) \in Nat
  BY <1>2, AddsSplit
<1> QED BY <1>1, <1>3

LEMMA UsedAddsNext ==
  ASSUME BudgetTypeOK'
  PROVE  StorageUsed' = Adds(bytesUsed', Owned) /\ StorageUsed' \in Nat
<1>1. bytesUsed' \in [Owned -> Nat]
  BY DEF BudgetTypeOK
<1>2. StorageUsed' = Adds(bytesUsed', Owned)
  BY DEF StorageUsed, Adds, MapThenSumSet, MapThenFoldSet
<1>3. Adds(bytesUsed', Owned) \in Nat
  BY <1>1, AddsSplit, BudgetAssumption
<1> QED BY <1>2, <1>3

LEMMA LiveCount ==
  /\ IsFiniteSet(LiveSpaces) /\ Cardinality(LiveSpaces) \in Nat
  /\ \A cs \in SUBSET Owned : \A c \in Owned :
       /\ cs \subseteq LiveSpaces => Cardinality(cs) <= Cardinality(LiveSpaces)
       /\ cs \subseteq LiveSpaces \cup {c} => Cardinality(cs) <= Cardinality(LiveSpaces) + 1
       /\ Cardinality(cs) \in Nat
<1>1. LiveSpaces \in SUBSET Owned /\ IsFiniteSet(LiveSpaces) /\ Cardinality(LiveSpaces) \in Nat
  BY BudgetAssumption, FS_Subset, FS_CardinalityType DEF LiveSpaces
<1>2. \A cs \in SUBSET Owned : IsFiniteSet(cs) /\ Cardinality(cs) \in Nat
  BY BudgetAssumption, FS_Subset, FS_CardinalityType
<1>3. \A cs \in SUBSET Owned : cs \subseteq LiveSpaces => Cardinality(cs) <= Cardinality(LiveSpaces)
  BY <1>1, FS_Subset
<1>4. \A c \in Owned : /\ IsFiniteSet(LiveSpaces \cup {c})
                       /\ Cardinality(LiveSpaces \cup {c}) <= Cardinality(LiveSpaces) + 1
                       /\ Cardinality(LiveSpaces \cup {c}) \in Nat
  <2> SUFFICES ASSUME NEW c \in Owned
               PROVE  /\ IsFiniteSet(LiveSpaces \cup {c})
                      /\ Cardinality(LiveSpaces \cup {c}) <= Cardinality(LiveSpaces) + 1
                      /\ Cardinality(LiveSpaces \cup {c}) \in Nat
    OBVIOUS
  <2>1. /\ IsFiniteSet(LiveSpaces \cup {c})
        /\ Cardinality(LiveSpaces \cup {c}) =
             IF c \in LiveSpaces THEN Cardinality(LiveSpaces) ELSE Cardinality(LiveSpaces) + 1
    BY <1>1, FS_AddElement
  <2> QED BY <2>1, <1>1
<1>5. \A cs \in SUBSET Owned : \A c \in Owned :
        cs \subseteq LiveSpaces \cup {c} => Cardinality(cs) <= Cardinality(LiveSpaces) + 1
  <2> SUFFICES ASSUME NEW cs \in SUBSET Owned, NEW c \in Owned, cs \subseteq LiveSpaces \cup {c}
               PROVE  Cardinality(cs) <= Cardinality(LiveSpaces) + 1
    OBVIOUS
  <2>1. Cardinality(cs) <= Cardinality(LiveSpaces \cup {c})
    BY <1>4, FS_Subset
  <2> QED BY <2>1, <1>1, <1>2, <1>4
<1> QED BY <1>1, <1>2, <1>3, <1>5

(* A step of one request: it gives the budget lock to nobody else and leaves *)
(* the others' alone, and what the space of the account comes to grows only  *)
(* under that lock.                                                          *)
Fair(r, v, lock, used, live) ==
  /\ v.at \in Charging \/ (v.at = "row" /\ v.op = "create") => lock = r
  /\ v.at \in Charging \cup {"row"} => v.space \in Owned /\ v.add > 0
  /\ v.at \in Charging /\ v.left > 0 => used + v.left <= StorageLimit
  /\ v.at \in {"checked", "stored"} => v.op \in {"delete", "end"} \/ v.add <= v.left
  /\ v.at \in Charging \cup {"row"} /\ v.op = "create" => live < SpaceLimit

LEMMA OneMoves ==
  ASSUME BudgetInv, NEW r \in Request, NEW v \in BudgetRequest,
         request' = [request EXCEPT ![r] = v],
         bytesUsed' \in [Owned -> Nat], spaceState' \in [Owned -> {"none", "live", "deleted"}],
         rowLock' \in [Owned -> Request \cup {Nobody}],
         {budgetLock', counterLock'} \subseteq Request \cup {Nobody},
         \A q \in Request : q # r /\ budgetLock = q => budgetLock' = q,
         StorageUsed' <= StorageUsed \/ budgetLock = r,
         Cardinality(LiveSpaces') <= Cardinality(LiveSpaces) \/ budgetLock = r,
         Cardinality(LiveSpaces') <= SpaceLimit,
         Fair(r, v, budgetLock', StorageUsed', Cardinality(LiveSpaces'))
  PROVE  BudgetInv'
<1>1. request' \in [Request -> BudgetRequest] /\ request'[r] = v
      /\ \A q \in Request : q # r => request'[q] = request[q]
  BY DEF BudgetInv, BudgetTypeOK
<1>2. BudgetTypeOK'
  BY <1>1 DEF BudgetTypeOK
<1>3. StorageUsed \in Nat /\ StorageUsed' \in Nat /\ StorageLimit \in Nat
  BY <1>2, UsedAdds, UsedAddsNext, BudgetAssumption DEF BudgetInv
<1>4. Cardinality(LiveSpaces) \in Nat /\ Cardinality(LiveSpaces') \in Nat /\ SpaceLimit \in Nat
  <2>1. LiveSpaces' \in SUBSET Owned
    BY DEF LiveSpaces
  <2> QED BY <2>1, LiveCount, BudgetAssumption, FS_Subset, FS_CardinalityType
<1>5. BudgetIsHeld'
  BY <1>1 DEF BudgetInv, BudgetIsHeld, At, Fair
<1>6. SeenIsLeft'
  <2> SUFFICES ASSUME NEW q \in Request
               PROVE  /\ At(q, Charging)' /\ request'[q].left > 0 =>
                           StorageUsed' + request'[q].left <= StorageLimit
                      /\ At(q, {"checked", "stored"})' => Fits(q)'
                      /\ At(q, Charging \cup {"row"})' /\ request'[q].op = "create" =>
                           Cardinality(LiveSpaces') < SpaceLimit
    BY DEF SeenIsLeft
  <2>1. CASE q = r
    BY <2>1, <1>1 DEF Fair, At, Fits
  <2>2. CASE q # r
    <3>1. request'[q] = request[q] /\ request[q] \in BudgetRequest
      BY <2>2, <1>1 DEF BudgetInv, BudgetTypeOK
    <3>2. At(q, Charging) \/ (At(q, {"row"}) /\ request[q].op = "create") => budgetLock # r
      BY <2>2 DEF BudgetInv, BudgetIsHeld
    <3>3. request[q].left \in Nat
      BY <3>1 DEF BudgetRequest
    <3>4. At(q, Charging) /\ request[q].left > 0 => StorageUsed + request[q].left <= StorageLimit
      BY DEF BudgetInv, SeenIsLeft
    <3>5. At(q, {"checked", "stored"}) => Fits(q)
      BY DEF BudgetInv, SeenIsLeft
    <3>6. At(q, Charging \cup {"row"}) /\ request[q].op = "create" => Cardinality(LiveSpaces) < SpaceLimit
      BY DEF BudgetInv, SeenIsLeft
    <3>7. At(q, Charging) /\ request[q].left > 0 => StorageUsed' + request[q].left <= StorageLimit
      BY <1>3, <3>2, <3>3, <3>4
    <3>8. At(q, Charging \cup {"row"}) /\ request[q].op = "create" => Cardinality(LiveSpaces') < SpaceLimit
      BY <1>4, <3>2, <3>6 DEF At
    <3> QED BY <3>1, <3>5, <3>7, <3>8 DEF At, Fits
  <2> QED BY <2>1, <2>2
<1> QED BY <1>2, <1>5, <1>6 DEF BudgetInv

LEMMA SameUsed ==
  ASSUME BudgetInv, UNCHANGED <<bytesUsed, spaceState>>
  PROVE  /\ bytesUsed' \in [Owned -> Nat] /\ spaceState' \in [Owned -> {"none", "live", "deleted"}]
         /\ StorageUsed' = StorageUsed /\ StorageUsed' <= StorageUsed
         /\ LiveSpaces' = LiveSpaces
         /\ Cardinality(LiveSpaces') <= Cardinality(LiveSpaces) /\ Cardinality(LiveSpaces') <= SpaceLimit
<1>1. bytesUsed \in [Owned -> Nat] /\ spaceState \in [Owned -> {"none", "live", "deleted"}]
  BY DEF BudgetInv, BudgetTypeOK
<1>2. StorageUsed' = StorageUsed
  BY DEF StorageUsed, MapThenSumSet, MapThenFoldSet
<1>3. LiveSpaces' = LiveSpaces
  BY DEF LiveSpaces
<1>4. StorageUsed \in Nat /\ Cardinality(LiveSpaces) \in Nat
  BY UsedAdds, LiveCount DEF BudgetInv
<1> QED BY <1>1, <1>2, <1>3, <1>4 DEF BudgetInv

(* What a transaction held is free when it ends.                             *)
LEMMA FreedLocks ==
  ASSUME BudgetInv, NEW r \in Request, Freed(r)
  PROVE  /\ rowLock' \in [Owned -> Request \cup {Nobody}]
         /\ {budgetLock', counterLock'} \subseteq Request \cup {Nobody}
         /\ \A q \in Request : q # r /\ budgetLock = q => budgetLock' = q
         /\ [Idle EXCEPT !.at = "done"] \in BudgetRequest
         /\ request' = [request EXCEPT ![r] = [Idle EXCEPT !.at = "done"]]
         /\ \A used, live : Fair(r, [Idle EXCEPT !.at = "done"], budgetLock', used, live)
<1>1. [Idle EXCEPT !.at = "done"] \in BudgetRequest /\ [Idle EXCEPT !.at = "done"].at = "done"
  BY DEF Idle, BudgetRequest, Charging
<1>2. \A used, live : Fair(r, [Idle EXCEPT !.at = "done"], budgetLock', used, live)
  BY <1>1 DEF Fair, Charging
<1> QED BY <1>1, <1>2 DEF Freed, BudgetInv, BudgetTypeOK

-----------------------------------------------------------------------------
(* Requests begin.                                                           *)
LEMMA AskedTransaction ==
  ASSUME BudgetInv, NEW r \in Request, NEW w \in Work, NEW c \in Owned,
         NEW place \in {"refused", "row"}, Asked(r, place, w, c)
  PROVE  \E v \in BudgetRequest :
           /\ request' = [request EXCEPT ![r] = v]
           /\ v.at = place /\ v.op = w.op /\ v.space = c /\ v.add > 0
<1> DEFINE v == [request[r] EXCEPT !.at = place, !.op = w.op, !.space = c, !.add = w.add, !.back = w.back]
<1>1. request[r] \in BudgetRequest
  BY DEF BudgetInv, BudgetTypeOK
<1>2. /\ w.op \in {"create", "write", "upload", "invite", "delete", "end"}
      /\ w.add \in Nat /\ w.add > 0 /\ w.back \in Nat
  BY DEF Work
<1>3. v \in BudgetRequest /\ v.at = place /\ v.op = w.op /\ v.space = c /\ v.add = w.add
  BY <1>1, <1>2 DEF BudgetRequest
<1>4. request' = [request EXCEPT ![r] = v]
  BY DEF Asked
<1> HIDE DEF v
<1> QED BY <1>2, <1>3, <1>4

LEMMA LockRowKeeps ==
  ASSUME BudgetInv, NEW r \in Request, LockRow(r)
  PROVE  BudgetInv'
<1>1. PICK w \in Work, c \in Owned :
        /\ At(r, {"idle"}) /\ w.op # "create"
        /\ spaceState[c] # "none" /\ rowLock[c] = Nobody
        /\ rowLock' = [rowLock EXCEPT ![c] = r]
        /\ Asked(r, IF spaceState[c] = "deleted" THEN "refused" ELSE "row", w, c)
        /\ UNCHANGED <<bytesUsed, spaceState, budgetLock, counterLock>>
  BY DEF LockRow
<1>2. PICK v \in BudgetRequest :
        /\ request' = [request EXCEPT ![r] = v]
        /\ v.at \in {"refused", "row"} /\ v.op = w.op /\ v.space = c /\ v.add > 0
  BY <1>1, AskedTransaction
<1>3. rowLock' \in [Owned -> Request \cup {Nobody}]
  BY <1>1 DEF BudgetInv, BudgetTypeOK
<1>4. {budgetLock', counterLock'} \subseteq Request \cup {Nobody}
  BY <1>1 DEF BudgetInv, BudgetTypeOK
<1>5. Fair(r, v, budgetLock', StorageUsed', Cardinality(LiveSpaces'))
  BY <1>1, <1>2 DEF Fair, Charging
<1> QED BY <1>1, <1>2, <1>3, <1>4, <1>5, SameUsed, OneMoves

LEMMA StartSpaceKeeps ==
  ASSUME BudgetInv, NEW r \in Request, StartSpace(r)
  PROVE  BudgetInv'
<1>1. PICK w \in Work, c \in Owned :
        /\ At(r, {"idle"}) /\ w.op = "create"
        /\ spaceState[c] = "none"
        /\ budgetLock = Nobody
        /\ budgetLock' = r
        /\ rowLock' = [rowLock EXCEPT ![c] = r]
        /\ Asked(r, IF Cardinality(LiveSpaces) >= SpaceLimit THEN "refused" ELSE "row", w, c)
        /\ UNCHANGED <<bytesUsed, spaceState, counterLock>>
  BY DEF StartSpace
<1>2. PICK v \in BudgetRequest :
        /\ request' = [request EXCEPT ![r] = v]
        /\ v.at = IF Cardinality(LiveSpaces) >= SpaceLimit THEN "refused" ELSE "row"
        /\ v.op = w.op /\ v.space = c /\ v.add > 0
  BY <1>1, AskedTransaction
<1>3. rowLock' \in [Owned -> Request \cup {Nobody}]
  BY <1>1 DEF BudgetInv, BudgetTypeOK
<1>4. {budgetLock', counterLock'} \subseteq Request \cup {Nobody}
  BY <1>1 DEF BudgetInv, BudgetTypeOK
<1>5. LiveSpaces' = LiveSpaces /\ Cardinality(LiveSpaces) \in Nat /\ SpaceLimit \in Nat
  BY <1>1, SameUsed, LiveCount, BudgetAssumption
<1>6. Fair(r, v, budgetLock', StorageUsed', Cardinality(LiveSpaces'))
  BY <1>1, <1>2, <1>5 DEF Fair, Charging
<1>7. \A q \in Request : q # r /\ budgetLock = q => budgetLock' = q
  BY <1>1, BudgetAssumption
<1> QED BY <1>1, <1>2, <1>3, <1>4, <1>6, <1>7, SameUsed, OneMoves

LEMMA StartRemovalKeeps ==
  ASSUME BudgetInv, NEW r \in Request, StartRemoval(r)
  PROVE  BudgetInv'
<1>1. PICK cs \in SUBSET {c \in Owned : spaceState[c] # "none"} :
        /\ At(r, {"idle"}) /\ cs # {}
        /\ request' = [request EXCEPT ![r] = [@ EXCEPT !.at = "removing", !.rest = cs]]
        /\ UNCHANGED <<bytesUsed, spaceState, rowLock, budgetLock, counterLock>>
  BY DEF StartRemoval
<1> DEFINE v == [request[r] EXCEPT !.at = "removing", !.rest = cs]
<1>2. request[r] \in BudgetRequest
  BY DEF BudgetInv, BudgetTypeOK
<1>3. v \in BudgetRequest /\ v.at = "removing"
  BY <1>2 DEF BudgetRequest
<1>4. request' = [request EXCEPT ![r] = v]
  BY <1>1
<1> HIDE DEF v
<1>5. Fair(r, v, budgetLock', StorageUsed', Cardinality(LiveSpaces'))
  BY <1>3 DEF Fair, Charging
<1>6. rowLock' \in [Owned -> Request \cup {Nobody}] /\ {budgetLock', counterLock'} \subseteq Request \cup {Nobody}
  BY <1>1 DEF BudgetInv, BudgetTypeOK
<1> QED BY <1>1, <1>3, <1>4, <1>5, <1>6, SameUsed, OneMoves

-----------------------------------------------------------------------------
(* Requests go on.                                                           *)
LEMMA LockBudgetKeeps ==
  ASSUME BudgetInv, NEW r \in Request, LockBudget(r)
  PROVE  BudgetInv'
<1> DEFINE left == Minus(StorageLimit, StorageUsed)
           v == [request[r] EXCEPT !.at = "budget", !.left = left]
<1>1. request[r] \in BudgetRequest /\ request[r].at = "row"
  BY DEF LockBudget, At, BudgetInv, BudgetTypeOK
<1>2. StorageUsed \in Nat /\ StorageLimit \in Nat
  BY UsedAdds, BudgetAssumption DEF BudgetInv
<1>3. left \in Nat /\ (left > 0 => StorageUsed + left <= StorageLimit)
  BY <1>2 DEF Minus
<1>4. request' = [request EXCEPT ![r] = v]
  BY DEF LockBudget, Look
<1> HIDE DEF left
<1>5. /\ v \in BudgetRequest /\ v.at = "budget" /\ v.left = left
      /\ v.op = request[r].op /\ v.space = request[r].space /\ v.add = request[r].add
  BY <1>1, <1>3 DEF BudgetRequest, Charging
<1> HIDE DEF v
<1>6. UNCHANGED <<bytesUsed, spaceState, rowLock, counterLock>> /\ budgetLock' = r /\ budgetLock \in {Nobody, r}
  BY DEF LockBudget
<1>7. StorageUsed' = StorageUsed /\ LiveSpaces' = LiveSpaces
  BY <1>6, SameUsed
<1>8. request[r].space \in Owned /\ request[r].add > 0
      /\ (request[r].op = "create" => Cardinality(LiveSpaces) < SpaceLimit)
  BY <1>1 DEF BudgetInv, BudgetIsHeld, SeenIsLeft, At
<1>9. Fair(r, v, budgetLock', StorageUsed', Cardinality(LiveSpaces'))
  BY <1>3, <1>5, <1>6, <1>7, <1>8 DEF Fair, Charging
<1>10. rowLock' \in [Owned -> Request \cup {Nobody}] /\ {budgetLock', counterLock'} \subseteq Request \cup {Nobody}
  BY <1>6 DEF BudgetInv, BudgetTypeOK
<1>11. \A q \in Request : q # r /\ budgetLock = q => budgetLock' = q
  BY <1>6, BudgetAssumption
<1> QED BY <1>4, <1>5, <1>6, <1>9, <1>10, <1>11, SameUsed, OneMoves

(* The request comes to another place, and nothing else of it changes.       *)
LEMMA MovedTransaction ==
  ASSUME BudgetInv, NEW r \in Request, NEW place \in {"refused", "checked", "stored"}, Moved(r, place)
  PROVE  \E v \in BudgetRequest :
           /\ request' = [request EXCEPT ![r] = v]
           /\ v.at = place /\ v.op = request[r].op /\ v.space = request[r].space
           /\ v.add = request[r].add /\ v.left = request[r].left
<1> DEFINE v == [request[r] EXCEPT !.at = place]
<1>1. request[r] \in BudgetRequest
  BY DEF BudgetInv, BudgetTypeOK
<1>2. /\ v \in BudgetRequest /\ v.at = place /\ v.op = request[r].op /\ v.space = request[r].space
      /\ v.add = request[r].add /\ v.left = request[r].left
  BY <1>1 DEF BudgetRequest, Charging
<1>3. request' = [request EXCEPT ![r] = v]
  BY DEF Moved
<1> HIDE DEF v
<1> QED BY <1>2, <1>3

LEMMA CheckKeeps ==
  ASSUME BudgetInv, NEW r \in Request, Check(r)
  PROVE  BudgetInv'
<1>1. /\ At(r, {"budget"}) /\ UNCHANGED <<bytesUsed, spaceState, rowLock, budgetLock, counterLock>>
  BY DEF Check
<1>2. PICK place \in {"refused", "checked", "stored"} : Moved(r, place) /\ (place # "refused" => Fits(r))
  BY DEF Check
<1>3. PICK v \in BudgetRequest :
        /\ request' = [request EXCEPT ![r] = v]
        /\ v.at = place /\ v.op = request[r].op /\ v.space = request[r].space
        /\ v.add = request[r].add /\ v.left = request[r].left
  BY <1>2, MovedTransaction
<1>4. StorageUsed' = StorageUsed /\ LiveSpaces' = LiveSpaces
  BY <1>1, SameUsed
<1>5. Fair(r, v, budgetLock', StorageUsed', Cardinality(LiveSpaces'))
  BY <1>1, <1>2, <1>3, <1>4 DEF Fair, Charging, BudgetInv, BudgetIsHeld, SeenIsLeft, At, Fits
<1>6. rowLock' \in [Owned -> Request \cup {Nobody}] /\ {budgetLock', counterLock'} \subseteq Request \cup {Nobody}
  BY <1>1 DEF BudgetInv, BudgetTypeOK
<1> QED BY <1>1, <1>3, <1>5, <1>6, SameUsed, OneMoves

LEMMA LockCounterKeeps ==
  ASSUME BudgetInv, NEW r \in Request, LockCounter(r)
  PROVE  BudgetInv'
<1>1. /\ At(r, {"checked"}) /\ UNCHANGED <<bytesUsed, spaceState, rowLock, budgetLock>>
      /\ counterLock' = r /\ Moved(r, "stored")
  BY DEF LockCounter
<1>2. PICK v \in BudgetRequest :
        /\ request' = [request EXCEPT ![r] = v]
        /\ v.at = "stored" /\ v.op = request[r].op /\ v.space = request[r].space
        /\ v.add = request[r].add /\ v.left = request[r].left
  BY <1>1, MovedTransaction
<1>3. StorageUsed' = StorageUsed /\ LiveSpaces' = LiveSpaces
  BY <1>1, SameUsed
<1>4. Fair(r, v, budgetLock', StorageUsed', Cardinality(LiveSpaces'))
  BY <1>1, <1>2, <1>3 DEF Fair, Charging, BudgetInv, BudgetIsHeld, SeenIsLeft, At, Fits
<1>5. rowLock' \in [Owned -> Request \cup {Nobody}] /\ {budgetLock', counterLock'} \subseteq Request \cup {Nobody}
  BY <1>1 DEF BudgetInv, BudgetTypeOK
<1> QED BY <1>1, <1>2, <1>4, <1>5, SameUsed, OneMoves

LEMMA RollBackKeeps ==
  ASSUME BudgetInv, NEW r \in Request, RollBack(r)
  PROVE  BudgetInv'
<1>1. Freed(r) /\ UNCHANGED <<bytesUsed, spaceState>>
  BY DEF RollBack
<1> QED BY <1>1, FreedLocks, SameUsed, OneMoves

LEMMA LockNextKeeps ==
  ASSUME BudgetInv, NEW r \in Request, LockNext(r)
  PROVE  BudgetInv'
<1>1. PICK c \in request[r].rest :
        /\ At(r, {"removing"})
        /\ rowLock' = [rowLock EXCEPT ![c] = r]
        /\ request' = [request EXCEPT ![r].rest = @ \ {c}]
        /\ UNCHANGED <<bytesUsed, spaceState, budgetLock, counterLock>>
  BY DEF LockNext
<1> DEFINE v == [request[r] EXCEPT !.rest = @ \ {c}]
<1>2. request[r] \in BudgetRequest /\ request[r].at = "removing"
  BY <1>1 DEF BudgetInv, BudgetTypeOK, At
<1>3. v \in BudgetRequest /\ v.at = "removing"
  BY <1>2 DEF BudgetRequest
<1>4. request' = [request EXCEPT ![r] = v]
  BY <1>1
<1> HIDE DEF v
<1>5. Fair(r, v, budgetLock', StorageUsed', Cardinality(LiveSpaces'))
  BY <1>3 DEF Fair, Charging
<1>6. rowLock' \in [Owned -> Request \cup {Nobody}] /\ {budgetLock', counterLock'} \subseteq Request \cup {Nobody}
  BY <1>1 DEF BudgetInv, BudgetTypeOK
<1> QED BY <1>1, <1>3, <1>4, <1>5, <1>6, SameUsed, OneMoves

-----------------------------------------------------------------------------
(* What spaces come to changes.                                              *)
LEMMA CommitUses ==
  ASSUME BudgetInv, NEW r \in Request, Commit(r)
  PROVE  /\ bytesUsed' \in [Owned -> Nat]
         /\ StorageUsed' <= StorageUsed \/ StorageUsed' <= StorageLimit \/ request[r].op \in {"delete", "end"}
<1> DEFINE c == request[r].space
<1>1. /\ request[r] \in BudgetRequest /\ request[r].at = "stored"
      /\ c \in Owned /\ request[r].add \in Nat /\ request[r].add > 0
      /\ request[r].back \in Nat /\ request[r].left \in Nat
  BY DEF Commit, At, BudgetInv, BudgetTypeOK, BudgetIsHeld, Charging, BudgetRequest
<1>2. bytesUsed \in [Owned -> Nat] /\ IsFiniteSet(Owned)
  BY BudgetAssumption DEF BudgetInv, BudgetTypeOK
<1>3. Charged(r) \in Nat /\ (request[r].op # "end" => Charged(r) <= bytesUsed[c] + request[r].add)
  BY <1>1, <1>2 DEF Charged, Minus
<1>4. bytesUsed' = [bytesUsed EXCEPT ![c] = Charged(r)]
  BY DEF Commit
<1>5. request[r].op \in {"delete", "end"} \/ request[r].add <= request[r].left
  BY <1>1 DEF BudgetInv, SeenIsLeft, At, Fits
<1>6. request[r].left > 0 => StorageUsed + request[r].left <= StorageLimit
  BY <1>1 DEF BudgetInv, SeenIsLeft, At, Charging
<1> HIDE DEF c
<1>7. bytesUsed' \in [Owned -> Nat] /\ bytesUsed'[c] = Charged(r)
      /\ \A d \in Owned : d # c => bytesUsed[d] = bytesUsed'[d]
  BY <1>1, <1>2, <1>3, <1>4
<1>8. /\ Adds(bytesUsed, Owned) \in Nat /\ Adds(bytesUsed', Owned) \in Nat
      /\ bytesUsed[c] <= Adds(bytesUsed, Owned)
      /\ Adds(bytesUsed', Owned) = (Adds(bytesUsed, Owned) - bytesUsed[c]) + bytesUsed'[c]
  BY <1>1, <1>2, <1>7, AddsChange
<1>9. StorageUsed = Adds(bytesUsed, Owned)
  BY UsedAdds DEF BudgetInv
<1>10. StorageUsed' = Adds(bytesUsed', Owned)
  BY DEF StorageUsed, Adds, MapThenSumSet, MapThenFoldSet
<1>11. bytesUsed[c] \in Nat /\ StorageLimit \in Nat
  BY <1>1, <1>2, BudgetAssumption
<1>12. ASSUME request[r].op \notin {"delete", "end"} PROVE StorageUsed' <= StorageLimit
  <2>1. request[r].add <= request[r].left /\ request[r].left > 0
    BY <1>1, <1>5, <1>12
  <2>2. StorageUsed + request[r].left <= StorageLimit
    BY <1>6, <2>1
  <2>3. Charged(r) <= bytesUsed[c] + request[r].add
    BY <1>3, <1>12
  <2> QED BY <1>1, <1>3, <1>7, <1>8, <1>9, <1>10, <1>11, <2>1, <2>2, <2>3
<1> QED BY <1>7, <1>12

LEMMA CommitSpaces ==
  ASSUME BudgetInv, NEW r \in Request, Commit(r)
  PROVE  /\ spaceState' \in [Owned -> {"none", "live", "deleted"}]
         /\ Cardinality(LiveSpaces') <= SpaceLimit
<1> DEFINE c == request[r].space
           state == CASE request[r].op = "create" -> "live"
                      [] request[r].op = "end" -> "deleted"
                      [] OTHER -> spaceState[c]
<1>1. request[r].at = "stored" /\ c \in Owned
  BY DEF Commit, At, BudgetInv, BudgetIsHeld, Charging
<1>2. spaceState \in [Owned -> {"none", "live", "deleted"}]
  BY DEF BudgetInv, BudgetTypeOK
<1>3. spaceState' = [spaceState EXCEPT ![c] = state]
  BY DEF Commit
<1>4. state \in {"none", "live", "deleted"}
      /\ (request[r].op # "create" => state = spaceState[c] \/ state = "deleted")
  BY <1>1, <1>2
<1> HIDE DEF state, c
<1>5. spaceState' \in [Owned -> {"none", "live", "deleted"}] /\ spaceState'[c] = state
      /\ \A d \in Owned : d # c => spaceState'[d] = spaceState[d]
  BY <1>1, <1>2, <1>3, <1>4
<1>6. LiveSpaces' \in SUBSET Owned /\ LiveSpaces' \subseteq LiveSpaces \cup {c}
      /\ (request[r].op # "create" => LiveSpaces' \subseteq LiveSpaces)
  BY <1>1, <1>4, <1>5 DEF LiveSpaces
<1>7. request[r].op = "create" => Cardinality(LiveSpaces) < SpaceLimit
  BY <1>1 DEF BudgetInv, SeenIsLeft, At, Charging
<1>8. Cardinality(LiveSpaces) <= SpaceLimit /\ SpaceLimit \in Nat /\ Cardinality(LiveSpaces) \in Nat
  BY LiveCount, BudgetAssumption DEF BudgetInv
<1>9. /\ Cardinality(LiveSpaces') <= Cardinality(LiveSpaces) + 1 /\ Cardinality(LiveSpaces') \in Nat
      /\ (request[r].op # "create" => Cardinality(LiveSpaces') <= Cardinality(LiveSpaces))
  BY <1>1, <1>6, LiveCount
<1> QED BY <1>5, <1>7, <1>8, <1>9

LEMMA CommitKeeps ==
  ASSUME BudgetInv, NEW r \in Request, Commit(r)
  PROVE  BudgetInv'
<1>1. Freed(r) /\ budgetLock = r
  BY DEF Commit, BudgetInv, BudgetIsHeld, At, Charging
<1> QED BY <1>1, FreedLocks, CommitUses, CommitSpaces, OneMoves

LEMMA RemovedUses ==
  ASSUME BudgetInv, NEW r \in Request, Removed(r)
  PROVE  bytesUsed' \in [Owned -> Nat] /\ StorageUsed' <= StorageUsed
<1>1. bytesUsed' = [c \in Owned |-> IF rowLock[c] = r THEN Minus(bytesUsed[c], 1) ELSE bytesUsed[c]]
  BY DEF Removed
<1>2. bytesUsed \in [Owned -> Nat] /\ IsFiniteSet(Owned)
  BY BudgetAssumption DEF BudgetInv, BudgetTypeOK
<1>3. \A n \in Nat : Minus(n, 1) \in Nat /\ Minus(n, 1) <= n /\ n <= n
  BY DEF Minus
<1>4. bytesUsed' \in [Owned -> Nat] /\ \A c \in Owned : bytesUsed'[c] <= bytesUsed[c]
  BY <1>1, <1>2, <1>3
<1>5. Adds(bytesUsed', Owned) <= Adds(bytesUsed, Owned)
  BY <1>2, <1>4, AddsBelow
<1>6. StorageUsed' = Adds(bytesUsed', Owned)
  BY DEF StorageUsed, Adds, MapThenSumSet, MapThenFoldSet
<1> QED BY <1>4, <1>5, <1>6, UsedAdds DEF BudgetInv

LEMMA RemovedKeeps ==
  ASSUME BudgetInv, NEW r \in Request, Removed(r)
  PROVE  BudgetInv'
<1>1. Freed(r) /\ UNCHANGED spaceState
  BY DEF Removed
<1>2. spaceState' \in [Owned -> {"none", "live", "deleted"}] /\ LiveSpaces' = LiveSpaces
      /\ Cardinality(LiveSpaces) \in Nat /\ Cardinality(LiveSpaces) <= SpaceLimit
  BY <1>1, LiveCount DEF BudgetInv, BudgetTypeOK, LiveSpaces
<1>3. Cardinality(LiveSpaces') <= Cardinality(LiveSpaces) /\ Cardinality(LiveSpaces') <= SpaceLimit
  BY <1>2
<1> QED BY <1>1, <1>2, <1>3, FreedLocks, RemovedUses, OneMoves

LEMMA BudgetInitInv == BudgetInit => BudgetInv
<1> SUFFICES ASSUME BudgetInit PROVE BudgetInv
  OBVIOUS
<1>1. Idle \in BudgetRequest /\ Idle.at = "idle"
  BY DEF Idle, BudgetRequest
<1>2. BudgetTypeOK
  BY <1>1 DEF BudgetInit, BudgetTypeOK
<1>3. \A r \in Request : request[r].at = "idle"
  BY <1>1 DEF BudgetInit
<1>4. BudgetIsHeld /\ SeenIsLeft
  BY <1>3 DEF BudgetIsHeld, SeenIsLeft, At, Charging
<1> QED BY <1>2, <1>4 DEF BudgetInv, BudgetInit

LEMMA BudgetStepInv == BudgetInv /\ [BudgetNext]_budgetVars => BudgetInv'
<1> SUFFICES ASSUME BudgetInv, [BudgetNext]_budgetVars PROVE BudgetInv'
  OBVIOUS
<1>1. ASSUME NEW r \in Request,
             LockRow(r) \/ StartSpace(r) \/ StartRemoval(r) \/ Proceed(r) \/ RollBack(r)
      PROVE  BudgetInv'
  BY <1>1, LockRowKeeps, StartSpaceKeeps, StartRemovalKeeps, RollBackKeeps, LockBudgetKeeps, CheckKeeps,
     LockCounterKeeps, CommitKeeps, LockNextKeeps, RemovedKeeps DEF Proceed
<1>2. CASE UNCHANGED budgetVars
  <2>1. StorageUsed' = StorageUsed
    BY <1>2, SameUsed DEF budgetVars
  <2>2. LiveSpaces' = LiveSpaces
    BY <1>2, SameUsed DEF budgetVars
  <2> QED BY <1>2, <2>1, <2>2 DEF budgetVars, BudgetInv, BudgetTypeOK, BudgetIsHeld, SeenIsLeft, At, Fits
<1> QED BY <1>1, <1>2 DEF BudgetNext

(* PlanKept: the spaces never come to more than the plan allows, but by what *)
(* a deletion leaves, however many requests write, upload, create and remove *)
(* side by side (for_writes, check_new_space).                               *)
THEOREM PlanStaysKept == BudgetSpec => PlanKept
<1> DEFINE InPlan == /\ Cardinality(LiveSpaces') <= SpaceLimit
                   /\ \/ StorageUsed' <= StorageUsed
                      \/ StorageUsed' <= StorageLimit
                      \/ \E r \in Request : request[r].op \in {"delete", "end"} /\ request'[r].at = "done"
<1>1. BudgetInv /\ BudgetInv' /\ [BudgetNext]_budgetVars => [InPlan]_budgetVars
  <2> SUFFICES ASSUME BudgetInv, BudgetInv', BudgetNext PROVE InPlan
    OBVIOUS
  <2>1. Cardinality(LiveSpaces') <= SpaceLimit
    BY DEF BudgetInv
  <2>2. PICK r \in Request : LockRow(r) \/ StartSpace(r) \/ StartRemoval(r) \/ Proceed(r) \/ RollBack(r)
    BY DEF BudgetNext
  <2>3. CASE Commit(r)
    <3>1. request'[r].at = "done"
      <4>1. request' = [request EXCEPT ![r] = [Idle EXCEPT !.at = "done"]]
        BY <2>3 DEF Commit, Freed
      <4>2. request'[r] = [Idle EXCEPT !.at = "done"]
        BY <4>1 DEF BudgetInv, BudgetTypeOK
      <4> QED BY <4>2 DEF Idle
    <3> QED BY <2>1, <2>3, <3>1, CommitUses
  <2>4. CASE Removed(r)
    BY <2>1, <2>4, RemovedUses
  <2>5. CASE UNCHANGED <<bytesUsed, spaceState>>
    BY <2>1, <2>5, SameUsed
  <2> QED BY <2>2, <2>3, <2>4, <2>5 DEF Proceed, LockRow, StartSpace, StartRemoval, RollBack, LockBudget, Check, LockCounter, LockNext
<1>2. BudgetSpec => []BudgetInv
  BY BudgetInitInv, BudgetStepInv, PTL DEF BudgetSpec
<1> QED BY <1>1, <1>2, PTL DEF BudgetSpec, PlanKept
-----------------------------------------------------------------------------
(***************************************************************************)
(* Gates: that a gate counts exactly what the permits that are out hold,   *)
(* and never more than its caps, for any number of connections.            *)
(***************************************************************************)
Waiting == {"closed", "waiting", "closing"}
Answering == {"built", "sending"}
Stream ==
  [at : Waiting \cup Answering \cup {"reading", "handling", "refused"},
   from : Address \cup {Shared}, caller : Address \cup {Shared},
   unsent : Nat, quiet : Nat, patience : Nat]
Count == [total : Nat, by : [Address -> Nat]]

GatesTypeOK ==
  /\ open \in [Gate -> Count]
  /\ link \in [Connection -> Stream]
  /\ places \in [Connection -> [Gate -> Nat]]
  /\ stopping \in BOOLEAN

(* What the connections hold at a gate, and what they hold of one caller.    *)
HeldAt(g) == [c \in Connection |-> places[c][g]]
HeldFor(g, a) == [c \in Connection |-> IF CallerAt(g, link[c]) = a THEN places[c][g] ELSE 0]

CountsAgree ==
  \A g \in Gate :
    /\ open[g].total = Adds(HeldAt(g), Connection)
    /\ \A a \in Address : open[g].by[a] = Adds(HeldFor(g, a), Connection)

CapsKept ==
  \A g \in Gate :
    /\ Within(Total[g], open[g].total)
    /\ \A a \in Address : Within(PerCaller[g], open[g].by[a])

(* A connection holds room only while a request is on it.                    *)
Sparing(l, p) ==
  /\ l.at \in Waiting => p["bodies"] = 0 /\ p["responses"] = 0
  /\ l.at = "closed" => p["connections"] = 0
  /\ l.at \notin Answering => l.unsent = 0
  /\ l.unsent <= p["responses"]

GatesInv ==
  GatesTypeOK /\ CountsAgree /\ CapsKept /\ \A c \in Connection : Sparing(link[c], places[c])

LEMMA HeldTypes ==
  ASSUME GatesTypeOK, NEW g \in Gate
  PROVE  /\ HeldAt(g) \in [Connection -> Nat]
         /\ \A a \in Address : HeldFor(g, a) \in [Connection -> Nat]
BY DEF GatesTypeOK, HeldAt, HeldFor

LEMMA PlacesAdd ==
  ASSUME GatesTypeOK, NEW g \in Gate, NEW S \in SUBSET Connection
  PROVE  MapThenSumSet(LAMBDA c : places[c][g], S) = Adds(HeldAt(g), S)
<1> DEFINE Runs(j) == j = [s \in SUBSET S |-> IF s = {} THEN 0 ELSE places[Pick(s)][g] + j[s \ {Pick(s)}]]
<1>1. HeldAt(g) \in [Connection -> Nat] /\ IsFiniteSet(Connection)
  BY HeldTypes, GatesAssumption
<1>2. PICK it : IsSum(it, HeldAt(g), Connection)
  BY <1>1, SumExists
<1>3. Adds(HeldAt(g), S) = it[S]
  BY <1>1, <1>2, AddsIs
<1>4. \A s \in SUBSET S : s # {} => Pick(s) \in s /\ s \ {Pick(s)} \in SUBSET S /\ s \in SUBSET Connection
  BY PickIn
<1>5. it[{}] = 0 /\ \A s \in SUBSET S : s # {} => it[s] = places[Pick(s)][g] + it[s \ {Pick(s)}]
  BY <1>2, <1>4 DEF IsSum, HeldAt
<1>6. \E j : Runs(j)
  <2> DEFINE j == [s \in SUBSET S |-> it[s]]
  <2>1. Runs(j)
    BY <1>4, <1>5
  <2> QED BY <2>1
<1>7. PICK j : Runs(j) /\ MapThenSumSet(LAMBDA c : places[c][g], S) = j[S]
  BY <1>6 DEF MapThenSumSet, MapThenFoldSet, Pick
<1> DEFINE Q == {s \in SUBSET S : j[s] = it[s]}
<1>8. {} \in Q
  BY <1>5, <1>7
<1>9. \A s \in SUBSET S : s # {} /\ s \ {Pick(s)} \in Q => s \in Q
  BY <1>4, <1>5, <1>7
<1>10. Q = SUBSET S
  <2>1. Q \in SUBSET (SUBSET S) /\ IsFiniteSet(S)
    BY <1>1, FS_Subset
  <2> HIDE DEF Q
  <2> QED BY <2>1, <1>8, <1>9, FoldInduction
<1> QED BY <1>3, <1>7, <1>10

(* A step of connection c, which is l and holds p after it: the gates count  *)
(* what it came to hold.                                                     *)
Recounts(c, l, p) ==
  /\ link' = [link EXCEPT ![c] = l] /\ places' = [places EXCEPT ![c] = p]
  /\ open' = [g \in Gate |-> open'[g]]
  /\ \A g \in Gate :
       /\ open'[g] = [total |-> open'[g].total, by |-> open'[g].by]
       /\ open'[g].total = (open[g].total - places[c][g]) + p[g]
       /\ open'[g].by = [a \in Address |-> open'[g].by[a]]
       /\ \A a \in Address :
            open'[g].by[a] = (open[g].by[a] - (IF CallerAt(g, link[c]) = a THEN places[c][g] ELSE 0))
                             + (IF CallerAt(g, l) = a THEN p[g] ELSE 0)

LEMMA RecountsAgree ==
  ASSUME GatesInv, NEW c \in Connection, NEW l \in Stream, NEW p \in [Gate -> Nat], Recounts(c, l, p),
         stopping' \in BOOLEAN
  PROVE  GatesTypeOK' /\ CountsAgree'
<1>1. /\ link \in [Connection -> Stream] /\ places \in [Connection -> [Gate -> Nat]]
      /\ open \in [Gate -> Count] /\ IsFiniteSet(Connection)
  BY GatesAssumption DEF GatesInv, GatesTypeOK
<1>2. /\ link' \in [Connection -> Stream] /\ places' \in [Connection -> [Gate -> Nat]]
      /\ link'[c] = l /\ places'[c] = p
      /\ \A d \in Connection : d # c => link'[d] = link[d] /\ places'[d] = places[d]
  BY <1>1 DEF Recounts
<1>3. ASSUME NEW g \in Gate
      PROVE  open'[g].total \in Nat /\ open'[g].total = Adds(HeldAt(g)', Connection)
  <2>1. HeldAt(g) \in [Connection -> Nat] /\ HeldAt(g)' \in [Connection -> Nat]
    BY <1>1, <1>2 DEF HeldAt
  <2>2. HeldAt(g)[c] = places[c][g] /\ HeldAt(g)'[c] = p[g]
        /\ \A d \in Connection : d # c => HeldAt(g)[d] = HeldAt(g)'[d]
    BY <1>2 DEF HeldAt
  <2>3. /\ Adds(HeldAt(g)', Connection) \in Nat
        /\ Adds(HeldAt(g)', Connection) = (Adds(HeldAt(g), Connection) - HeldAt(g)[c]) + HeldAt(g)'[c]
    BY <1>1, <2>1, <2>2, AddsChange
  <2>4. open[g].total = Adds(HeldAt(g), Connection)
    BY DEF GatesInv, CountsAgree
  <2>5. open'[g].total = (open[g].total - places[c][g]) + p[g]
    BY DEF Recounts
  <2> QED BY <2>2, <2>3, <2>4, <2>5
<1>4. ASSUME NEW g \in Gate, NEW a \in Address
      PROVE  open'[g].by[a] \in Nat /\ open'[g].by[a] = Adds(HeldFor(g, a)', Connection)
  <2>1. HeldFor(g, a) \in [Connection -> Nat] /\ HeldFor(g, a)' \in [Connection -> Nat]
    BY <1>1, <1>2 DEF HeldFor
  <2>2. /\ HeldFor(g, a)[c] = IF CallerAt(g, link[c]) = a THEN places[c][g] ELSE 0
        /\ HeldFor(g, a)'[c] = IF CallerAt(g, l) = a THEN p[g] ELSE 0
        /\ \A d \in Connection : d # c => HeldFor(g, a)[d] = HeldFor(g, a)'[d]
    BY <1>2 DEF HeldFor
  <2>3. /\ Adds(HeldFor(g, a)', Connection) \in Nat
        /\ Adds(HeldFor(g, a)', Connection)
             = (Adds(HeldFor(g, a), Connection) - HeldFor(g, a)[c]) + HeldFor(g, a)'[c]
    BY <1>1, <2>1, <2>2, AddsChange
  <2>4. open[g].by[a] = Adds(HeldFor(g, a), Connection)
    BY DEF GatesInv, CountsAgree
  <2>5. open'[g].by[a] = (open[g].by[a] - (IF CallerAt(g, link[c]) = a THEN places[c][g] ELSE 0))
                         + (IF CallerAt(g, l) = a THEN p[g] ELSE 0)
    BY DEF Recounts
  <2> QED BY <2>2, <2>3, <2>4, <2>5
<1>5. \A g \in Gate : open'[g] \in Count
  <2> SUFFICES ASSUME NEW g \in Gate PROVE open'[g] \in Count
    OBVIOUS
  <2>1. open'[g].total \in Nat
    BY <1>3
  <2>2. open'[g].by = [a \in Address |-> open'[g].by[a]]
    BY DEF Recounts
  <2>3. open'[g].by \in [Address -> Nat]
    BY <1>4, <2>2
  <2>4. open'[g] = [total |-> open'[g].total, by |-> open'[g].by]
    BY DEF Recounts
  <2> QED BY <2>1, <2>3, <2>4 DEF Count
<1>6. open' = [g \in Gate |-> open'[g]]
  BY DEF Recounts
<1> QED BY <1>2, <1>3, <1>4, <1>5, <1>6 DEF GatesTypeOK, CountsAgree

LEMMA OneConnection ==
  ASSUME GatesInv, NEW c \in Connection, NEW l \in Stream, NEW p \in [Gate -> Nat], Recounts(c, l, p),
         stopping' \in BOOLEAN, Sparing(l, p),
         \A g \in Gate :
           /\ Within(Total[g], open'[g].total) \/ open'[g].total <= open[g].total
           /\ \A a \in Address : Within(PerCaller[g], open'[g].by[a]) \/ open'[g].by[a] <= open[g].by[a]
  PROVE  GatesInv'
<1>1. GatesTypeOK' /\ CountsAgree'
  BY RecountsAgree
<1>2. open \in [Gate -> Count] /\ open' \in [Gate -> Count]
  BY <1>1 DEF GatesInv, GatesTypeOK
<1>3. \A g \in Gate : /\ Total[g] \in Nat /\ PerCaller[g] \in Nat
                      /\ open[g].total \in Nat /\ open'[g].total \in Nat
                      /\ \A a \in Address : open[g].by[a] \in Nat /\ open'[g].by[a] \in Nat
  BY <1>2, GatesAssumption DEF Count
<1>4. CapsKept'
  <2> SUFFICES ASSUME NEW g \in Gate
               PROVE  /\ Within(Total[g], open'[g].total)
                      /\ \A a \in Address : Within(PerCaller[g], open'[g].by[a])
    BY DEF CapsKept
  <2>1. Within(Total[g], open[g].total) /\ \A a \in Address : Within(PerCaller[g], open[g].by[a])
    BY DEF GatesInv, CapsKept
  <2> QED BY <2>1, <1>3 DEF Within
<1>5. ASSUME NEW d \in Connection PROVE Sparing(link'[d], places'[d])
  <2>1. CASE d = c
    <3>1. link'[d] = l /\ places'[d] = p
      BY <2>1 DEF Recounts, GatesInv, GatesTypeOK
    <3> QED BY <3>1
  <2>2. CASE d # c
    <3>1. link'[d] = link[d] /\ places'[d] = places[d]
      BY <2>2 DEF Recounts, GatesInv, GatesTypeOK
    <3> QED BY <3>1 DEF GatesInv
  <2> QED BY <2>1, <2>2
<1> QED BY <1>1, <1>4, <1>5 DEF GatesInv

(* The types of what a connection is and holds.                              *)
LEMMA OneStream ==
  ASSUME GatesInv, NEW c \in Connection
  PROVE  /\ link[c] \in Stream /\ places[c] \in [Gate -> Nat] /\ Sparing(link[c], places[c])
         /\ stopping \in BOOLEAN
         /\ open = [g \in Gate |-> open[g]]
         /\ \A g \in Gate :
              /\ open[g] = [total |-> open[g].total, by |-> open[g].by]
              /\ open[g].by = [a \in Address |-> open[g].by[a]]
              /\ open[g].total \in Nat /\ \A a \in Address : open[g].by[a] \in Nat
BY DEF GatesInv, GatesTypeOK, Count

(* Nothing is taken or given back.                                           *)
LEMMA LinkOnly ==
  ASSUME GatesInv, NEW c \in Connection, NEW l \in Stream,
         link' = [link EXCEPT ![c] = l], UNCHANGED <<open, places, stopping>>,
         \A g \in Gate : CallerAt(g, l) = CallerAt(g, link[c]) \/ places[c][g] = 0,
         Sparing(l, places[c])
  PROVE  GatesInv'
<1>1. places[c] \in [Gate -> Nat] /\ stopping' \in BOOLEAN
  BY OneStream
<1>2. places' = [places EXCEPT ![c] = places[c]]
  BY DEF GatesInv, GatesTypeOK
<1>3. Recounts(c, l, places[c])
  <2>1. ASSUME NEW g \in Gate
        PROVE  /\ open'[g] = [total |-> open'[g].total, by |-> open'[g].by]
               /\ open'[g].total = (open[g].total - places[c][g]) + places[c][g]
               /\ open'[g].by = [a \in Address |-> open'[g].by[a]]
    BY <1>1, OneStream
  <2>2. ASSUME NEW g \in Gate, NEW a \in Address
        PROVE  open'[g].by[a] = (open[g].by[a] - (IF CallerAt(g, link[c]) = a THEN places[c][g] ELSE 0))
                                + (IF CallerAt(g, l) = a THEN places[c][g] ELSE 0)
    <3>1. open[g].by[a] \in Nat /\ places[c][g] \in Nat
      BY OneStream
    <3> QED BY <3>1
  <2>3. open' = [g \in Gate |-> open'[g]]
    BY OneStream
  <2> QED BY <1>2, <2>1, <2>2, <2>3 DEF Recounts
<1>4. \A g \in Gate : /\ open'[g].total <= open[g].total
                      /\ \A a \in Address : open'[g].by[a] <= open[g].by[a]
  <2>1. \A n \in Nat : n <= n
    OBVIOUS
  <2>2. open' = open
    OBVIOUS
  <2>3. \A g \in Gate : open[g].total \in Nat /\ \A a \in Address : open[g].by[a] \in Nat
    BY OneStream
  <2> QED BY <2>1, <2>2, <2>3
<1> QED BY <1>1, <1>3, <1>4, OneConnection

(* What c holds falls by what is given back to p, under the same caller or   *)
(* with nothing left.                                                        *)
Returns(c, l, given, p) ==
  /\ given \in [Gate -> Nat] /\ p \in [Gate -> Nat]
  /\ \A g \in Gate : /\ given[g] <= places[c][g] /\ p[g] = places[c][g] - given[g]
                     /\ CallerAt(g, l) = CallerAt(g, link[c]) \/ given[g] = places[c][g]

LEMMA BackKeeps ==
  ASSUME GatesInv, NEW c \in Connection, NEW l \in Stream, NEW given, NEW p,
         Returns(c, l, given, p), Sparing(l, p),
         link' = [link EXCEPT ![c] = l], Back(c, given), UNCHANGED stopping
  PROVE  GatesInv'
<1>1. places[c] \in [Gate -> Nat] /\ stopping' \in BOOLEAN
  BY OneStream
<1>2. /\ given \in [Gate -> Nat] /\ p \in [Gate -> Nat]
      /\ p = [g \in Gate |-> places[c][g] - given[g]]
      /\ \A g \in Gate : /\ given[g] <= places[c][g] /\ p[g] = places[c][g] - given[g]
                         /\ CallerAt(g, l) = CallerAt(g, link[c]) \/ given[g] = places[c][g]
  BY DEF Returns
<1>3. places' = [places EXCEPT ![c] = p]
  BY <1>2 DEF Back
<1>5. open' = [g \in Gate |->
         [total |-> open[g].total - given[g],
          by |-> [a \in Address |->
            open[g].by[a] - (IF a = CallerAt(g, link[c]) THEN given[g] ELSE 0)]]]
  BY DEF Back
<1>6. ASSUME NEW g \in Gate
      PROVE  /\ open'[g] = [total |-> open'[g].total, by |-> open'[g].by]
             /\ open'[g].total = open[g].total - given[g]
             /\ open'[g].by = [a \in Address |-> open'[g].by[a]]
             /\ \A a \in Address :
                  open'[g].by[a] = open[g].by[a] - (IF a = CallerAt(g, link[c]) THEN given[g] ELSE 0)
  BY <1>5
<1>7. open' = [g \in Gate |-> open'[g]]
  BY <1>5
<1> HIDE DEF Back
<1>8. ASSUME NEW g \in Gate PROVE open'[g].total = (open[g].total - places[c][g]) + p[g]
  <2>1. PICK t \in Nat, k \in Nat, n \in Nat : t = open[g].total /\ k = places[c][g] /\ n = given[g]
    BY <1>1, <1>2, OneStream
  <2>2. open'[g].total = t - n /\ p[g] = k - n
    BY <1>2, <1>6, <2>1
  <2>3. t - n = (t - k) + (k - n)
    OBVIOUS
  <2> QED BY <2>1, <2>2, <2>3
<1>9. ASSUME NEW g \in Gate, NEW a \in Address
      PROVE  open'[g].by[a] = (open[g].by[a] - (IF CallerAt(g, link[c]) = a THEN places[c][g] ELSE 0))
                              + (IF CallerAt(g, l) = a THEN p[g] ELSE 0)
  <2>1. PICK t \in Nat, k \in Nat, n \in Nat : t = open[g].by[a] /\ k = places[c][g] /\ n = given[g]
    BY <1>1, <1>2, OneStream
  <2>2. open'[g].by[a] = t - (IF a = CallerAt(g, link[c]) THEN n ELSE 0) /\ p[g] = k - n
    BY <1>2, <1>6, <2>1
  <2>3. CallerAt(g, l) = CallerAt(g, link[c]) \/ n = k
    BY <1>2, <2>1
  <2>4. CASE CallerAt(g, l) = CallerAt(g, link[c])
    <3>1. CASE CallerAt(g, link[c]) = a
      BY <2>1, <2>2, <2>4, <3>1
    <3>2. CASE CallerAt(g, link[c]) # a
      BY <2>1, <2>2, <2>4, <3>2
    <3> QED BY <3>1, <3>2
  <2>5. CASE n = k
    BY <2>1, <2>2, <2>5
  <2> QED BY <2>3, <2>4, <2>5
<1>10. Recounts(c, l, p)
  BY <1>3, <1>6, <1>7, <1>8, <1>9 DEF Recounts
<1>11. ASSUME NEW g \in Gate PROVE open'[g].total <= open[g].total
  <2>1. PICK t \in Nat, n \in Nat : t = open[g].total /\ n = given[g]
    BY <1>2, OneStream
  <2>2. open'[g].total = t - n
    BY <1>6, <2>1
  <2>3. t - n <= t
    OBVIOUS
  <2> QED BY <2>1, <2>2, <2>3
<1>12. ASSUME NEW g \in Gate, NEW a \in Address PROVE open'[g].by[a] <= open[g].by[a]
  <2>1. PICK t \in Nat, n \in Nat : t = open[g].by[a] /\ n = given[g]
    BY <1>2, OneStream
  <2>2. open'[g].by[a] = t - (IF a = CallerAt(g, link[c]) THEN n ELSE 0)
    BY <1>6, <2>1
  <2>3. t - n <= t /\ t - 0 <= t
    OBVIOUS
  <2> QED BY <2>1, <2>2, <2>3
<1> QED BY <1>1, <1>2, <1>10, <1>11, <1>12, OneConnection

(* Places are taken: all that were asked for.                                *)
LEMMA TakenKeeps ==
  ASSUME GatesInv, NEW c \in Connection, NEW l \in Stream, NEW g \in Gate, NEW n \in Nat,
         NEW caller, caller = CallerAt(g, l), HasRoom(g, caller, n), open' = Taken(g, caller, n),
         link' = [link EXCEPT ![c] = l],
         places' = [places EXCEPT ![c] = [places[c] EXCEPT ![g] = @ + n]], UNCHANGED stopping,
         \A h \in Gate : CallerAt(h, l) = CallerAt(h, link[c]) \/ places[c][h] = 0,
         Sparing(l, [places[c] EXCEPT ![g] = @ + n])
  PROVE  GatesInv'
<1> DEFINE p == [places[c] EXCEPT ![g] = @ + n]
<1>1. places[c] \in [Gate -> Nat] /\ stopping' \in BOOLEAN
  BY OneStream
<1>2. p \in [Gate -> Nat] /\ p[g] = places[c][g] + n /\ \A h \in Gate : h # g => p[h] = places[c][h]
  BY <1>1
<1>3. places' = [places EXCEPT ![c] = p] /\ Sparing(l, p)
  OBVIOUS
<1> HIDE DEF p
<1>4. open \in [Gate -> Count]
  BY DEF GatesInv, GatesTypeOK
<1>5. open' = [open EXCEPT ![g] =
         [total |-> @.total + n, by |-> [a \in Address |-> @.by[a] + (IF a = caller THEN n ELSE 0)]]]
  BY DEF Taken
<1>6. /\ open'[g] = [total |-> open'[g].total, by |-> open'[g].by]
      /\ open'[g].total = open[g].total + n
      /\ open'[g].by = [a \in Address |-> open'[g].by[a]]
      /\ \A a \in Address : open'[g].by[a] = open[g].by[a] + (IF a = caller THEN n ELSE 0)
      /\ \A h \in Gate : h # g => open'[h] = open[h]
      /\ open' = [h \in Gate |-> open'[h]]
  <2> DEFINE o == [total |-> open[g].total + n,
                   by |-> [a \in Address |-> open[g].by[a] + (IF a = caller THEN n ELSE 0)]]
  <2>1. open' = [open EXCEPT ![g] = o]
    BY <1>5
  <2>2. /\ o = [total |-> o.total, by |-> o.by] /\ o.total = open[g].total + n
        /\ o.by = [a \in Address |-> o.by[a]]
        /\ \A a \in Address : o.by[a] = open[g].by[a] + (IF a = caller THEN n ELSE 0)
    OBVIOUS
  <2> HIDE DEF o
  <2>3. open'[g] = o /\ (\A h \in Gate : h # g => open'[h] = open[h]) /\ open' = [h \in Gate |-> open'[h]]
    BY <1>4, <2>1
  <2> QED BY <2>2, <2>3
<1>7. ASSUME NEW h \in Gate
      PROVE  /\ open'[h] = [total |-> open'[h].total, by |-> open'[h].by]
             /\ open'[h].total = (open[h].total - places[c][h]) + p[h]
             /\ open'[h].by = [a \in Address |-> open'[h].by[a]]
  <2>1. open[h].total \in Nat /\ places[c][h] \in Nat
        /\ open[h] = [total |-> open[h].total, by |-> open[h].by]
        /\ open[h].by = [a \in Address |-> open[h].by[a]]
    BY <1>1, OneStream
  <2> QED BY <1>2, <1>6, <2>1
<1>8. ASSUME NEW h \in Gate, NEW a \in Address
      PROVE  open'[h].by[a] = (open[h].by[a] - (IF CallerAt(h, link[c]) = a THEN places[c][h] ELSE 0))
                              + (IF CallerAt(h, l) = a THEN p[h] ELSE 0)
  <2>1. open[h].by[a] \in Nat /\ places[c][h] \in Nat
    BY <1>1, OneStream
  <2>2. CASE h = g
    BY <1>2, <1>6, <2>1, <2>2
  <2>3. CASE h # g
    BY <1>2, <1>6, <2>1, <2>3
  <2> QED BY <2>2, <2>3
<1>9. Recounts(c, l, p)
  BY <1>3, <1>6, <1>7, <1>8 DEF Recounts
<1>10. ASSUME NEW h \in Gate
       PROVE  Within(Total[h], open'[h].total) \/ open'[h].total <= open[h].total
  <2>1. PICK t \in Nat : t = open[h].total
    BY OneStream
  <2>2. CASE h = g
    BY <1>6, <2>2 DEF HasRoom
  <2>3. CASE h # g
    <3>1. open'[h] = open[h] /\ t <= t
      BY <1>6, <2>3
    <3> QED BY <2>1, <3>1
  <2> QED BY <2>2, <2>3
<1>11. ASSUME NEW h \in Gate, NEW a \in Address
       PROVE  Within(PerCaller[h], open'[h].by[a]) \/ open'[h].by[a] <= open[h].by[a]
  <2>1. open[h].by[a] \in Nat
    BY OneStream
  <2>2. CASE h = g /\ a = caller
    BY <1>6, <2>2, GatesAssumption DEF HasRoom
  <2>3. CASE h = g /\ a # caller
    BY <1>6, <2>1, <2>3
  <2>4. CASE h # g
    BY <1>6, <2>1, <2>4
  <2> QED BY <2>2, <2>3, <2>4
<1> QED BY <1>1, <1>2, <1>3, <1>9, <1>10, <1>11, OneConnection

-----------------------------------------------------------------------------
(* What the operations do with a connection.                                 *)
LEMMA NoneHeld ==
  /\ NoPlaces \in [Gate -> Nat] /\ \A g \in Gate : NoPlaces[g] = 0
  /\ Closed \in Stream /\ Closed.at = "closed" /\ Closed.unsent = 0
  /\ {"connections", "bodies", "responses"} = Gate
  /\ Grace \in Nat /\ Largest \in Nat
BY GatesAssumption DEF NoPlaces, Closed, Stream, Waiting, Gate

LEMMA AcceptKeeps ==
  ASSUME GatesInv, NEW c \in Connection, Accept(c)
  PROVE  GatesInv'
<1>1. PICK a \in Address \cup {Shared} :
        /\ Doing(c, "closed") /\ HasRoom("connections", a, 1)
        /\ open' = Taken("connections", a, 1)
        /\ places' = [places EXCEPT ![c] = [NoPlaces EXCEPT !["connections"] = 1]]
        /\ link' = [link EXCEPT ![c] =
             [at |-> "waiting", from |-> a, caller |-> a, unsent |-> 0,
              quiet |-> Grace, patience |-> Grace]]
        /\ UNCHANGED stopping
  BY DEF Accept
<1> DEFINE l == [at |-> "waiting", from |-> a, caller |-> a, unsent |-> 0, quiet |-> Grace, patience |-> Grace]
           g == "connections"
<1>2. l \in Stream /\ l.at = "waiting" /\ l.from = a /\ l.unsent = 0
  BY GatesAssumption DEF Stream, Waiting
<1>3. \A h \in Gate : places[c][h] = 0
  BY <1>1, OneStream DEF Doing, Sparing, Waiting, Gate
<1>4. g \in Gate /\ a = CallerAt(g, l)
  BY <1>2 DEF Gate, CallerAt
<1>5. places[c] = NoPlaces
  BY <1>3, OneStream DEF NoPlaces
<1>6. [places[c] EXCEPT ![g] = @ + 1] = [NoPlaces EXCEPT ![g] = 1]
  <2>1. NoPlaces[g] = 0 /\ 0 + 1 = 1
    BY <1>4, NoneHeld
  <2>2. [NoPlaces EXCEPT ![g] = @ + 1] = [NoPlaces EXCEPT ![g] = 0 + 1]
    BY <2>1
  <2> QED BY <1>5, <2>1, <2>2
<1>7. link' = [link EXCEPT ![c] = l] /\ 1 \in Nat
  BY <1>1
<1>8. Sparing(l, [places[c] EXCEPT ![g] = @ + 1])
  <2> DEFINE p == [NoPlaces EXCEPT ![g] = 1]
  <2>1. p["bodies"] = 0 /\ p["responses"] = 0
    BY NoneHeld DEF Gate
  <2>2. [places[c] EXCEPT ![g] = @ + 1] = p
    BY <1>6
  <2> HIDE DEF l, p
  <2>3. Sparing(l, p)
    BY <1>2, <2>1 DEF Sparing, Waiting, Answering
  <2> QED BY <2>2, <2>3
<1> HIDE DEF l
<1>9. /\ places' = [places EXCEPT ![c] = [places[c] EXCEPT ![g] = @ + 1]]
      /\ HasRoom(g, a, 1) /\ open' = Taken(g, a, 1) /\ UNCHANGED stopping
  BY <1>1, <1>6
<1>10. \A h \in Gate : CallerAt(h, l) = CallerAt(h, link[c]) \/ places[c][h] = 0
  BY <1>3
<1> HIDE DEF g
<1> QED BY <1>2, <1>4, <1>7, <1>8, <1>9, <1>10, TakenKeeps

(* A connection that goes on, with what it holds.                            *)
LEMMA GoesOn ==
  ASSUME GatesInv, NEW c \in Connection, NEW l \in Stream,
         link' = [link EXCEPT ![c] = l], UNCHANGED <<open, places, stopping>>,
         l.from = link[c].from, l.caller = link[c].caller \/ link[c].at \in Waiting,
         l.at \in Waiting => link[c].at \in Waiting,
         l.at # "closed" \/ link[c].at = "closed",
         l.unsent <= link[c].unsent, l.at \in Answering \/ l.unsent = 0
  PROVE  GatesInv'
<1>1. link[c] \in Stream /\ places[c] \in [Gate -> Nat] /\ Sparing(link[c], places[c])
  BY OneStream
<1>2. Sparing(l, places[c])
  <2>1. PICK n \in Nat, m \in Nat, k \in Nat : n = l.unsent /\ m = link[c].unsent /\ k = places[c]["responses"]
    BY <1>1 DEF Stream, Gate
  <2>2. m <= k /\ n <= m
    BY <1>1, <2>1 DEF Sparing
  <2>3. n <= k
    BY <2>2
  <2> QED BY <1>1, <2>1, <2>3 DEF Sparing
<1>3. \A g \in Gate : CallerAt(g, l) = CallerAt(g, link[c]) \/ places[c][g] = 0
  BY <1>1 DEF CallerAt, Sparing, Gate
<1> QED BY <1>2, <1>3, LinkOnly

LEMMA ArrivesKeeps ==
  ASSUME GatesInv, NEW c \in Connection, Arrives(c)
  PROVE  GatesInv'
<1>1. PICK a \in Address :
        /\ link[c].at = "waiting"
        /\ link' = [link EXCEPT ![c] = [@ EXCEPT !.at = "reading", !.caller = a, !.quiet = Grace]]
        /\ UNCHANGED <<open, places, stopping>>
  BY DEF Arrives, Doing
<1> DEFINE l == [link[c] EXCEPT !.at = "reading", !.caller = a, !.quiet = Grace]
<1>2. link[c] \in Stream /\ Sparing(link[c], places[c])
  BY OneStream
<1>3. /\ l \in Stream /\ l.at = "reading" /\ l.from = link[c].from /\ l.unsent = link[c].unsent
  BY <1>2, GatesAssumption DEF Stream
<1>4. link' = [link EXCEPT ![c] = l]
  BY <1>1
<1> HIDE DEF l
<1>5. link[c].unsent = 0 /\ link[c].at \in Waiting /\ l.at \notin Waiting /\ l.at # "closed"
  BY <1>1, <1>2, <1>3 DEF Sparing, Waiting, Answering
<1>6. l.unsent <= link[c].unsent
  BY <1>3, <1>5
<1> QED BY <1>1, <1>3, <1>4, <1>5, <1>6, GoesOn

(* Now: only where the connection is, and its clocks.                        *)
LEMMA NowStream ==
  ASSUME GatesInv, NEW c \in Connection,
         NEW at \in Waiting \cup Answering \cup {"reading", "handling", "refused"}, Now(c, at)
  PROVE  \E l \in Stream :
           /\ link' = [link EXCEPT ![c] = l]
           /\ l.at = at /\ l.from = link[c].from /\ l.caller = link[c].caller /\ l.unsent = link[c].unsent
<1> DEFINE l == [link[c] EXCEPT !.at = at, !.quiet = Grace, !.patience = Grace]
<1>1. link[c] \in Stream
  BY OneStream
<1>2. /\ l \in Stream /\ l.at = at /\ l.from = link[c].from /\ l.caller = link[c].caller
      /\ l.unsent = link[c].unsent
  BY <1>1, GatesAssumption DEF Stream
<1>3. link' = [link EXCEPT ![c] = l]
  BY DEF Now
<1> HIDE DEF l
<1> QED BY <1>2, <1>3

LEMMA ReadingEnds ==
  ASSUME GatesInv, NEW c \in Connection, TooSlow(c) \/ BodyRead(c)
  PROVE  GatesInv'
<1>1. PICK at \in {"refused", "handling"} :
        link[c].at = "reading" /\ Now(c, at) /\ UNCHANGED <<open, places, stopping>>
  BY DEF TooSlow, BodyRead, Doing
<1>2. PICK l \in Stream :
        /\ link' = [link EXCEPT ![c] = l]
        /\ l.at = at /\ l.from = link[c].from /\ l.caller = link[c].caller /\ l.unsent = link[c].unsent
  BY <1>1, NowStream
<1>3. link[c].unsent = 0 /\ l.at \notin Waiting /\ l.at # "closed"
  <2>1. Sparing(link[c], places[c])
    BY OneStream
  <2> QED BY <1>1, <1>2, <2>1 DEF Sparing, Waiting, Answering
<1>4. l.unsent <= link[c].unsent
  BY <1>2, <1>3
<1> QED BY <1>1, <1>2, <1>3, <1>4, GoesOn

LEMMA PieceKeeps ==
  ASSUME GatesInv, NEW c \in Connection, Piece(c)
  PROVE  GatesInv'
<1> DEFINE l == [link[c] EXCEPT !.unsent = @ - 1, !.quiet = Grace, !.patience = Grace]
<1>1. /\ link[c].at = "sending" /\ link[c].unsent > 0
      /\ link' = [link EXCEPT ![c] = l] /\ UNCHANGED <<open, places, stopping>>
  BY DEF Piece, Doing
<1>2. link[c] \in Stream /\ link[c].unsent \in Nat
  BY OneStream DEF Stream
<1>3. link[c].unsent - 1 \in Nat /\ link[c].unsent - 1 <= link[c].unsent
  BY <1>1, <1>2
<1>4. /\ l \in Stream /\ l.at = "sending" /\ l.from = link[c].from /\ l.caller = link[c].caller
      /\ l.unsent = link[c].unsent - 1
  BY <1>1, <1>2, <1>3, GatesAssumption DEF Stream
<1> HIDE DEF l
<1>5. l.at \in Answering /\ l.at \notin Waiting
  BY <1>4 DEF Answering, Waiting
<1> QED BY <1>1, <1>3, <1>4, <1>5, GoesOn

(* Only clocks change.                                                       *)
LEMMA ClocksKeep ==
  ASSUME GatesInv, NEW c \in Connection, Tick(c) \/ Chatter(c)
  PROVE  GatesInv'
<1>1. link[c] \in Stream /\ Sparing(link[c], places[c]) /\ link[c].unsent \in Nat
  BY OneStream DEF Stream
<1>2. PICK quiet \in Nat, patience \in Nat :
        /\ link' = [link EXCEPT ![c] = [@ EXCEPT !.quiet = quiet, !.patience = patience]]
        /\ UNCHANGED <<open, places, stopping>>
  <2>1. CASE Tick(c)
    <3> DEFINE q == link[c].quiet - 1
               p == IF Doing(c, "sending") /\ link[c].patience > 0 THEN link[c].patience - 1 ELSE link[c].patience
    <3>1. link[c].quiet \in Nat /\ link[c].quiet # 0 /\ link[c].patience \in Nat
      BY <1>1, <2>1 DEF Tick, Due, Stream
    <3>2. q \in Nat /\ p \in Nat
      BY <3>1
    <3>3. link' = [link EXCEPT ![c] = [@ EXCEPT !.quiet = q, !.patience = p]]
          /\ UNCHANGED <<open, places, stopping>>
      BY <2>1 DEF Tick
    <3> QED BY <3>2, <3>3
  <2>2. CASE Chatter(c)
    <3>1. link' = [link EXCEPT ![c].quiet = Grace] /\ UNCHANGED <<open, places, stopping>>
      BY <2>2 DEF Chatter
    <3>2. [link[c] EXCEPT !.quiet = Grace] = [link[c] EXCEPT !.quiet = Grace, !.patience = link[c].patience]
      BY <1>1 DEF Stream
    <3>3. link[c].patience \in Nat /\ Grace \in Nat
      BY <1>1, GatesAssumption DEF Stream
    <3>4. link' = [link EXCEPT ![c] = [@ EXCEPT !.quiet = Grace, !.patience = link[c].patience]]
      BY <3>1, <3>2
    <3> QED BY <3>1, <3>3, <3>4
  <2> QED BY <2>1, <2>2
<1> DEFINE l == [link[c] EXCEPT !.quiet = quiet, !.patience = patience]
<1>3. /\ l \in Stream /\ l.at = link[c].at /\ l.from = link[c].from /\ l.caller = link[c].caller
      /\ l.unsent = link[c].unsent
  BY <1>1 DEF Stream
<1>4. link' = [link EXCEPT ![c] = l]
  BY <1>2
<1> HIDE DEF l
<1>5. l.unsent <= link[c].unsent /\ (l.at \in Answering \/ l.unsent = 0)
  BY <1>1, <1>3 DEF Sparing
<1> QED BY <1>2, <1>3, <1>4, <1>5, GoesOn

-----------------------------------------------------------------------------
(* Places are taken for a body, or for an answer.                            *)
LEMMA TakeKeeps ==
  ASSUME GatesInv, NEW c \in Connection, NEW g \in Gate, NEW n \in Nat, NEW next \in Stream,
         Take(c, g, n, next), UNCHANGED stopping,
         next.from = link[c].from, next.caller = link[c].caller,
         Sparing(next, [places[c] EXCEPT ![g] = @ + n]),
         link[c].at \notin Waiting \cup Answering
  PROVE  GatesInv'
<1> DEFINE caller == CallerAt(g, link[c])
<1>1. link[c] \in Stream /\ places[c] \in [Gate -> Nat] /\ Sparing(link[c], places[c])
  BY OneStream
<1>2. \A h \in Gate : CallerAt(h, next) = CallerAt(h, link[c])
  BY DEF CallerAt
<1>3. CASE HasRoom(g, caller, n)
  <2>1. /\ open' = Taken(g, caller, n) /\ link' = [link EXCEPT ![c] = next]
        /\ places' = [places EXCEPT ![c][g] = @ + n]
    BY <1>3 DEF Take
  <2>2. places' = [places EXCEPT ![c] = [places[c] EXCEPT ![g] = @ + n]]
    BY <2>1
  <2>3. caller = CallerAt(g, next)
    BY <1>2
  <2> HIDE DEF caller
  <2> QED BY <1>2, <1>3, <2>1, <2>2, <2>3, TakenKeeps
<1>4. CASE ~HasRoom(g, caller, n)
  <2> DEFINE l == [link[c] EXCEPT !.at = "refused"]
  <2>1. open' = open /\ link' = [link EXCEPT ![c] = l] /\ places' = places
    BY <1>4 DEF Take, Taken
  <2>2. /\ l \in Stream /\ l.at = "refused" /\ l.from = link[c].from /\ l.caller = link[c].caller
        /\ l.unsent = link[c].unsent
    BY <1>1 DEF Stream
  <2> HIDE DEF l
  <2>3. link[c].unsent = 0 /\ l.at \notin Waiting /\ l.at # "closed"
    BY <1>1, <2>2 DEF Sparing, Waiting
  <2>4. l.unsent <= link[c].unsent
    BY <2>2, <2>3
  <2> QED BY <2>1, <2>2, <2>3, <2>4, GoesOn
<1> QED BY <1>3, <1>4

LEMMA PartKeeps ==
  ASSUME GatesInv, NEW c \in Connection, Part(c)
  PROVE  GatesInv'
<1> DEFINE l == [link[c] EXCEPT !.quiet = Grace]
           p == [places[c] EXCEPT !["bodies"] = @ + 1]
<1>1. link[c] \in Stream /\ places[c] \in [Gate -> Nat] /\ Sparing(link[c], places[c])
  BY OneStream
<1>2. link[c].at = "reading" /\ Take(c, "bodies", 1, l) /\ UNCHANGED stopping
  BY DEF Part, Doing
<1>3. /\ l \in Stream /\ l.at = link[c].at /\ l.from = link[c].from /\ l.caller = link[c].caller
      /\ l.unsent = link[c].unsent
  BY <1>1, GatesAssumption DEF Stream
<1>4. p["responses"] = places[c]["responses"]
  BY <1>1 DEF Gate
<1> HIDE DEF l, p
<1>5. Sparing(l, p)
  BY <1>1, <1>2, <1>3, <1>4 DEF Sparing, Waiting, Answering
<1>6. "bodies" \in Gate /\ 1 \in Nat /\ link[c].at \notin Waiting \cup Answering
  BY <1>2 DEF Gate, Waiting, Answering
<1>7. Sparing(l, [places[c] EXCEPT !["bodies"] = @ + 1])
  BY <1>5 DEF p
<1> QED BY <1>2, <1>3, <1>6, <1>7, TakeKeeps

LEMMA ReserveKeeps ==
  ASSUME GatesInv, NEW c \in Connection, Reserve(c)
  PROVE  GatesInv'
<1>1. PICK n \in 1 .. Largest :
        link[c].at = "handling" /\ Take(c, "responses", n, link[c]) /\ UNCHANGED stopping
  BY DEF Reserve, Doing
<1> DEFINE p == [places[c] EXCEPT !["responses"] = @ + n]
<1>2. link[c] \in Stream /\ places[c] \in [Gate -> Nat] /\ Sparing(link[c], places[c])
  BY OneStream
<1>3. n \in Nat /\ "responses" \in Gate /\ link[c].at \notin Waiting \cup Answering
  BY <1>1, GatesAssumption DEF Gate, Waiting, Answering
<1>4. p["responses"] = places[c]["responses"] + n /\ places[c]["responses"] \in Nat
  BY <1>2, <1>3
<1> HIDE DEF p
<1>5. link[c].unsent = 0 /\ link[c].unsent <= p["responses"]
  BY <1>2, <1>3, <1>4 DEF Sparing
<1>6. Sparing(link[c], p)
  BY <1>3, <1>5 DEF Sparing, Waiting
<1>7. Sparing(link[c], [places[c] EXCEPT !["responses"] = @ + n])
  BY <1>6 DEF p
<1> QED BY <1>1, <1>2, <1>3, <1>7, TakeKeeps

LEMMA BuildKeeps ==
  ASSUME GatesInv, NEW c \in Connection, Build(c)
  PROVE  GatesInv'
<1>1. PICK n \in 1 .. Largest :
        /\ link[c].at = "handling"
        /\ IF n > places[c]["responses"]
           THEN Take(c, "responses", n - places[c]["responses"], [link[c] EXCEPT !.at = "built", !.unsent = n])
           ELSE /\ Back(c, [NoPlaces EXCEPT !["responses"] = places[c]["responses"] - n])
                /\ link' = [link EXCEPT ![c] = [@ EXCEPT !.at = "built", !.unsent = n]]
        /\ UNCHANGED stopping
  BY DEF Build, Doing
<1> DEFINE l == [link[c] EXCEPT !.at = "built", !.unsent = n]
<1>2. link[c] \in Stream /\ places[c] \in [Gate -> Nat] /\ Sparing(link[c], places[c])
  BY OneStream
<1>3. n \in Nat /\ "responses" \in Gate /\ link[c].at \notin Waiting \cup Answering
  BY <1>1, GatesAssumption DEF Gate, Waiting, Answering
<1>4. /\ l \in Stream /\ l.at = "built" /\ l.from = link[c].from /\ l.caller = link[c].caller
      /\ l.unsent = n
  BY <1>2, <1>3 DEF Stream, Answering
<1>5. PICK k \in Nat : k = places[c]["responses"]
  BY <1>2, <1>3
<1>6. l.at \in Answering /\ l.at \notin Waiting
  BY <1>4 DEF Answering, Waiting
<1>7. CASE n > k
  <2> DEFINE p == [places[c] EXCEPT !["responses"] = @ + (n - k)]
  <2>1. n - k \in Nat /\ k + (n - k) = n /\ n <= n
    BY <1>3, <1>7
  <2>2. p["responses"] = n
    BY <1>2, <1>3, <1>5, <2>1
  <2>3. Take(c, "responses", n - k, l) /\ UNCHANGED stopping
    BY <1>1, <1>5, <1>7
  <2> HIDE DEF p, l
  <2>4. Sparing(l, p)
    BY <1>4, <1>6, <2>1, <2>2 DEF Sparing, Waiting
  <2>5. Sparing(l, [places[c] EXCEPT !["responses"] = @ + (n - k)])
    BY <2>4 DEF p
  <2> QED BY <1>3, <1>4, <2>1, <2>3, <2>5, TakeKeeps
<1>8. CASE ~(n > k)
  <2> DEFINE given == [NoPlaces EXCEPT !["responses"] = k - n]
             p == [g \in Gate |-> places[c][g] - given[g]]
  <2>1. k - n \in Nat /\ k - n <= k /\ k - (k - n) = n /\ n <= n
    BY <1>3, <1>8
  <2>2. given \in [Gate -> Nat] /\ given["responses"] = k - n
        /\ \A g \in Gate : g # "responses" => given[g] = 0
    BY <1>3, <2>1, NoneHeld
  <2>3. Back(c, given) /\ link' = [link EXCEPT ![c] = l] /\ UNCHANGED stopping
    BY <1>1, <1>5, <1>8
  <2> HIDE DEF l, given
  <2>4. p["responses"] = n
    BY <1>3, <1>5, <2>1, <2>2
  <2>5. \A g \in Gate : given[g] <= places[c][g]
    BY <1>2, <1>5, <2>1, <2>2
  <2> HIDE DEF p
  <2>6. Sparing(l, p)
    BY <1>4, <1>6, <2>1, <2>4 DEF Sparing, Waiting
  <2>7. \A g \in Gate : CallerAt(g, l) = CallerAt(g, link[c])
    BY <1>4 DEF CallerAt
  <2>8. Returns(c, l, given, p)
    BY <1>2, <2>2, <2>5, <2>7 DEF Returns, p
  <2> QED BY <1>4, <2>3, <2>6, <2>8, BackKeeps
<1> QED BY <1>7, <1>8

-----------------------------------------------------------------------------
(* Places are given back.                                                    *)
LEMMA OnlyGiven ==
  ASSUME GatesInv, NEW c \in Connection, NEW gs \in SUBSET Gate
  PROVE  /\ Only(c, gs) \in [Gate -> Nat]
         /\ \A g \in Gate : /\ Only(c, gs)[g] <= places[c][g]
                            /\ places[c][g] - Only(c, gs)[g] = IF g \in gs THEN 0 ELSE places[c][g]
<1>1. places[c] \in [Gate -> Nat]
  BY OneStream
<1>2. ASSUME NEW g \in Gate
      PROVE  /\ Only(c, gs)[g] \in Nat /\ Only(c, gs)[g] <= places[c][g]
             /\ places[c][g] - Only(c, gs)[g] = IF g \in gs THEN 0 ELSE places[c][g]
  <2>1. PICK k \in Nat : k = places[c][g]
    BY <1>1
  <2>2. Only(c, gs)[g] = IF g \in gs THEN k ELSE 0
    BY <2>1 DEF Only
  <2> QED BY <2>1, <2>2
<1>3. Only(c, gs) = [g \in Gate |-> Only(c, gs)[g]]
  BY DEF Only
<1> QED BY <1>2, <1>3

LEMMA SendKeeps ==
  ASSUME GatesInv, NEW c \in Connection, Send(c)
  PROVE  GatesInv'
<1> DEFINE given == Only(c, {"bodies"})
           p == [g \in Gate |-> places[c][g] - given[g]]
<1>1. link[c].at = "built" /\ Back(c, given) /\ Now(c, "sending") /\ UNCHANGED stopping
  BY DEF Send, Doing
<1>2. PICK l \in Stream :
        /\ link' = [link EXCEPT ![c] = l]
        /\ l.at = "sending" /\ l.from = link[c].from /\ l.caller = link[c].caller /\ l.unsent = link[c].unsent
  BY <1>1, NowStream DEF Answering
<1>3. Sparing(link[c], places[c])
  BY OneStream
<1>4. {"bodies"} \in SUBSET Gate
  BY DEF Gate
<1>5. /\ given \in [Gate -> Nat]
      /\ \A g \in Gate : /\ given[g] <= places[c][g]
                         /\ places[c][g] - given[g] = IF g \in {"bodies"} THEN 0 ELSE places[c][g]
  BY <1>4, OnlyGiven
<1> HIDE DEF given
<1>6. p["responses"] = places[c]["responses"]
  BY <1>5 DEF Gate
<1> HIDE DEF p
<1>7. Sparing(l, p)
  BY <1>2, <1>3, <1>6 DEF Sparing, Waiting, Answering
<1>8. \A g \in Gate : CallerAt(g, l) = CallerAt(g, link[c])
  BY <1>2 DEF CallerAt
<1>9. Returns(c, l, given, p)
  BY <1>5, <1>8, OneStream DEF Returns, p
<1> QED BY <1>1, <1>2, <1>7, <1>9, BackKeeps

LEMMA AnsweredKeeps ==
  ASSUME GatesInv, NEW c \in Connection, Answered(c)
  PROVE  GatesInv'
<1> DEFINE given == Only(c, {"bodies", "responses"})
           p == [g \in Gate |-> places[c][g] - given[g]]
<1>1. PICK at \in {"closing", "waiting"} :
        /\ link[c].at \in {"handling", "refused"} \/ (link[c].at = "sending" /\ link[c].unsent = 0)
        /\ Back(c, given) /\ Now(c, at) /\ UNCHANGED stopping
  BY DEF Answered, Doing
<1>2. PICK l \in Stream :
        /\ link' = [link EXCEPT ![c] = l]
        /\ l.at = at /\ l.from = link[c].from /\ l.caller = link[c].caller /\ l.unsent = link[c].unsent
  BY <1>1, NowStream DEF Waiting
<1>3. Sparing(link[c], places[c])
  BY OneStream
<1>4. {"bodies", "responses"} \in SUBSET Gate
  BY DEF Gate
<1>5. /\ given \in [Gate -> Nat]
      /\ \A g \in Gate : /\ given[g] <= places[c][g]
                         /\ places[c][g] - given[g] = IF g \in {"bodies", "responses"} THEN 0 ELSE places[c][g]
  BY <1>4, OnlyGiven
<1> HIDE DEF given
<1>6. p["responses"] = 0 /\ p["bodies"] = 0
  BY <1>5 DEF Gate
<1> HIDE DEF p
<1>7. l.unsent = 0 /\ l.at # "closed"
  BY <1>1, <1>2, <1>3 DEF Sparing, Answering
<1>8. Sparing(l, p)
  BY <1>6, <1>7 DEF Sparing
<1>9. \A g \in Gate : CallerAt(g, l) = CallerAt(g, link[c])
  BY <1>2 DEF CallerAt
<1>10. Returns(c, l, given, p)
  BY <1>5, <1>9, OneStream DEF Returns, p
<1> QED BY <1>1, <1>2, <1>8, <1>10, BackKeeps

LEMMA DropKeeps ==
  ASSUME GatesInv, NEW c \in Connection, Drop(c)
  PROVE  GatesInv'
<1> DEFINE given == places[c]
           p == [g \in Gate |-> given[g] - given[g]]
<1>1. Back(c, given) /\ link' = [link EXCEPT ![c] = Closed] /\ UNCHANGED stopping
  BY DEF Drop
<1>2. given \in [Gate -> Nat]
  BY OneStream
<1>3. \A g \in Gate : given[g] <= given[g] /\ given[g] - given[g] = 0
  BY <1>2
<1>4. p["responses"] = 0 /\ p["bodies"] = 0 /\ p["connections"] = 0
  BY <1>3 DEF Gate
<1> HIDE DEF p
<1>5. Sparing(Closed, p)
  BY <1>4, NoneHeld DEF Sparing
<1>6. Returns(c, Closed, given, p)
  BY <1>2, <1>3 DEF Returns, p
<1> QED BY <1>1, <1>5, <1>6, NoneHeld, BackKeeps

-----------------------------------------------------------------------------
LEMMA GatesInitInv == GatesInit => GatesInv
<1> SUFFICES ASSUME GatesInit PROVE GatesInv
  OBVIOUS
<1>1. GatesTypeOK
  BY NoneHeld DEF GatesInit, GatesTypeOK, Count
<1>2. \A c \in Connection : link[c] = Closed /\ \A g \in Gate : places[c][g] = 0
  BY NoneHeld DEF GatesInit
<1>3. \A g \in Gate : open[g].total = 0 /\ \A a \in Address : open[g].by[a] = 0
  BY DEF GatesInit
<1> DEFINE zero == [c \in Connection |-> 0]
<1>4. zero \in [Connection -> Nat] /\ IsFiniteSet(Connection)
  BY GatesAssumption
<1>5. Adds(zero, Connection) = 0
  <2> DEFINE none == [x \in Connection |-> IF x \in {} THEN zero[x] ELSE 0]
  <2>1. none = zero
    OBVIOUS
  <2>2. Adds(zero, {}) = Adds(none, Connection)
    BY <1>4, AddsPart
  <2>3. Adds(zero, {}) = 0
    BY <1>4, AddsSplit
  <2> HIDE DEF none
  <2> QED BY <2>1, <2>2, <2>3
<1>6. \A g \in Gate : HeldAt(g) = zero /\ \A a \in Address : HeldFor(g, a) = zero
  BY <1>2 DEF HeldAt, HeldFor
<1> HIDE DEF zero
<1>7. CountsAgree
  BY <1>3, <1>5, <1>6 DEF CountsAgree
<1>8. CapsKept
  <2>1. \A g \in Gate : Total[g] \in Nat /\ PerCaller[g] \in Nat
    BY GatesAssumption
  <2> QED BY <1>3, <2>1 DEF CapsKept, Within
<1>9. ASSUME NEW c \in Connection PROVE Sparing(link[c], places[c])
  BY <1>2, NoneHeld DEF Sparing, Gate
<1> QED BY <1>1, <1>7, <1>8, <1>9 DEF GatesInv

LEMMA GatesStepInv == GatesInv /\ [GatesNext]_gateVars => GatesInv'
<1> SUFFICES ASSUME GatesInv, [GatesNext]_gateVars PROVE GatesInv'
  OBVIOUS
<1>1. CASE Shutdown \/ UNCHANGED gateVars
  <2>1. UNCHANGED <<open, link, places>> /\ stopping' \in BOOLEAN
    BY <1>1 DEF Shutdown, gateVars, GatesInv, GatesTypeOK
  <2>2. GatesTypeOK' /\ CapsKept'
    BY <2>1 DEF GatesInv, GatesTypeOK, CapsKept
  <2>3. \A g \in Gate : HeldAt(g)' = HeldAt(g) /\ \A a \in Address : HeldFor(g, a)' = HeldFor(g, a)
    BY <2>1 DEF HeldAt, HeldFor
  <2>4. CountsAgree'
    BY <2>1, <2>3 DEF GatesInv, CountsAgree
  <2> QED BY <2>1, <2>2, <2>4 DEF GatesInv
<1>2. ASSUME NEW c \in Connection,
             \/ Accept(c) \/ Arrives(c) \/ Part(c) \/ BodyRead(c) \/ Reserve(c) \/ Piece(c)
             \/ Chatter(c) \/ Leave(c) \/ Serve(c) \/ Clocked(c)
      PROVE  GatesInv'
  BY <1>2, AcceptKeeps, ArrivesKeeps, PartKeeps, ReadingEnds, ReserveKeeps, PieceKeeps, ClocksKeep, BuildKeeps,
     SendKeeps, AnsweredKeeps, DropKeeps DEF Leave, Serve, Clocked, Cut, EndConnection
<1> QED BY <1>1, <1>2 DEF GatesNext

(* GatesBalanced: a gate counts exactly what the permits that are out hold,  *)
(* under each caller and in all, within its caps, by whichever path the      *)
(* requests end (take, give_back, settle, Drop for Permit).                  *)
THEOREM GatesStayBalanced == GatesSpec => []GatesBalanced
<1>1. GatesInv => GatesBalanced
  <2> SUFFICES ASSUME GatesInv PROVE GatesBalanced
    OBVIOUS
  <2>1. ASSUME NEW g \in Gate
        PROVE  /\ open[g].total = MapThenSumSet(LAMBDA c : places[c][g], Connection)
               /\ Within(Total[g], open[g].total)
    <3>1. MapThenSumSet(LAMBDA c : places[c][g], Connection) = Adds(HeldAt(g), Connection)
      BY PlacesAdd DEF GatesInv
    <3>2. open[g].total = Adds(HeldAt(g), Connection) /\ Within(Total[g], open[g].total)
      BY DEF GatesInv, CountsAgree, CapsKept
    <3> QED BY <3>1, <3>2
  <2>2. ASSUME NEW g \in Gate, NEW a \in Address
        PROVE  /\ open[g].by[a]
                    = MapThenSumSet(LAMBDA c : places[c][g], {c \in Connection : CallerAt(g, link[c]) = a})
               /\ Within(PerCaller[g], open[g].by[a])
    <3> DEFINE S == {c \in Connection : CallerAt(g, link[c]) = a}
    <3>1. S \in SUBSET Connection
      OBVIOUS
    <3>2. HeldFor(g, a) = [c \in Connection |-> IF c \in S THEN HeldAt(g)[c] ELSE 0]
      BY DEF HeldFor, HeldAt
    <3> HIDE DEF S
    <3>3. MapThenSumSet(LAMBDA c : places[c][g], S) = Adds(HeldAt(g), S)
      BY <3>1, PlacesAdd DEF GatesInv
    <3>4. Adds(HeldAt(g), S) = Adds(HeldFor(g, a), Connection)
      <4>1. HeldAt(g) \in [Connection -> Nat] /\ IsFiniteSet(Connection)
        BY HeldTypes, GatesAssumption DEF GatesInv
      <4> QED BY <3>1, <3>2, <4>1, AddsPart
    <3>5. open[g].by[a] = Adds(HeldFor(g, a), Connection) /\ Within(PerCaller[g], open[g].by[a])
      BY DEF GatesInv, CountsAgree, CapsKept
    <3>6. open[g].by[a] = MapThenSumSet(LAMBDA c : places[c][g], S)
      BY <3>3, <3>4, <3>5
    <3> QED BY <3>5, <3>6 DEF S
  <2>3. \A c \in Connection : link[c].unsent <= places[c]["responses"]
    BY DEF GatesInv, Sparing
  <2> QED BY <2>1, <2>2, <2>3 DEF GatesBalanced
<1> QED BY <1>1, GatesInitInv, GatesStepInv, PTL DEF GatesSpec
-----------------------------------------------------------------------------
(***************************************************************************)
(* RoomFrames: that every client knows who is in its room and what it may  *)
(* do there once its queue is sent, for any number of sockets.             *)
(***************************************************************************)
Frames == [kind : {"welcome", "joined", "left", "data", "access"},
           who : SUBSET Socket, access : Access]
View == [roster : SUBSET Socket, access : Access]
Hub == [peers : SUBSET Socket, new : SUBSET Socket, access : [Socket -> Access],
        queue : [Socket -> Seq(Frames)], counted : [Socket -> Nat]]

FramesTypeOK ==
  /\ hub \in Hub /\ told \in [Socket -> View] /\ news \in Nat
  /\ unsaid \in [slow : SUBSET Socket, missed : SUBSET Socket]

(* What a client has once its queue is sent.                                 *)
Reads(v, q) ==
  LET Seen[n \in 0 .. Len(q)] == IF n = 0 THEN v ELSE Told(Seen[n - 1], q[n])
  IN Seen[Len(q)]

LEMMA ToldView == \A v \in View, f \in Frames : Told(v, f) \in View
BY DEF Told, View, Frames

LEMMA ReadsRun ==
  ASSUME NEW v \in View, NEW q \in Seq(Frames)
  PROVE  \E it \in [0 .. Len(q) -> View] :
           /\ it[0] = v /\ \A n \in 1 .. Len(q) : it[n] = Told(it[n - 1], q[n])
           /\ Reads(v, q) = it[Len(q)]
<1> DEFINE G == [p \in View \X Frames |-> Told(p[1], p[2])]
<1>1. G \in [View \X Frames -> View]
  BY ToldView
<1>2. \A x \in View, f \in Frames : G[<<x, f>>] = Told(x, f)
  OBVIOUS
<1> HIDE DEF G
<1>3. PICK it \in [0 .. Len(q) -> View] : IsRun(it, v, G, q)
  BY <1>1, RunExists
<1>4. \A n \in 0 .. Len(q) : n # 0 => n - 1 \in 0 .. Len(q) /\ q[n] \in Frames
  OBVIOUS
<1>5. it = [n \in 0 .. Len(q) |-> IF n = 0 THEN v ELSE Told(it[n - 1], q[n])]
  BY <1>2, <1>3, <1>4 DEF IsRun
<1> DEFINE Runs(j) == j = [n \in 0 .. Len(q) |-> IF n = 0 THEN v ELSE Told(j[n - 1], q[n])]
<1>6. \E j : Runs(j)
  BY <1>5
<1>7. PICK j : Runs(j) /\ Reads(v, q) = j[Len(q)]
  BY <1>6 DEF Reads
<1> DEFINE Q == {n \in Nat : n <= Len(q) => j[n] = it[n]}
<1>8. 0 \in Q
  BY <1>5, <1>7
<1>9. ASSUME NEW n \in Q PROVE n + 1 \in Q
  <2> SUFFICES ASSUME n \in Nat, n + 1 <= Len(q) PROVE j[n + 1] = it[n + 1]
    BY <1>9
  <2>1. j[n] = it[n] /\ n + 1 \in 0 .. Len(q) /\ n + 1 # 0 /\ (n + 1) - 1 = n
    BY <1>9
  <2>2. j[n + 1] = Told(j[n], q[n + 1])
    BY <1>7, <2>1
  <2>3. it[n + 1] = Told(it[n], q[n + 1])
    BY <1>5, <2>1
  <2> QED BY <2>1, <2>2, <2>3
<1>10. Q = Nat
  <2> HIDE DEF Q
  <2>1. Q \in SUBSET Nat
    BY DEF Q
  <2> QED BY <1>8, <1>9, <2>1, CountInduction
<1>11. Len(q) \in Nat /\ Len(q) <= Len(q)
  OBVIOUS
<1>12. j[Len(q)] = it[Len(q)]
  BY <1>10, <1>11
<1>13. it[0] = v /\ \A n \in 1 .. Len(q) : it[n] = Told(it[n - 1], q[n])
  BY <1>5, <1>4, <1>11
<1> QED BY <1>7, <1>12, <1>13

(* Two runs over the same frames from the same view are the same.            *)
Along(it, q, N) == \A n \in 1 .. N : it[n] = Told(it[n - 1], q[n])

LEMMA RunsAgree ==
  ASSUME NEW q, NEW N \in Nat, NEW f, NEW g, f[0] = g[0], Along(f, q, N), Along(g, q, N)
  PROVE  f[N] = g[N]
<1> DEFINE Q == {n \in Nat : n <= N => f[n] = g[n]}
<1>1. 0 \in Q
  OBVIOUS
<1>2. ASSUME NEW n \in Q PROVE n + 1 \in Q
  <2> SUFFICES ASSUME n \in Nat, n + 1 <= N PROVE f[n + 1] = g[n + 1]
    BY <1>2
  <2>1. f[n] = g[n] /\ n + 1 \in 1 .. N /\ (n + 1) - 1 = n
    BY <1>2
  <2> QED BY <2>1 DEF Along
<1>3. Q = Nat
  <2> HIDE DEF Q
  <2>1. Q \in SUBSET Nat
    BY DEF Q
  <2> QED BY <1>1, <1>2, <2>1, CountInduction
<1> QED BY <1>3

LEMMA ReadsView ==
  ASSUME NEW v \in View, NEW q \in Seq(Frames) PROVE Reads(v, q) \in View
<1>1. Len(q) \in 0 .. Len(q)
  OBVIOUS
<1> QED BY <1>1, ReadsRun

LEMMA ReadsNone == ASSUME NEW v \in View PROVE Reads(v, << >>) = v
<1>0. << >> \in Seq(Frames)
  OBVIOUS
<1>1. PICK q \in Seq(Frames) : q = << >>
  BY <1>0
<1>a. Len(q) = 0
  BY <1>1
<1>b. PICK it \in [0 .. Len(q) -> View] : it[0] = v /\ Reads(v, q) = it[Len(q)]
  BY ReadsRun
<1>2. Reads(v, q) = v
  BY <1>a, <1>b
<1> QED BY <1>1, <1>2

LEMMA ReadsMore ==
  ASSUME NEW v \in View, NEW q \in Seq(Frames), NEW f \in Frames
  PROVE  Reads(v, Append(q, f)) = Told(Reads(v, q), f)
<1>1. PICK a \in [0 .. Len(q) -> View] :
        /\ a[0] = v /\ \A n \in 1 .. Len(q) : a[n] = Told(a[n - 1], q[n])
        /\ Reads(v, q) = a[Len(q)]
  BY ReadsRun
<1>2. PICK r \in Seq(Frames) : r = Append(q, f)
  OBVIOUS
<1>3. /\ Len(r) = Len(q) + 1 /\ r[Len(q) + 1] = f /\ \A n \in 1 .. Len(q) : r[n] = q[n]
      /\ Len(q) \in Nat /\ Len(q) + 1 \in 1 .. Len(q) + 1 /\ (Len(q) + 1) - 1 = Len(q)
  BY <1>2
<1>4. PICK b \in [0 .. Len(r) -> View] :
        /\ b[0] = v /\ \A n \in 1 .. Len(r) : b[n] = Told(b[n - 1], r[n])
        /\ Reads(v, r) = b[Len(r)]
  BY ReadsRun
<1>5. \A n \in 1 .. Len(q) : n \in 1 .. Len(r)
  BY <1>3
<1>6. \A n \in 1 .. Len(q) : b[n] = Told(b[n - 1], q[n])
  BY <1>3, <1>4, <1>5
<1>7. a[Len(q)] = b[Len(q)]
  <2>1. Along(a, q, Len(q)) /\ Along(b, q, Len(q)) /\ a[0] = b[0] /\ Len(q) \in Nat
    BY <1>1, <1>3, <1>4, <1>6 DEF Along
  <2> QED BY ONLY <2>1, RunsAgree
<1>8. b[Len(r)] = Told(b[Len(q)], f)
  BY <1>3, <1>4
<1> QED BY <1>1, <1>2, <1>4, <1>7, <1>8

LEMMA ReadsOn ==
  ASSUME NEW v \in View, NEW q \in Seq(Frames), q # << >>
  PROVE  Reads(Told(v, Head(q)), Tail(q)) = Reads(v, q)
<1>1. PICK a \in [0 .. Len(q) -> View] :
        /\ a[0] = v /\ \A n \in 1 .. Len(q) : a[n] = Told(a[n - 1], q[n])
        /\ Reads(v, q) = a[Len(q)]
  BY ReadsRun
<1>2. /\ Head(q) = q[1] /\ Tail(q) \in Seq(Frames) /\ Len(q) \in Nat /\ Len(q) >= 1
      /\ Len(Tail(q)) = Len(q) - 1 /\ \A n \in 1 .. Len(q) - 1 : Tail(q)[n] = q[n + 1]
      /\ Head(q) \in Frames
  OBVIOUS
<1> PICK r \in Seq(Frames) : r = Tail(q)
  BY <1>2
<1> PICK w \in View : w = Told(v, Head(q))
  BY <1>2, ToldView
<1>3. PICK b \in [0 .. Len(r) -> View] :
        /\ b[0] = w /\ \A n \in 1 .. Len(r) : b[n] = Told(b[n - 1], r[n])
        /\ Reads(w, r) = b[Len(r)]
  BY ReadsRun
<1>4. PICK N \in Nat : N = Len(r) /\ Len(q) = N + 1
  <2>1. Len(q) - 1 \in Nat /\ Len(r) = Len(q) - 1 /\ Len(q) = (Len(q) - 1) + 1
    BY <1>2
  <2> QED BY <2>1
<1> DEFINE c == [n \in 0 .. N |-> a[n + 1]]
<1>5. c[0] = w
  BY <1>1, <1>2, <1>4
<1>6. \A n \in 1 .. N : c[n] = Told(c[n - 1], r[n])
  <2> SUFFICES ASSUME NEW n \in 1 .. N PROVE c[n] = Told(c[n - 1], r[n])
    OBVIOUS
  <2>1. n \in 0 .. N /\ n - 1 \in 0 .. N /\ (n - 1) + 1 = n /\ n + 1 \in 1 .. Len(q) /\ (n + 1) - 1 = n
        /\ n \in 1 .. Len(q) - 1
    BY <1>4
  <2>2. c[n] = a[n + 1] /\ c[n - 1] = a[n]
    BY <2>1
  <2>3. a[n + 1] = Told(a[n], q[n + 1])
    BY <1>1, <2>1
  <2> QED BY <1>2, <2>1, <2>2, <2>3
<1>7. N \in 0 .. N /\ c[N] = a[N + 1]
  OBVIOUS
<1> HIDE DEF c
<1>8. \A n \in 1 .. N : b[n] = Told(b[n - 1], r[n])
  BY <1>3, <1>4
<1>9. c[N] = b[N]
  <2>1. Along(c, r, N) /\ Along(b, r, N) /\ c[0] = b[0]
    BY <1>3, <1>5, <1>6, <1>8 DEF Along
  <2> QED BY <2>1, RunsAgree
<1> QED BY <1>1, <1>3, <1>4, <1>7, <1>9

-----------------------------------------------------------------------------
(* The hub.                                                                  *)
Pushed(h, to, f) ==
  [peers |-> h.peers, new |-> h.new, access |-> h.access,
   queue |-> [s \in Socket |-> IF s \in to /\ HasSpace(h, s) THEN Append(h.queue[s], f) ELSE h.queue[s]],
   counted |-> [s \in Socket |-> IF s \in to THEN h.counted[s] + 1 ELSE h.counted[s]]]

LEMMA PushedHub ==
  ASSUME NEW h \in Hub, NEW to \in SUBSET Socket, NEW f \in Frames PROVE Pushed(h, to, f) \in Hub
<1>1. [s \in Socket |-> IF s \in to /\ HasSpace(h, s) THEN Append(h.queue[s], f) ELSE h.queue[s]]
        \in [Socket -> Seq(Frames)]
  BY DEF Hub
<1>2. [s \in Socket |-> IF s \in to THEN h.counted[s] + 1 ELSE h.counted[s]] \in [Socket -> Nat]
  BY DEF Hub
<1> QED BY <1>1, <1>2 DEF Hub, Pushed

LEMMA PushedFields ==
  ASSUME NEW h, NEW to, NEW f
  PROVE  LET g == Pushed(h, to, f) IN
         /\ g.peers = h.peers /\ g.new = h.new /\ g.access = h.access
         /\ \A s \in Socket : g.counted[s] = IF s \in to THEN h.counted[s] + 1 ELSE h.counted[s]
         /\ \A s \in Socket : g.queue[s] = IF s \in to /\ HasSpace(h, s) THEN Append(h.queue[s], f) ELSE h.queue[s]
BY DEF Pushed

LEMMA PushesOne ==
  ASSUME NEW h \in Hub, NEW s \in Socket, NEW f \in Frames
  PROVE  Push(h, s, f) = Pushed(h, {s}, f)
<1>1. h.counted \in [Socket -> Nat] /\ h.queue \in [Socket -> Seq(Frames)]
  BY DEF Hub
<1>2. [h.counted EXCEPT ![s] = @ + 1] = [t \in Socket |-> IF t \in {s} THEN h.counted[t] + 1 ELSE h.counted[t]]
  BY <1>1
<1>3. [h.queue EXCEPT ![s] = IF HasSpace(h, s) THEN Append(@, f) ELSE @]
        = [t \in Socket |-> IF t \in {s} /\ HasSpace(h, t) THEN Append(h.queue[t], f) ELSE h.queue[t]]
  BY <1>1
<1>4. Push(h, s, f) = [h EXCEPT !.counted = [h.counted EXCEPT ![s] = @ + 1],
                                !.queue = [h.queue EXCEPT ![s] = IF HasSpace(h, s) THEN Append(@, f) ELSE @]]
  BY DEF Push, Hub
<1> QED BY <1>2, <1>3, <1>4 DEF Pushed, Hub

LEMMA PushesOneMore ==
  ASSUME NEW h \in Hub, NEW f \in Frames, NEW to \in SUBSET Socket, NEW s \in to
  PROVE  Push(Pushed(h, to \ {s}, f), s, f) = Pushed(h, to, f)
<1>1. PICK g \in Hub : g = Pushed(h, to \ {s}, f)
  BY PushedHub
<1>2. Push(g, s, f) = Pushed(g, {s}, f)
  BY PushesOne
<1>3. /\ g.peers = h.peers /\ g.new = h.new /\ g.access = h.access
      /\ \A t \in Socket : g.counted[t] = IF t \in to \ {s} THEN h.counted[t] + 1 ELSE h.counted[t]
      /\ \A t \in Socket : g.queue[t] = IF t \in to \ {s} /\ HasSpace(h, t) THEN Append(h.queue[t], f) ELSE h.queue[t]
  BY <1>1 DEF Pushed
<1>4. HasSpace(g, s) <=> HasSpace(h, s)
  BY <1>3 DEF HasSpace
<1>5. \A t \in Socket : (IF t \in {s} THEN g.counted[t] + 1 ELSE g.counted[t])
                        = (IF t \in to THEN h.counted[t] + 1 ELSE h.counted[t])
  BY <1>3
<1>6. \A t \in Socket : (IF t \in {s} /\ HasSpace(g, t) THEN Append(g.queue[t], f) ELSE g.queue[t])
                        = (IF t \in to /\ HasSpace(h, t) THEN Append(h.queue[t], f) ELSE h.queue[t])
  <2> TAKE t \in Socket
  <2>1. CASE t = s
    BY <1>3, <1>4, <2>1
  <2>2. CASE t # s
    BY <1>3, <2>2
  <2> QED BY <2>1, <2>2
<1>7. Pushed(g, {s}, f) = Pushed(h, to, f)
  BY <1>3, <1>5, <1>6 DEF Pushed
<1> QED BY <1>1, <1>2, <1>7

LEMMA PushedNobody == ASSUME NEW h \in Hub, NEW f PROVE Pushed(h, {}, f) = h
<1>1. [s \in Socket |-> IF s \in {} /\ HasSpace(h, s) THEN Append(h.queue[s], f) ELSE h.queue[s]] = h.queue
  BY DEF Hub
<1>2. [s \in Socket |-> IF s \in {} THEN h.counted[s] + 1 ELSE h.counted[s]] = h.counted
  BY DEF Hub
<1> QED BY <1>1, <1>2 DEF Pushed, Hub

LEMMA PushesAll ==
  ASSUME NEW h \in Hub, NEW f \in Frames, NEW to \in SUBSET Socket
  PROVE  FoldSet(LAMBDA s, acc : Push(acc, s, f), h, to) = Pushed(h, to, f)
<1> DEFINE Runs(j) == j = [x \in SUBSET to |-> IF x = {} THEN h ELSE Push(j[x \ {Pick(x)}], Pick(x), f)]
           W == [x \in SUBSET to |-> Pushed(h, x, f)]
<1>1. \A x \in SUBSET to : x # {} => /\ Pick(x) \in x /\ x \ {Pick(x)} \in SUBSET to
                                     /\ Push(Pushed(h, x \ {Pick(x)}, f), Pick(x), f) = Pushed(h, x, f)
  BY PickIn, PushesOneMore
<1>2. Runs(W)
  BY <1>1, PushedNobody
<1>3. \E j : Runs(j)
  BY <1>2
<1>4. PICK j : Runs(j) /\ FoldSet(LAMBDA s, acc : Push(acc, s, f), h, to) = j[to]
  BY <1>3 DEF FoldSet, MapThenFoldSet, Pick
<1> DEFINE Q == {x \in SUBSET to : j[x] = Pushed(h, x, f)}
<1>5. {} \in Q
  BY <1>4, PushedNobody
<1>6. \A x \in SUBSET to : x # {} /\ x \ {Pick(x)} \in Q => x \in Q
  BY <1>1, <1>4
<1>7. Q = SUBSET to
  <2>1. Q \in SUBSET (SUBSET to) /\ IsFiniteSet(to)
    BY FS_Subset, FramesAssumption
  <2> HIDE DEF Q
  <2> QED BY <2>1, <1>5, <1>6, FoldInduction
<1> QED BY <1>4, <1>7

Announced(h, to, f) == FoldSet(LAMBDA s, acc : Push(acc, s, f), h, to)

LEMMA AnnouncedToAll ==
  ASSUME NEW h \in Hub, NEW f \in Frames, NEW to \in SUBSET Socket
  PROVE  Announced(h, to, f) = Pushed(h, to, f) /\ Announced(h, to, f) \in Hub
BY PushesAll, PushedHub DEF Announced

(* What a broadcast makes of the hub.                                        *)
Full(h, to) == {s \in to : ~HasSpace(h, s)}

Sends(h, b, f, to) ==
  /\ b \in Hub /\ b.new = h.new /\ b.peers = h.peers \ Full(h, to)
  /\ \A s \in Socket \ Full(h, to) :
       /\ b.access[s] = h.access[s]
       /\ s \in to => b.queue[s] = Append(h.queue[s], f) /\ b.counted[s] = h.counted[s] + 1
                      /\ h.counted[s] <= MaxQueued
       /\ s \notin to => b.queue[s] = h.queue[s] /\ b.counted[s] = h.counted[s]

LEMMA GoneHub ==
  ASSUME NEW h \in Hub, NEW ss \in SUBSET Socket
  PROVE  /\ Gone(h, ss) \in Hub /\ Gone(h, ss).peers = h.peers \ ss /\ Gone(h, ss).new = h.new
         /\ \A s \in Socket \ ss : /\ Gone(h, ss).access[s] = h.access[s]
                                   /\ Gone(h, ss).queue[s] = h.queue[s]
                                   /\ Gone(h, ss).counted[s] = h.counted[s]
<1>1. /\ [s \in Socket |-> IF s \in ss THEN "read" ELSE h.access[s]] \in [Socket -> Access]
      /\ [s \in Socket |-> IF s \in ss THEN << >> ELSE h.queue[s]] \in [Socket -> Seq(Frames)]
      /\ [s \in Socket |-> IF s \in ss THEN 0 ELSE h.counted[s]] \in [Socket -> Nat]
  <2>1. << >> \in Seq(Frames) /\ "read" \in Access
    BY DEF Access
  <2> QED BY <2>1 DEF Hub
<1>2. PICK p \in SUBSET Socket, a \in [Socket -> Access], q \in [Socket -> Seq(Frames)], c \in [Socket -> Nat] :
        /\ p = h.peers \ ss
        /\ a = [s \in Socket |-> IF s \in ss THEN "read" ELSE h.access[s]]
        /\ q = [s \in Socket |-> IF s \in ss THEN << >> ELSE h.queue[s]]
        /\ c = [s \in Socket |-> IF s \in ss THEN 0 ELSE h.counted[s]]
  <2>1. h.peers \ ss \in SUBSET Socket
    BY DEF Hub
  <2> QED BY <1>1, <2>1
<1>3. Gone(h, ss) = [h EXCEPT !.peers = p, !.access = a, !.queue = q, !.counted = c]
  BY <1>2 DEF Gone
<1>4. PICK g \in Hub : /\ g = [h EXCEPT !.peers = p, !.access = a, !.queue = q, !.counted = c]
                       /\ g.peers = p /\ g.new = h.new /\ g.access = a /\ g.queue = q /\ g.counted = c
  <2>1. [h EXCEPT !.peers = p, !.access = a, !.queue = q, !.counted = c] \in Hub
    BY DEF Hub
  <2> QED BY <2>1 DEF Hub
<1>5. \A s \in Socket \ ss : a[s] = h.access[s] /\ q[s] = h.queue[s] /\ c[s] = h.counted[s]
  BY <1>2
<1> QED BY <1>2, <1>3, <1>4, <1>5

LEMMA BroadcastSends ==
  ASSUME NEW h \in Hub, NEW f \in Frames, NEW to \in SUBSET Socket
  PROVE  Sends(h, Broadcast(h, f, to), f, to)
<1>1. PICK g \in Hub : g = Pushed(h, to, f)
  BY PushedHub
<1>2. Broadcast(h, f, to) = Gone(g, Full(h, to))
  BY <1>1, PushesAll DEF Broadcast, Full
<1>3. Full(h, to) \in SUBSET Socket
  BY DEF Full
<1> PICK b \in Hub : b = Gone(g, Full(h, to))
  BY <1>3, GoneHub
<1>4. /\ b.peers = g.peers \ Full(h, to) /\ b.new = g.new
      /\ \A s \in Socket \ Full(h, to) :
           b.access[s] = g.access[s] /\ b.queue[s] = g.queue[s] /\ b.counted[s] = g.counted[s]
  BY <1>3, GoneHub
<1>5. /\ g.peers = h.peers /\ g.new = h.new /\ g.access = h.access
      /\ \A s \in Socket : g.counted[s] = IF s \in to THEN h.counted[s] + 1 ELSE h.counted[s]
      /\ \A s \in Socket : g.queue[s] = IF s \in to /\ HasSpace(h, s) THEN Append(h.queue[s], f) ELSE h.queue[s]
  BY <1>1 DEF Pushed
<1>6. \A s \in Socket \ Full(h, to) : s \in to => HasSpace(h, s) /\ h.counted[s] <= MaxQueued
  BY DEF Full, HasSpace
<1>7. Sends(h, b, f, to)
  BY <1>4, <1>5, <1>6 DEF Sends
<1> QED BY <1>2, <1>7

-----------------------------------------------------------------------------
(* Of a hub h, whose sockets will be told what is in its queues: each will   *)
(* know who is there and its access, but for those who went as slow and for  *)
(* what it missed; and no queue is longer than what was counted for it.      *)
WithinLimit(h, s) == Len(h.queue[s]) <= h.counted[s] /\ Len(h.queue[s]) <= MaxQueued + 1

Knows(v, h, s, slow, missed) ==
  /\ h.peers \ {s} \subseteq v.roster /\ v.roster \subseteq h.peers \cup slow
  /\ v.access = h.access[s] \/ s \in missed

Right(h, slow, missed) ==
  \A s \in h.peers : WithinLimit(h, s) /\ Knows(Reads(told[s], h.queue[s]), h, s, slow, missed)

(* Nothing was sent to a socket that has yet to join.                        *)
UnsentTo(h) == \A s \in h.new : s \notin h.peers /\ h.queue[s] = << >> /\ h.counted[s] = 0

FramesInv ==
  /\ FramesTypeOK /\ UnsentTo(hub) /\ Right(hub, unsaid.slow, unsaid.missed)
  /\ \A s \in hub.new : told[s] = Nothing

LEMMA SentOn ==
  ASSUME told \in [Socket -> View], NEW h \in Hub, NEW b, NEW f \in Frames, NEW to \in SUBSET Socket,
         Sends(h, b, f, to), NEW s \in b.peers
  PROVE  /\ s \in h.peers /\ s \in Socket /\ b.access[s] = h.access[s]
         /\ Reads(told[s], h.queue[s]) \in View
         /\ WithinLimit(h, s) => WithinLimit(b, s)
         /\ Reads(told[s], b.queue[s])
              = IF s \in to THEN Told(Reads(told[s], h.queue[s]), f) ELSE Reads(told[s], h.queue[s])
<1>1. s \in h.peers /\ s \in Socket /\ s \notin Full(h, to)
  BY DEF Sends, Hub
<1>2. h.queue[s] \in Seq(Frames) /\ h.counted[s] \in Nat /\ told[s] \in View
  BY <1>1 DEF Hub
<1>3. CASE s \in to
  <2>1. b.queue[s] = Append(h.queue[s], f) /\ b.counted[s] = h.counted[s] + 1 /\ h.counted[s] <= MaxQueued
        /\ b.access[s] = h.access[s]
    BY <1>1, <1>3 DEF Sends
  <2>2. Len(b.queue[s]) = Len(h.queue[s]) + 1 /\ Len(h.queue[s]) \in Nat
    BY <1>2, <2>1
  <2>3. WithinLimit(h, s) => WithinLimit(b, s)
    <3>1. PICK l \in Nat, k \in Nat, m \in Nat : l = Len(h.queue[s]) /\ k = h.counted[s] /\ m = MaxQueued
      BY <1>2, <2>2, FramesAssumption
    <3>2. l <= k /\ k <= m => l + 1 <= k + 1 /\ l + 1 <= m + 1
      BY <3>1
    <3> QED BY <2>1, <2>2, <3>1, <3>2 DEF WithinLimit
  <2> QED BY <1>1, <1>2, <1>3, <2>1, <2>3, ReadsMore, ReadsView
<1>4. CASE s \notin to
  <2>1. b.queue[s] = h.queue[s] /\ b.counted[s] = h.counted[s] /\ b.access[s] = h.access[s]
    BY <1>1, <1>4 DEF Sends
  <2> QED BY <1>1, <1>2, <1>4, <2>1, ReadsView DEF WithinLimit
<1> QED BY <1>3, <1>4

(* A step that leaves the hub as h, and leaves those out of the room with    *)
(* nothing.                                                                  *)
LEMMA BecomesKeeps ==
  ASSUME FramesInv, NEW h \in Hub, NEW announced, Becomes(h, announced), news' \in Nat,
         h.new \subseteq hub.new, UnsentTo(h),
         Right(h, unsaid.slow \cup ((hub.peers \ h.peers) \ announced), unsaid.missed)
  PROVE  FramesInv'
<1>1. hub' = h /\ told' = [s \in Socket |-> IF s \in h.peers THEN told[s] ELSE Nothing]
      /\ unsaid' = [slow |-> unsaid.slow \cup ((hub.peers \ h.peers) \ announced),
                    missed |-> unsaid.missed \cap h.peers]
  BY DEF Becomes
<1>2. h.peers \in SUBSET Socket /\ h.new \in SUBSET Socket /\ hub.peers \in SUBSET Socket /\ Nothing \in View
      /\ told \in [Socket -> View] /\ unsaid \in [slow : SUBSET Socket, missed : SUBSET Socket]
  BY DEF FramesInv, FramesTypeOK, Hub, Nothing, View, Access
<1>3. FramesTypeOK'
  BY <1>1, <1>2 DEF FramesTypeOK
<1>4. \A s \in h.peers : told'[s] = told[s] /\ (s \in unsaid.missed => s \in unsaid'.missed)
  BY <1>1, <1>2
<1>5. Right(hub, unsaid.slow, unsaid.missed)'
  <2> SUFFICES ASSUME NEW s \in h.peers
               PROVE  WithinLimit(h, s) /\ Knows(Reads(told'[s], h.queue[s]), h, s, unsaid'.slow, unsaid'.missed)
    BY <1>1 DEF Right, WithinLimit, Knows
  <2>1. WithinLimit(h, s) /\ Knows(Reads(told[s], h.queue[s]), h, s,
                            unsaid.slow \cup ((hub.peers \ h.peers) \ announced), unsaid.missed)
    BY DEF Right
  <2> QED BY <1>1, <1>4, <2>1 DEF Knows
<1>6. UnsentTo(hub)'
  BY <1>1 DEF UnsentTo
<1>7. \A s \in hub'.new : told'[s] = Nothing
  BY <1>1, <1>2 DEF UnsentTo
<1> QED BY <1>3, <1>5, <1>6, <1>7 DEF FramesInv

(* The rest of the room hears of one that goes.                              *)
Left(h, gone) ==
  /\ h \in Hub /\ h.new = hub.new /\ h.peers \subseteq hub.peers \ gone /\ UnsentTo(h)
  /\ Right(h, unsaid.slow \cup ((hub.peers \ h.peers) \ gone), unsaid.missed)

LEMMA OutHub ==
  ASSUME NEW h \in Hub, NEW t \in Socket
  PROVE  /\ Gone(h, {t}) \in Hub /\ Frame("left", {t}, "read") \in Frames /\ h.peers \ {t} \in SUBSET Socket
         /\ Sends(Gone(h, {t}), Out(h, t), Frame("left", {t}, "read"), h.peers \ {t})
         /\ Out(h, t) \in Hub
<1>1. Gone(h, {t}) \in Hub
  BY GoneHub
<1>2. Frame("left", {t}, "read") \in Frames /\ h.peers \ {t} \in SUBSET Socket
  BY DEF Frame, Frames, Access, Hub
<1>3. Sends(Gone(h, {t}), Out(h, t), Frame("left", {t}, "read"), h.peers \ {t})
  BY <1>1, <1>2, BroadcastSends DEF Out
<1> QED BY <1>1, <1>2, <1>3 DEF Sends

LEMMA OutLeft ==
  ASSUME FramesInv, NEW gone \in SUBSET hub.peers, NEW t \in hub.peers \ gone, NEW h, Left(h, gone)
  PROVE  Left(Out(h, t), gone \cup {t})
<1>1. h \in Hub /\ h.new = hub.new /\ h.peers \subseteq hub.peers \ gone /\ UnsentTo(h) /\ t \in Socket
      /\ hub.peers \in SUBSET Socket /\ told \in [Socket -> View]
  BY DEF Left, FramesInv, FramesTypeOK, Hub
<1> PICK f \in Frames, to \in SUBSET Socket : f = Frame("left", {t}, "read") /\ to = h.peers \ {t}
  BY <1>1, OutHub
<1>2. PICK g \in Hub : g = Gone(h, {t})
  BY <1>1, GoneHub
<1>3. PICK b \in Hub : b = Out(h, t)
  BY <1>1, OutHub
<1>4. Sends(g, b, f, to)
  BY <1>1, <1>2, <1>3, OutHub
<1>5. /\ g.peers = h.peers \ {t} /\ g.new = h.new
      /\ \A s \in Socket \ {t} : g.access[s] = h.access[s] /\ g.queue[s] = h.queue[s] /\ g.counted[s] = h.counted[s]
  BY <1>1, <1>2, GoneHub
<1>6. b.new = hub.new /\ b.peers \subseteq h.peers \ {t}
  BY <1>1, <1>4, <1>5 DEF Sends
<1>7. UnsentTo(b)
  <2> SUFFICES ASSUME NEW s \in hub.new PROVE s \notin b.peers /\ b.queue[s] = << >> /\ b.counted[s] = 0
    BY <1>6 DEF UnsentTo
  <2>1. s \notin h.peers /\ h.queue[s] = << >> /\ h.counted[s] = 0 /\ s \in Socket /\ s # t
    BY <1>1 DEF UnsentTo, FramesInv, Hub
  <2>2. s \notin to /\ s \in Socket \ Full(g, to)
    BY <2>1 DEF Full
  <2> QED BY <1>4, <1>5, <1>6, <2>1, <2>2 DEF Sends
<1>8. Right(b, unsaid.slow \cup ((hub.peers \ b.peers) \ (gone \cup {t})), unsaid.missed)
  <2> SUFFICES ASSUME NEW s \in b.peers
               PROVE  /\ WithinLimit(b, s)
                      /\ Knows(Reads(told[s], b.queue[s]), b, s,
                               unsaid.slow \cup ((hub.peers \ b.peers) \ (gone \cup {t})), unsaid.missed)
    BY DEF Right
  <2>1. s \in h.peers /\ s # t /\ s \in to /\ s \in Socket
    BY <1>1, <1>6
  <2>2. /\ b.access[s] = g.access[s] /\ Reads(told[s], g.queue[s]) \in View
        /\ WithinLimit(g, s) => WithinLimit(b, s)
        /\ Reads(told[s], b.queue[s]) = Told(Reads(told[s], g.queue[s]), f)
    <3>1. told \in [Socket -> View]
      BY <1>1
    <3>2. /\ s \in g.peers /\ s \in Socket /\ b.access[s] = g.access[s]
          /\ Reads(told[s], g.queue[s]) \in View
          /\ WithinLimit(g, s) => WithinLimit(b, s)
          /\ Reads(told[s], b.queue[s])
               = IF s \in to THEN Told(Reads(told[s], g.queue[s]), f) ELSE Reads(told[s], g.queue[s])
      BY ONLY <1>4, <3>1, SentOn, g \in Hub, f \in Frames, to \in SUBSET Socket, s \in b.peers
    <3> QED BY ONLY <2>1, <3>2
  <2>3. g.access[s] = h.access[s] /\ g.queue[s] = h.queue[s] /\ g.counted[s] = h.counted[s]
    BY <1>5, <2>1
  <2>4. WithinLimit(h, s) /\ Knows(Reads(told[s], h.queue[s]), h, s,
                            unsaid.slow \cup ((hub.peers \ h.peers) \ gone), unsaid.missed)
    BY <2>1 DEF Left, Right
  <2>5. PICK v \in View : v = Reads(told[s], h.queue[s])
    BY <2>2, <2>3
  <2>6. Told(v, f) = [v EXCEPT !.roster = v.roster \ {t}]
    BY DEF Told, Frame
  <2>7. Told(v, f).roster = v.roster \ {t} /\ Told(v, f).access = v.access
    BY <2>6 DEF View
  <2>8. b.peers \ {s} \subseteq v.roster \ {t}
    BY <1>6, <2>4, <2>5 DEF Knows
  <2>9. v.roster \ {t} \subseteq b.peers \cup (unsaid.slow \cup ((hub.peers \ b.peers) \ (gone \cup {t})))
    BY <1>1, <1>6, <2>4, <2>5 DEF Knows
  <2>10. v.access = b.access[s] \/ s \in unsaid.missed
    BY <2>2, <2>3, <2>4, <2>5 DEF Knows
  <2>11. WithinLimit(b, s)
    BY <2>2, <2>3, <2>4 DEF WithinLimit
  <2> QED BY <2>2, <2>3, <2>5, <2>7, <2>8, <2>9, <2>10, <2>11 DEF Knows
<1>9. b.peers \subseteq hub.peers \ (gone \cup {t})
  BY <1>1, <1>6
<1> QED BY <1>3, <1>6, <1>7, <1>8, <1>9 DEF Left

LEMMA OutAll ==
  ASSUME FramesInv, NEW gone \in SUBSET hub.peers
  PROVE  Left(FoldSet(LAMBDA s, h : Out(h, s), hub, gone), gone)
<1> DEFINE G == [p \in gone \X Hub |-> Out(p[2], p[1])]
           Runs(j) == j = [x \in SUBSET gone |-> IF x = {} THEN hub ELSE Out(j[x \ {Pick(x)}], Pick(x))]
<1>1. hub \in Hub /\ hub.peers \in SUBSET Socket /\ IsFiniteSet(gone)
  <2>1. hub \in Hub /\ hub.peers \in SUBSET Socket
    BY DEF FramesInv, FramesTypeOK, Hub
  <2> QED BY <2>1, FS_Subset, FramesAssumption
<1>2. G \in [gone \X Hub -> Hub]
  BY <1>1, OutHub
<1>3. \A s \in gone, h \in Hub : G[<<s, h>>] = Out(h, s)
  OBVIOUS
<1> HIDE DEF G
<1>4. PICK it \in [SUBSET gone -> Hub] : IsFold(it, hub, G, gone)
  BY <1>1, <1>2, FoldExists
<1>5. \A x \in SUBSET gone : x # {} => Pick(x) \in x /\ Pick(x) \in gone /\ x \ {Pick(x)} \in SUBSET gone
  BY PickIn
<1>6. Runs(it)
  BY <1>3, <1>4, <1>5 DEF IsFold
<1>7. \E j : Runs(j)
  BY <1>6
<1>8. PICK j : Runs(j) /\ FoldSet(LAMBDA s, h : Out(h, s), hub, gone) = j[gone]
  BY <1>7 DEF FoldSet, MapThenFoldSet, Pick
<1> DEFINE Q == {x \in SUBSET gone : Left(j[x], x)}
<1>9. {} \in Q
  <2>1. j[{}] = hub
    BY <1>8
  <2>2. Right(hub, unsaid.slow \cup ((hub.peers \ hub.peers) \ {}), unsaid.missed)
    <3>1. unsaid.slow \cup ((hub.peers \ hub.peers) \ {}) = unsaid.slow
      OBVIOUS
    <3> QED BY <3>1 DEF FramesInv
  <2>3. Left(hub, {})
    BY <1>1, <2>2 DEF Left, FramesInv
  <2> QED BY <2>1, <2>3
<1>10. ASSUME NEW x \in SUBSET gone, x # {}, x \ {Pick(x)} \in Q PROVE x \in Q
  <2>1. PICK t \in gone : t = Pick(x) /\ t \in x
    BY <1>5, <1>10
  <2>2. j[x] = Out(j[x \ {t}], t) /\ Left(j[x \ {t}], x \ {t})
    BY <1>8, <1>10, <2>1
  <2>3. x \ {t} \in SUBSET hub.peers /\ t \in hub.peers \ (x \ {t}) /\ (x \ {t}) \cup {t} = x
    BY <2>1
  <2>4. Left(Out(j[x \ {t}], t), (x \ {t}) \cup {t})
    BY <2>2, <2>3, OutLeft
  <2> QED BY <2>2, <2>3, <2>4
<1>11. Q = SUBSET gone
  <2>1. Q \in SUBSET (SUBSET gone)
    OBVIOUS
  <2> HIDE DEF Q
  <2> QED BY <2>1, <1>1, <1>9, <1>10, FoldInduction
<1> QED BY <1>8, <1>11

LEMMA NobodyLeft == ASSUME FramesInv PROVE Left(hub, {})
<1>1. unsaid.slow \cup ((hub.peers \ hub.peers) \ {}) = unsaid.slow
  OBVIOUS
<1> QED BY <1>1 DEF Left, FramesInv, FramesTypeOK

LEMMA LeftKeeps ==
  ASSUME FramesInv, NEW h, NEW gone, Left(h, gone), Becomes(h, gone), news' = news
  PROVE  FramesInv'
<1>1. h \in Hub /\ h.new \subseteq hub.new /\ UnsentTo(h) /\ news' \in Nat
      /\ Right(h, unsaid.slow \cup ((hub.peers \ h.peers) \ gone), unsaid.missed)
  BY DEF Left, FramesInv, FramesTypeOK
<1> QED BY <1>1, BecomesKeeps

LEMMA EvictKeeps == ASSUME FramesInv, NEW gone \in SUBSET hub.peers, Evict(gone) PROVE FramesInv'
<1> PICK h : h = FoldSet(LAMBDA s, g : Out(g, s), hub, gone)
  OBVIOUS
<1>1. Left(h, gone)
  BY OutAll
<1>2. Becomes(h, gone) /\ news' = news
  BY DEF Evict
<1> QED BY <1>1, <1>2, LeftKeeps

LEMMA LeaveRoomKeeps == ASSUME FramesInv, NEW s \in Socket, LeaveRoom(s) PROVE FramesInv'
<1>1. s \in hub.peers /\ Becomes(Out(hub, s), {s}) /\ news' = news
  BY DEF LeaveRoom, Out
<1>2. Left(Out(hub, s), {} \cup {s}) /\ {} \cup {s} = {s}
  BY <1>1, NobodyLeft, OutLeft
<1> QED BY <1>1, <1>2, LeftKeeps

(* A frame of which a client only passes on the content.                     *)
LEMMA RelayKeeps == ASSUME FramesInv, NEW s \in Socket, Relay(s) PROVE FramesInv'
<1>1. PICK to \in SUBSET hub.peers : Becomes(Broadcast(hub, Frame("data", {s}, "read"), to), {}) /\ news' = news
  BY DEF Relay
<1>2. hub \in Hub /\ hub.peers \in SUBSET Socket /\ told \in [Socket -> View] /\ news \in Nat /\ to \in SUBSET Socket
  BY DEF FramesInv, FramesTypeOK, Hub
<1> PICK f \in Frames : f = Frame("data", {s}, "read")
  BY DEF Frame, Frames, Access
<1> PICK b : b = Broadcast(hub, f, to)
  OBVIOUS
<1>3. Sends(hub, b, f, to)
  BY <1>2, BroadcastSends
<1>4. b \in Hub /\ b.new = hub.new /\ b.peers \subseteq hub.peers
  BY <1>3 DEF Sends
<1>5. UnsentTo(b)
  <2> SUFFICES ASSUME NEW t \in hub.new PROVE t \notin b.peers /\ b.queue[t] = << >> /\ b.counted[t] = 0
    BY <1>4 DEF UnsentTo
  <2>1. t \notin hub.peers /\ hub.queue[t] = << >> /\ hub.counted[t] = 0 /\ t \in Socket
    BY <1>2 DEF UnsentTo, FramesInv, Hub
  <2>2. t \notin to /\ t \in Socket \ Full(hub, to)
    BY <2>1 DEF Full
  <2> QED BY <1>3, <1>4, <2>1, <2>2 DEF Sends
<1>6. Right(b, unsaid.slow \cup ((hub.peers \ b.peers) \ {}), unsaid.missed)
  <2> SUFFICES ASSUME NEW t \in b.peers
               PROVE  /\ WithinLimit(b, t)
                      /\ Knows(Reads(told[t], b.queue[t]), b, t,
                               unsaid.slow \cup ((hub.peers \ b.peers) \ {}), unsaid.missed)
    BY DEF Right
  <2>1. /\ t \in hub.peers /\ b.access[t] = hub.access[t] /\ Reads(told[t], hub.queue[t]) \in View
        /\ WithinLimit(hub, t) => WithinLimit(b, t)
        /\ Reads(told[t], b.queue[t])
             = IF t \in to THEN Told(Reads(told[t], hub.queue[t]), f) ELSE Reads(told[t], hub.queue[t])
    BY <1>2, <1>3, SentOn
  <2>2. WithinLimit(hub, t) /\ Knows(Reads(told[t], hub.queue[t]), hub, t, unsaid.slow, unsaid.missed)
    BY <2>1 DEF FramesInv, Right
  <2>3. \A v \in View : Told(v, f) = v
    BY DEF Told, Frame
  <2>4. Reads(told[t], b.queue[t]) = Reads(told[t], hub.queue[t])
    BY <2>1, <2>3
  <2> QED BY <1>4, <2>1, <2>2, <2>4 DEF Knows
<1> QED BY <1>1, <1>2, <1>4, <1>5, <1>6, BecomesKeeps

LEMMA DeliverKeeps == ASSUME FramesInv, NEW s \in Socket, Deliver(s) PROVE FramesInv'
<1>1. /\ s \in hub.peers /\ hub.queue[s] # << >>
      /\ hub' = [hub EXCEPT !.queue[s] = Tail(@), !.counted[s] = @ - 1]
      /\ told' = [told EXCEPT ![s] = Told(@, Head(hub.queue[s]))]
      /\ UNCHANGED <<news, unsaid>>
  BY DEF Deliver
<1>2. /\ hub \in Hub /\ told \in [Socket -> View] /\ news \in Nat
      /\ unsaid \in [slow : SUBSET Socket, missed : SUBSET Socket]
      /\ UnsentTo(hub) /\ Right(hub, unsaid.slow, unsaid.missed)
  BY DEF FramesInv, FramesTypeOK
<1>3. hub.queue[s] \in Seq(Frames) /\ hub.counted[s] \in Nat /\ Len(hub.queue[s]) \in Nat
  BY <1>2 DEF Hub
<1>4. /\ Tail(hub.queue[s]) \in Seq(Frames) /\ Len(Tail(hub.queue[s])) = Len(hub.queue[s]) - 1
      /\ Len(hub.queue[s]) >= 1 /\ Head(hub.queue[s]) \in Frames
  BY <1>1, <1>3
<1>5. WithinLimit(hub, s)
  BY <1>1, <1>2 DEF Right
<1>6. hub.counted[s] - 1 \in Nat /\ Len(hub.queue[s]) - 1 <= hub.counted[s] - 1 /\ Len(hub.queue[s]) - 1 <= MaxQueued + 1
  <2>1. PICK l \in Nat, k \in Nat, m \in Nat : l = Len(hub.queue[s]) /\ k = hub.counted[s] /\ m = MaxQueued
    BY <1>3, FramesAssumption
  <2>2. 1 <= l /\ l <= k /\ l <= m + 1
    BY <1>4, <1>5, <2>1 DEF WithinLimit
  <2>3. k - 1 \in Nat /\ l - 1 <= k - 1 /\ l - 1 <= m + 1
    BY <2>2
  <2> QED BY <2>1, <2>3
<1>7. /\ hub' \in Hub /\ hub'.peers = hub.peers /\ hub'.new = hub.new /\ hub'.access = hub.access
      /\ hub'.queue[s] = Tail(hub.queue[s]) /\ hub'.counted[s] = hub.counted[s] - 1
      /\ \A t \in Socket \ {s} : hub'.queue[t] = hub.queue[t] /\ hub'.counted[t] = hub.counted[t]
  <2> PICK q \in [Socket -> Seq(Frames)] : q = [hub.queue EXCEPT ![s] = Tail(@)]
    BY <1>2, <1>4 DEF Hub
  <2> PICK c \in [Socket -> Nat] : c = [hub.counted EXCEPT ![s] = @ - 1]
    BY <1>2, <1>6 DEF Hub
  <2>1. hub' = [hub EXCEPT !.queue = q, !.counted = c]
    BY <1>1, <1>2 DEF Hub
  <2>2. hub' \in Hub /\ hub'.peers = hub.peers /\ hub'.new = hub.new /\ hub'.access = hub.access
        /\ hub'.queue = q /\ hub'.counted = c
    BY <1>2, <2>1 DEF Hub
  <2>3. q[s] = Tail(hub.queue[s]) /\ c[s] = hub.counted[s] - 1
        /\ \A t \in Socket \ {s} : q[t] = hub.queue[t] /\ c[t] = hub.counted[t]
    BY <1>2 DEF Hub
  <2> QED BY <2>2, <2>3
<1>8. Told(told[s], Head(hub.queue[s])) \in View /\ told[s] \in View
  BY <1>2, <1>4, ToldView
<1>9. told' \in [Socket -> View] /\ told'[s] = Told(told[s], Head(hub.queue[s]))
      /\ \A t \in Socket \ {s} : told'[t] = told[t]
  BY <1>1, <1>2, <1>8
<1>10. FramesTypeOK'
  BY <1>1, <1>2, <1>7, <1>9 DEF FramesTypeOK
<1>11. \A t \in hub.new : t \in Socket \ {s}
  BY <1>1, <1>2 DEF UnsentTo, Hub
<1>12. UnsentTo(hub)' /\ \A t \in hub'.new : told'[t] = Nothing
  BY <1>2, <1>7, <1>9, <1>11 DEF UnsentTo, FramesInv
<1>13. Reads(told'[s], hub'.queue[s]) = Reads(told[s], hub.queue[s])
  BY <1>1, <1>3, <1>7, <1>8, <1>9, ReadsOn
<1>14. Right(hub, unsaid.slow, unsaid.missed)'
  <2> SUFFICES ASSUME NEW t \in hub.peers
               PROVE  WithinLimit(hub', t) /\ Knows(Reads(told'[t], hub'.queue[t]), hub', t, unsaid.slow, unsaid.missed)
    BY <1>1, <1>7 DEF Right, WithinLimit, Knows
  <2>1. WithinLimit(hub, t) /\ Knows(Reads(told[t], hub.queue[t]), hub, t, unsaid.slow, unsaid.missed) /\ t \in Socket
    BY <1>2 DEF Right, Hub
  <2>2. CASE t = s
    BY <1>4, <1>6, <1>7, <1>13, <2>1, <2>2 DEF WithinLimit, Knows
  <2>3. CASE t # s
    BY <1>7, <1>9, <2>1, <2>3 DEF WithinLimit, Knows
  <2> QED BY <2>2, <2>3
<1> QED BY <1>10, <1>12, <1>14 DEF FramesInv

LEMMA AccessKeeps == ASSUME FramesInv, AccessChanged PROVE FramesInv'
<1>1. PICK t \in hub.peers, a \in Access :
        LET mine == {s \in hub.peers : Owner[s] = Owner[t] /\ hub.access[s] # a}
            set == [hub EXCEPT !.access = [s \in Socket |-> IF s \in mine THEN a ELSE hub.access[s]]]
        IN /\ hub' = Announced(set, mine, Frame("access", {}, a))
           /\ unsaid' = [unsaid EXCEPT !.missed = @ \cup {s \in mine : ~HasSpace(hub, s)}]
           /\ news' = news + 1 /\ UNCHANGED told
  BY DEF AccessChanged, Announced
<1>2. /\ hub \in Hub /\ told \in [Socket -> View] /\ news \in Nat /\ hub.peers \in SUBSET Socket
      /\ unsaid \in [slow : SUBSET Socket, missed : SUBSET Socket]
      /\ UnsentTo(hub) /\ Right(hub, unsaid.slow, unsaid.missed)
  BY DEF FramesInv, FramesTypeOK, Hub
<1> PICK mine \in SUBSET hub.peers : mine = {s \in hub.peers : Owner[s] = Owner[t] /\ hub.access[s] # a}
  OBVIOUS
<1> PICK as \in [Socket -> Access] : as = [s \in Socket |-> IF s \in mine THEN a ELSE hub.access[s]]
  BY <1>2 DEF Hub
<1> PICK f \in Frames : f = Frame("access", {}, a)
  BY DEF Frame, Frames
<1>3. PICK g \in Hub : /\ g = [hub EXCEPT !.access = as]
                       /\ g.peers = hub.peers /\ g.new = hub.new /\ g.access = as
                       /\ g.queue = hub.queue /\ g.counted = hub.counted
  <2>1. [hub EXCEPT !.access = as] \in Hub
    BY <1>2 DEF Hub
  <2> QED BY <1>2, <2>1 DEF Hub
<1>4. /\ hub' = Announced(g, mine, f)
      /\ unsaid' = [unsaid EXCEPT !.missed = unsaid.missed \cup {s \in mine : ~HasSpace(hub, s)}]
      /\ news' = news + 1 /\ told' = told
  BY <1>1, <1>3
<1>5. hub' = Pushed(g, mine, f) /\ hub' \in Hub
  BY <1>2, <1>4, AnnouncedToAll
<1>6. /\ hub'.peers = hub.peers /\ hub'.new = hub.new /\ hub'.access = as
      /\ \A s \in Socket : hub'.counted[s] = IF s \in mine THEN hub.counted[s] + 1 ELSE hub.counted[s]
      /\ \A s \in Socket : hub'.queue[s] = IF s \in mine /\ HasSpace(hub, s)
                                           THEN Append(hub.queue[s], f) ELSE hub.queue[s]
  BY <1>3, <1>5 DEF Pushed, HasSpace
<1>7. unsaid' \in [slow : SUBSET Socket, missed : SUBSET Socket] /\ unsaid'.slow = unsaid.slow
      /\ unsaid'.missed = unsaid.missed \cup {s \in mine : ~HasSpace(hub, s)}
  BY <1>2, <1>4
<1>8. FramesTypeOK'
  BY <1>2, <1>4, <1>5, <1>7 DEF FramesTypeOK
<1>9. \A s \in hub.new : s \in Socket /\ s \notin mine
  BY <1>2 DEF UnsentTo, Hub
<1>10. UnsentTo(hub)' /\ \A s \in hub'.new : told'[s] = Nothing
  BY <1>2, <1>4, <1>6, <1>9, ZenonT(60) DEF UnsentTo, FramesInv
<1>11. Right(hub, unsaid.slow, unsaid.missed)'
  <2> SUFFICES ASSUME NEW s \in hub.peers
               PROVE  WithinLimit(hub', s) /\ Knows(Reads(told[s], hub'.queue[s]), hub', s, unsaid'.slow, unsaid'.missed)
    <3>1. told' = told /\ hub'.peers = hub.peers
      BY <1>4, <1>6
    <3> QED BY <3>1 DEF Right
  <2>1. WithinLimit(hub, s) /\ Knows(Reads(told[s], hub.queue[s]), hub, s, unsaid.slow, unsaid.missed) /\ s \in Socket
    BY <1>2 DEF Right, Hub
  <2>2. hub.queue[s] \in Seq(Frames) /\ hub.counted[s] \in Nat /\ told[s] \in View
    BY <1>2, <2>1 DEF Hub
  <2>3. PICK v \in View : v = Reads(told[s], hub.queue[s])
    BY <2>2, ReadsView
  <2>4. PICK l \in Nat, k \in Nat, m \in Nat : l = Len(hub.queue[s]) /\ k = hub.counted[s] /\ m = MaxQueued
    BY <2>2, FramesAssumption
  <2>5. l <= k /\ l <= m + 1
    BY <2>1, <2>4 DEF WithinLimit
  <2>6. CASE s \notin mine
    <3>1. hub'.queue[s] = hub.queue[s] /\ hub'.counted[s] = hub.counted[s] /\ hub'.access[s] = hub.access[s]
      BY <1>6, <2>1, <2>6
    <3> QED BY <1>6, <1>7, <2>1, <3>1 DEF WithinLimit, Knows
  <2>7. CASE s \in mine /\ HasSpace(hub, s)
    <3>1. hub'.queue[s] = Append(hub.queue[s], f) /\ hub'.counted[s] = k + 1 /\ hub'.access[s] = a
      BY <1>6, <2>1, <2>4, <2>7
    <3>2. Len(hub'.queue[s]) = l + 1 /\ k <= m
      BY <2>2, <2>4, <2>7, <3>1 DEF HasSpace
    <3>3. l + 1 <= k + 1 /\ l + 1 <= m + 1
      BY <2>5, <3>2
    <3>4. WithinLimit(hub', s)
      BY <2>4, <3>1, <3>2, <3>3 DEF WithinLimit
    <3>5. Reads(told[s], hub'.queue[s]) = Told(v, f)
      BY <2>2, <2>3, <3>1, ReadsMore
    <3>6. Told(v, f) = [v EXCEPT !.access = a]
      BY DEF Told, Frame
    <3>7. Told(v, f).roster = v.roster /\ Told(v, f).access = a
      BY <3>6 DEF View
    <3> QED BY <1>6, <1>7, <2>1, <2>3, <3>1, <3>4, <3>5, <3>7 DEF Knows
  <2>8. CASE s \in mine /\ ~HasSpace(hub, s)
    <3>1. hub'.queue[s] = hub.queue[s] /\ hub'.counted[s] = k + 1 /\ s \in unsaid'.missed
      BY <1>6, <1>7, <2>1, <2>4, <2>8
    <3>2. l <= k + 1
      BY <2>5
    <3>3. WithinLimit(hub', s)
      BY <2>4, <2>5, <3>1, <3>2 DEF WithinLimit
    <3> QED BY <1>6, <1>7, <2>1, <3>1, <3>3 DEF Knows
  <2> QED BY <2>6, <2>7, <2>8
<1> QED BY <1>8, <1>10, <1>11 DEF FramesInv

LEMMA JoinKeepsRoom == ASSUME FramesInv, NEW s \in Socket, JoinRoom(s) PROVE FramesInv'
<1>1. PICK a \in Access :
        /\ s \in hub.new /\ news' = news
        /\ LET welcomed == Push([hub EXCEPT !.new = @ \ {s}, !.access[s] = a],
                                s, Frame("welcome", hub.peers, a))
               there == Broadcast(welcomed, Frame("joined", {s}, a), hub.peers)
           IN Becomes([there EXCEPT !.peers = @ \cup {s}], {})
  BY DEF JoinRoom
<1>2. /\ hub \in Hub /\ told \in [Socket -> View] /\ news \in Nat /\ hub.peers \in SUBSET Socket
      /\ UnsentTo(hub) /\ Right(hub, unsaid.slow, unsaid.missed) /\ told[s] = Nothing
      /\ s \notin hub.peers /\ hub.queue[s] = << >> /\ hub.counted[s] = 0
  BY <1>1 DEF FramesInv, FramesTypeOK, Hub, UnsentTo
<1> PICK hello \in Frames : hello = Frame("welcome", hub.peers, a)
  BY <1>2 DEF Frame, Frames
<1> PICK f \in Frames : f = Frame("joined", {s}, a)
  BY DEF Frame, Frames
<1> PICK to \in SUBSET Socket : to = hub.peers
  BY <1>2
<1>3. PICK g \in Hub : /\ g = [hub EXCEPT !.new = @ \ {s}, !.access[s] = a]
                       /\ g.peers = hub.peers /\ g.new = hub.new \ {s}
                       /\ g.access[s] = a /\ \A t \in Socket \ {s} : g.access[t] = hub.access[t]
                       /\ g.queue = hub.queue /\ g.counted = hub.counted
  <2> PICK as \in [Socket -> Access] : as = [hub.access EXCEPT ![s] = a]
    BY <1>2 DEF Hub
  <2> PICK new \in SUBSET Socket : new = hub.new \ {s}
    BY <1>2 DEF Hub
  <2>1. [hub EXCEPT !.new = @ \ {s}, !.access[s] = a] = [hub EXCEPT !.new = new, !.access = as]
    BY <1>2 DEF Hub
  <2>2. PICK g \in Hub : /\ g = [hub EXCEPT !.new = new, !.access = as]
                         /\ g.peers = hub.peers /\ g.new = new /\ g.access = as
                         /\ g.queue = hub.queue /\ g.counted = hub.counted
    <3>1. [hub EXCEPT !.new = new, !.access = as] \in Hub
      BY <1>2 DEF Hub
    <3> QED BY <1>2, <3>1 DEF Hub
  <2>3. as[s] = a /\ \A t \in Socket \ {s} : as[t] = hub.access[t]
    BY <1>2 DEF Hub
  <2> QED BY <2>1, <2>2, <2>3
<1>4. PICK w \in Hub : w = Push(g, s, hello) /\ w = Pushed(g, {s}, hello)
  BY PushesOne, PushedHub
<1>5. HasSpace(g, s)
  BY <1>2, <1>3, FramesAssumption DEF HasSpace
<1>6. /\ w.peers = hub.peers /\ w.new = hub.new \ {s}
      /\ w.access[s] = a /\ w.queue[s] = Append(<< >>, hello) /\ w.counted[s] = 1
      /\ \A t \in Socket \ {s} : /\ w.access[t] = hub.access[t] /\ w.queue[t] = hub.queue[t]
                                 /\ w.counted[t] = hub.counted[t]
  <2>1. /\ w.peers = g.peers /\ w.new = g.new /\ w.access = g.access
        /\ \A t \in Socket : w.counted[t] = IF t \in {s} THEN g.counted[t] + 1 ELSE g.counted[t]
        /\ \A t \in Socket : w.queue[t] = IF t \in {s} /\ HasSpace(g, t) THEN Append(g.queue[t], hello)
                                          ELSE g.queue[t]
    BY <1>4, PushedFields
  <2>2. w.queue[s] = Append(<< >>, hello)
    BY <1>2, <1>3, <1>5, <2>1, ZenonT(60)
  <2>3. w.counted[s] = 1
    BY <1>2, <1>3, <2>1
  <2> QED BY <1>3, <2>1, <2>2, <2>3
<1> PICK b : b = Broadcast(w, f, to)
  OBVIOUS
<1>7. Sends(w, b, f, to)
  BY BroadcastSends
<1>8. b \in Hub /\ b.new = hub.new \ {s} /\ b.peers \subseteq hub.peers
  BY <1>6, <1>7 DEF Sends
<1>9. s \notin to /\ s \in Socket \ Full(w, to)
  BY <1>2 DEF Full
<1>10. b.access[s] = a /\ b.queue[s] = Append(<< >>, hello) /\ b.counted[s] = 1
  BY <1>6, <1>7, <1>9 DEF Sends
<1>11. PICK h \in Hub : /\ h = [b EXCEPT !.peers = @ \cup {s}]
                        /\ h.peers = b.peers \cup {s} /\ h.new = b.new /\ h.access = b.access
                        /\ h.queue = b.queue /\ h.counted = b.counted
  <2> PICK ps \in SUBSET Socket : ps = b.peers \cup {s}
    BY <1>8 DEF Hub
  <2> PICK c \in Hub : c = b
    BY <1>8
  <2> PICK h \in Hub : h = [c EXCEPT !.peers = ps]
    BY ONLY c \in Hub, ps \in SUBSET Socket DEF Hub
  <2>1. h = [b EXCEPT !.peers = @ \cup {s}]
    OBVIOUS
  <2>2. /\ h.peers = ps /\ h.new = c.new /\ h.access = c.access
        /\ h.queue = c.queue /\ h.counted = c.counted
    BY ONLY h = [c EXCEPT !.peers = ps], c \in Hub DEF Hub
  <2> QED BY <2>1, <2>2
<1>12. Becomes(h, {})
  BY <1>1, <1>3, <1>4, <1>11
<1>13. UnsentTo(h)
  <2> SUFFICES ASSUME NEW t \in hub.new \ {s} PROVE t \notin h.peers /\ h.queue[t] = << >> /\ h.counted[t] = 0
    BY <1>8, <1>11 DEF UnsentTo
  <2>1. t \notin hub.peers /\ hub.queue[t] = << >> /\ hub.counted[t] = 0 /\ t \in Socket \ {s}
    BY <1>2 DEF UnsentTo, Hub
  <2>2. t \notin to /\ t \in Socket \ Full(w, to)
    BY <2>1 DEF Full
  <2>3. b.queue[t] = w.queue[t] /\ b.counted[t] = w.counted[t]
    BY <1>7, <2>2 DEF Sends
  <2>4. w.queue[t] = << >> /\ w.counted[t] = 0
    BY <1>6, <2>1
  <2>5. t \notin h.peers
    BY <1>8, <1>11, <2>1
  <2> QED BY <1>11, <2>3, <2>4, <2>5
<1> DEFINE slow == unsaid.slow \cup ((hub.peers \ h.peers) \ {})
<1>14. ASSUME NEW t \in b.peers
       PROVE  WithinLimit(h, t) /\ Knows(Reads(told[t], h.queue[t]), h, t, slow, unsaid.missed)
  <2>1. /\ t \in w.peers /\ t \in Socket /\ b.access[t] = w.access[t] /\ Reads(told[t], w.queue[t]) \in View
        /\ WithinLimit(w, t) => WithinLimit(b, t)
        /\ Reads(told[t], b.queue[t])
             = IF t \in to THEN Told(Reads(told[t], w.queue[t]), f) ELSE Reads(told[t], w.queue[t])
    <3>1. told \in [Socket -> View]
      BY <1>2
    <3> QED BY <3>1, <1>7, SentOn
  <2>2. t \in hub.peers /\ t \in to /\ t # s
    BY <1>2, <1>6, <2>1
  <2>3. WithinLimit(hub, t) /\ Knows(Reads(told[t], hub.queue[t]), hub, t, unsaid.slow, unsaid.missed)
    BY <1>2, <2>2 DEF Right
  <2>4. w.access[t] = hub.access[t] /\ w.queue[t] = hub.queue[t] /\ w.counted[t] = hub.counted[t]
    BY <1>6, <2>1, <2>2
  <2>5. PICK v \in View : v = Reads(told[t], hub.queue[t])
    BY <2>1, <2>4
  <2>6. Told(v, f) = [v EXCEPT !.roster = v.roster \cup {s}]
    BY DEF Told, Frame
  <2>7. Told(v, f).roster = v.roster \cup {s} /\ Told(v, f).access = v.access
    BY <2>6 DEF View
  <2>8. Reads(told[t], h.queue[t]) = Told(v, f)
    BY <1>11, <2>1, <2>2, <2>4, <2>5
  <2>9. h.peers \ {t} \subseteq v.roster \cup {s}
    BY <1>8, <1>11, <2>3, <2>5 DEF Knows
  <2>10. v.roster \cup {s} \subseteq h.peers \cup slow
    BY <1>8, <1>11, <2>3, <2>5 DEF Knows
  <2>11. v.access = h.access[t] \/ t \in unsaid.missed
    BY <1>11, <2>1, <2>3, <2>4, <2>5 DEF Knows
  <2>12. WithinLimit(h, t)
    BY <1>11, <2>1, <2>3, <2>4 DEF WithinLimit
  <2> HIDE DEF slow
  <2> QED BY <2>7, <2>8, <2>9, <2>10, <2>11, <2>12 DEF Knows
<1>15. WithinLimit(h, s) /\ Knows(Reads(told[s], h.queue[s]), h, s, slow, unsaid.missed)
  <2>1. Nothing \in View /\ << >> \in Seq(Frames)
    BY <1>2
  <2>2. Reads(Nothing, Append(<< >>, hello)) = Told(Nothing, hello)
    BY <2>1, ReadsMore, ReadsNone
  <2>3. Told(Nothing, hello) = [roster |-> hub.peers, access |-> a]
    BY DEF Told, Frame
  <2>4. Reads(told[s], h.queue[s]) = [roster |-> hub.peers, access |-> a]
    BY <1>2, <1>10, <1>11, <2>2, <2>3
  <2>5. Len(Append(<< >>, hello)) = 1
    OBVIOUS
  <2>6. 1 <= MaxQueued + 1
    BY FramesAssumption
  <2>7. WithinLimit(h, s)
    <3>1. h.queue[s] = Append(<< >>, hello) /\ h.counted[s] = 1
      BY <1>10, <1>11
    <3>2. Len(h.queue[s]) = 1
      BY <2>5, <3>1
    <3>3. 1 <= 1
      OBVIOUS
    <3> QED BY <2>6, <3>1, <3>2, <3>3 DEF WithinLimit
  <2>8. h.peers \ {s} \subseteq hub.peers /\ hub.peers \subseteq h.peers \cup slow
    BY <1>8, <1>11
  <2> HIDE DEF slow
  <2>9. h.access[s] = a
    BY <1>10, <1>11
  <2> QED BY <2>4, <2>7, <2>8, <2>9 DEF Knows
<1>16. Right(h, slow, unsaid.missed)
  BY <1>11, <1>14, <1>15 DEF Right
<1>17. h.new \subseteq hub.new /\ news' \in Nat
  BY <1>1, <1>2, <1>8, <1>11
<1> QED BY <1>12, <1>13, <1>16, <1>17, BecomesKeeps

-----------------------------------------------------------------------------
LEMMA FramesInitInv == FramesInit => FramesInv
<1> SUFFICES ASSUME FramesInit PROVE FramesInv
  OBVIOUS
<1>1. << >> \in Seq(Frames) /\ "read" \in Access /\ Nothing \in View
  BY DEF Access, View, Nothing
<1>2. hub \in Hub /\ hub.peers = {} /\ hub.new = Socket
      /\ \A s \in Socket : hub.queue[s] = << >> /\ hub.counted[s] = 0
  BY <1>1 DEF FramesInit, Hub
<1>3. told \in [Socket -> View] /\ (\A s \in Socket : told[s] = Nothing) /\ news \in Nat
      /\ unsaid \in [slow : SUBSET Socket, missed : SUBSET Socket]
  BY <1>1 DEF FramesInit
<1> QED BY <1>2, <1>3 DEF FramesInv, FramesTypeOK, UnsentTo, Right

LEMMA FramesStepInv == FramesInv /\ [FramesNext]_frameVars => FramesInv'
<1> SUFFICES ASSUME FramesInv, [FramesNext]_frameVars PROVE FramesInv'
  OBVIOUS
<1>1. CASE UNCHANGED frameVars
  BY <1>1 DEF frameVars, FramesInv, FramesTypeOK, UnsentTo, Right, WithinLimit, Knows
<1>2. ASSUME NEW s \in Socket, JoinRoom(s) \/ LeaveRoom(s) \/ Relay(s) \/ Deliver(s) PROVE FramesInv'
  BY <1>2, JoinKeepsRoom, LeaveRoomKeeps, RelayKeeps, DeliverKeeps
<1>3. CASE EvictAccount
  <2>1. PICK gone \in SUBSET hub.peers : Evict(gone)
    BY <1>3 DEF EvictAccount
  <2> QED BY <2>1, EvictKeeps
<1>4. CASE EvictSession
  <2>1. PICK gone \in SUBSET hub.peers : Evict(gone)
    BY <1>4 DEF EvictSession
  <2> QED BY <2>1, EvictKeeps
<1>5. CASE AccessChanged
  BY <1>5, AccessKeeps
<1> QED BY <1>1, <1>2, <1>3, <1>4, <1>5 DEF FramesNext

(* RosterTold: once its queue is sent, every client in the room knows who is *)
(* there and its own access, but for those removed as slow and for a change  *)
(* that met a full queue, and no queue grows past its limit (join, evict,    *)
(* broadcast, membership_changed).                                           *)
THEOREM RosterStaysTold == FramesSpec => []RosterTold
<1>1. FramesInv => RosterTold
  <2> SUFFICES ASSUME FramesInv, NEW s \in hub.peers
               PROVE  LET v == Reads(told[s], hub.queue[s]) IN
                      /\ hub.peers \ {s} \subseteq v.roster
                      /\ v.roster \subseteq hub.peers \cup unsaid.slow
                      /\ v.access = hub.access[s] \/ s \in unsaid.missed
                      /\ Len(hub.queue[s]) <= MaxQueued + 1
    BY DEF RosterTold, Reads
  <2> QED BY DEF FramesInv, Right, WithinLimit, Knows
<1> QED BY <1>1, FramesInitInv, FramesStepInv, PTL DEF FramesSpec
=============================================================================
