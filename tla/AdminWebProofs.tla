--------------------------- MODULE AdminWebProofs ----------------------------
(***************************************************************************)
(* What the administrator's web service guarantees for any number of        *)
(* requests, sessions, credentials, pairing codes and restarts.             *)
(***************************************************************************)
EXTENDS AdminWeb, TLAPS

SessionRecord ==
    [mustInitialize : BOOLEAN, pending : Credentials, flash : 0..MaxSecrets, born : Nat]
Where == {"idle", "authenticated", "factor", "preparing", "confirming", "saving",
          "replacing", "acting", "finishing"}
RequestRecord ==
    [pc : Where, session : Nat, credential : Credentials, stored : SessionRecord \cup {<<>>},
     secret : 0..MaxSecrets]
SettingUp == {"confirming", "saving", "replacing"}

\* Shapes of the state; the verifier of a credential is never behind its history.
Types ==
    /\ row \in Credentials /\ account \in Credentials
    /\ newest \in [Credentials -> Int] /\ used = newest
    /\ sessions \in [DOMAIN sessions -> SessionRecord]
    /\ step \in Nat
    /\ req \in [Requests -> RequestRecord]
    /\ \A r \in Requests : req[r].pc \in SettingUp => req[r].stored \in SessionRecord
    /\ prepared \in Credentials /\ opened \in Nat /\ issued \in 0..MaxSecrets
    /\ confirmed \subseteq Credentials
    /\ shown \in [1..MaxSecrets -> Nat]
    /\ replaced \in [count : Nat, by : Nat]

\* The console starts well typed.
LEMMA InitTypes == Init => Types
<1> SUFFICES ASSUME Init PROVE Types
  OBVIOUS
<1> USE AdminWebAssumption
<1>1. Idle \in RequestRecord /\ Idle.pc \notin SettingUp
  BY DEF Idle, RequestRecord, Where, SettingUp, Credentials
<1>2. req \in [Requests -> RequestRecord] /\ \A r \in Requests : req[r].pc \notin SettingUp
  BY <1>1 DEF Init
<1>3. newest \in [Credentials -> Int] /\ used = newest
  BY DEF Init, Unarmed
<1>4. sessions \in [DOMAIN sessions -> SessionRecord]
  BY DEF Init
<1>5. shown \in [1..MaxSecrets -> Nat]
  BY DEF Init
<1>6. replaced \in [count : Nat, by : Nat]
  BY DEF Init
<1> QED
  BY <1>2, <1>3, <1>4, <1>5, <1>6 DEF Init, Types, Credentials

\* What a request's own step does to the other requests and to itself.
LEMMA GotoTypes ==
    ASSUME Types, NEW r \in Requests, NEW value \in RequestRecord, Goto(r, value),
           value.pc \in SettingUp => value.stored \in SessionRecord
    PROVE  /\ req' \in [Requests -> RequestRecord]
           /\ \A q \in Requests : req'[q].pc \in SettingUp => req'[q].stored \in SessionRecord
           /\ req'[r] = value /\ \A q \in Requests \ {r} : req'[q] = req[q]
BY DEF Types, Goto

\* A request that has not begun is a request.
LEMMA IdleRecord == Idle \in RequestRecord /\ Idle.pc = "idle"
BY AdminWebAssumption DEF Idle, RequestRecord, Where, Credentials

\* Sessions put, changed or dropped one at a time keep their shape.
LEMMA SessionTypes ==
    ASSUME Types, NEW s, NEW value \in SessionRecord
    PROVE  /\ Put(s, value) \in [DOMAIN sessions \cup {s} -> SessionRecord]
           /\ \A S \in SUBSET DOMAIN sessions :
                Restrict(sessions, S) \in [S -> SessionRecord]
BY DEF Types, Put, Restrict

\* The bounds are naturals, and zero stands for no credential and no code.
LEMMA Bounds ==
    /\ MaxCredentials \in Nat /\ MaxSessions \in Nat /\ MaxSecrets \in Nat
    /\ 0 \in Credentials /\ 0 \in 0..MaxSecrets
BY AdminWebAssumption DEF Credentials

\* The records the handlers build are sessions and requests.
LEMMA PendingSet ==
    ASSUME NEW x \in SessionRecord, NEW c \in Credentials
    PROVE  [x EXCEPT !.pending = c] \in SessionRecord
BY DEF SessionRecord

\* A session that is given a code to show is a session.
LEMMA FlashSet ==
    ASSUME NEW x \in SessionRecord, NEW n \in 0..MaxSecrets
    PROVE  [x EXCEPT !.flash = n] \in SessionRecord
BY DEF SessionRecord

\* So is one whose set-up is confirmed.
LEMMA SessionRestored ==
    ASSUME NEW x \in SessionRecord
    PROVE  [x EXCEPT !.pending = 0, !.flash = 0, !.mustInitialize = FALSE] \in SessionRecord
BY Bounds, Zenon DEF SessionRecord

\* A login at any of its points is a request.
LEMMA LoginRequest ==
    ASSUME NEW w \in Where, NEW c \in Credentials
    PROVE  LET value == [Idle EXCEPT !.pc = w, !.credential = c]
           IN  value \in RequestRecord /\ value.pc = w
BY Bounds, Zenon DEF RequestRecord, Idle

\* So is a request of a session.
LEMMA SessionRequest ==
    ASSUME NEW w \in Where, NEW s \in Nat
    PROVE  LET value == [Idle EXCEPT !.pc = w, !.session = s]
           IN  value \in RequestRecord /\ value.pc = w
BY Bounds, Zenon DEF RequestRecord, Idle

\* A confirmation remembers the session it read and that session's credential.
LEMMA ConfirmRequest ==
    ASSUME NEW s \in Nat, NEW x \in SessionRecord
    PROVE  LET value == [Idle EXCEPT !.pc = "confirming", !.session = s, !.stored = x,
                                     !.credential = x.pending]
           IN  value \in RequestRecord /\ value.stored = x /\ value.credential = x.pending
<1>1. x.pending \in Credentials
  BY DEF SessionRecord
<1> QED
  BY <1>1, Bounds, Zenon DEF RequestRecord, Idle, Where

\* Changing one value of a function keeps its range.
LEMMA Updated ==
    ASSUME NEW f, NEW R, f \in [DOMAIN f -> R], NEW x, NEW v \in R
    PROVE  LET g == [f EXCEPT ![x] = v] IN g \in [DOMAIN g -> R]
BY Zenon

\* Every step of the console keeps the types.
LEMMA StepTypes == Types /\ [Next]_vars => Types'
<1> SUFFICES ASSUME Types, [Next]_vars PROVE Types'
  OBVIOUS
<1>u. CASE UNCHANGED vars
  BY <1>u DEF Types, vars, handlerVars, counters, history
<1>1. CASE Tick
  BY <1>1 DEF Tick, Types, handlerVars, counters, history
<1>2. CASE Restart
  <2>1. req' \in [Requests -> RequestRecord] /\ \A r \in Requests : req'[r].pc \notin SettingUp
    BY <1>2, IdleRecord DEF Restart, SettingUp
  <2>2. newest' \in [Credentials -> Int] /\ used' = newest'
    BY <1>2 DEF Restart, Unarmed
  <2>3. sessions' \in [DOMAIN sessions' -> SessionRecord]
    BY <1>2 DEF Restart, NoSessions, Restrict
  <2> QED
    BY <1>2, <2>1, <2>2, <2>3 DEF Restart, Types
<1>3. ASSUME NEW s \in SessionIds, Logout(s) PROVE Types'
  <2>1. sessions' \in [DOMAIN sessions' -> SessionRecord]
    BY <1>3, SessionTypes DEF Logout, Types, Restrict
  <2> QED
    BY <1>3, <2>1, Zenon DEF Logout, Types, counters, history
<1>4. ASSUME NEW s \in SessionIds, Dashboard(s) PROVE Types'
  <2>1. sessions[s] \in SessionRecord /\ sessions[s].flash \in 1..MaxSecrets
    BY <1>4 DEF Dashboard, MayManage, Live, Types, SessionRecord
  <2>2. sessions' \in [DOMAIN sessions' -> SessionRecord]
    BY <1>4, <2>1, FlashSet, Bounds, Updated, Zenon DEF Dashboard, Types
  <2>3. shown' \in [1..MaxSecrets -> Nat]
    BY <1>4, <2>1, SMTT(30) DEF Dashboard, Types
  <2> QED
    BY <1>4, <2>2, <2>3 DEF Dashboard, Types, counters
<1>5. ASSUME NEW r \in Requests, Login(r) PROVE Types'
  <2>1. CASE CheckPassword(r)
    <3> DEFINE value == [Idle EXCEPT !.pc = IF account = 0 THEN "authenticated" ELSE "factor",
                                    !.credential = account]
    <3>1. value \in RequestRecord /\ value.pc \notin SettingUp
      BY LoginRequest, Zenon DEF Types, Where, SettingUp
    <3>2. Goto(r, value)
      BY <2>1 DEF CheckPassword
    <3> HIDE DEF value
    <3> QED
      BY <2>1, <3>1, <3>2, GotoTypes DEF CheckPassword, Types, handlerVars, counters, history
  <2>2. CASE CheckFactor(r)
    <3>1. PICK k \in Steps : Accept(req[r].credential, k)
      BY <2>2 DEF CheckFactor
    <3>k. k \in Int
      BY AdminWebAssumption DEF Steps
    <3>2. newest' \in [Credentials -> Int] /\ used' = newest'
      BY <3>1, <3>k, Zenon DEF Accept, Types
    <3> DEFINE value == [req[r] EXCEPT !.pc = "authenticated"]
    <3>3. value \in RequestRecord /\ value.pc \notin SettingUp
      BY Zenon DEF Types, RequestRecord, Where, SettingUp
    <3>4. Goto(r, value)
      BY <2>2 DEF CheckFactor
    <3> HIDE DEF value
    <3> QED
      BY <2>2, <3>2, <3>3, <3>4, GotoTypes DEF CheckFactor, Types, counters
  <2>3. CASE UseRecoveryCode(r)
    <3> DEFINE value == [Idle EXCEPT !.pc = "authenticated", !.credential = account]
    <3>1. value \in RequestRecord /\ value.pc \notin SettingUp
      BY LoginRequest, Zenon DEF Types, Where, SettingUp
    <3>2. Goto(r, value)
      BY <2>3 DEF UseRecoveryCode
    <3> HIDE DEF value
    <3> QED
      BY <2>3, <3>1, <3>2, GotoTypes DEF UseRecoveryCode, Types, counters, history
  <2>4. CASE OpenSession(r)
    <3>1. NewSession(account = 0) \in SessionRecord
      BY Bounds DEF NewSession, SessionRecord, Types
    <3>2. sessions' \in [DOMAIN sessions' -> SessionRecord]
      BY <2>4, <3>1, SessionTypes, Zenon DEF OpenSession
    <3>3. Goto(r, Idle)
      BY <2>4 DEF OpenSession, Done
    <3> QED
      BY <2>4, <3>2, <3>3, GotoTypes, IdleRecord DEF OpenSession, Types, history, SettingUp
  <2> QED
    BY <1>5, <2>1, <2>2, <2>3, <2>4 DEF Login

<1>6. ASSUME NEW r \in Requests, Setup(r) PROVE Types'
  <2>1. CASE StartSetup(r)
    <3>1. PICK s \in SessionIds : Goto(r, [Idle EXCEPT !.pc = "preparing", !.session = s])
      BY <2>1, Zenon DEF StartSetup
    <3> DEFINE value == [Idle EXCEPT !.pc = "preparing", !.session = s]
    <3>2. value \in RequestRecord /\ value.pc \notin SettingUp
      <4>1. s \in Nat
        BY Bounds DEF SessionIds
      <4> QED
        BY <4>1, SessionRequest, Zenon DEF Where, SettingUp
    <3>3. Goto(r, value)
      BY <3>1
    <3> HIDE DEF value
    <3> QED
      BY <2>1, <3>2, <3>3, GotoTypes DEF StartSetup, Types, handlerVars, counters, history
  <2>2. CASE StorePending(r)
    <3>1. prepared' \in Credentials
      BY <2>2, Bounds DEF StorePending, Types, Credentials
    <3>2. sessions' \in [DOMAIN sessions' -> SessionRecord]
      <4>1. CASE req[r].session \in DOMAIN sessions
        <5>1. [sessions[req[r].session] EXCEPT !.pending = prepared'] \in SessionRecord
          BY <3>1, <4>1, PendingSet DEF Types
        <5> QED
          BY <2>2, <4>1, <5>1, Updated DEF StorePending, Types
      <4>2. CASE req[r].session \notin DOMAIN sessions
        BY <2>2, <4>2 DEF StorePending, Types
      <4> QED
        BY <4>1, <4>2
    <3>3. Goto(r, Idle)
      BY <2>2 DEF StorePending, Done
    <3> QED
      BY <2>2, <3>1, <3>2, <3>3, GotoTypes, IdleRecord, SMTT(30) DEF StorePending, Types, history, SettingUp
  <2>3. CASE StartConfirm(r)
    <3>1. PICK s \in SessionIds :
            /\ Live(s)
            /\ Goto(r, [Idle EXCEPT !.pc = "confirming", !.session = s, !.stored = sessions[s],
                                    !.credential = sessions[s].pending])
      BY <2>3, Zenon DEF StartConfirm
    <3>2. sessions[s] \in SessionRecord /\ sessions[s].pending \in Credentials
      BY <3>1 DEF Live, Types, SessionRecord
    <3> DEFINE value == [Idle EXCEPT !.pc = "confirming", !.session = s,
                            !.stored = sessions[s], !.credential = sessions[s].pending]
    <3>3. value \in RequestRecord /\ value.stored \in SessionRecord
      <4>1. s \in Nat
        BY Bounds DEF SessionIds
      <4>2. value \in RequestRecord /\ value.stored = sessions[s]
        BY <3>2, <4>1, ConfirmRequest, Zenon
      <4> HIDE DEF value
      <4> QED
        BY <3>2, <4>2
    <3>4. Goto(r, value)
      BY <3>1
    <3> HIDE DEF value
    <3> QED
      BY <2>3, <3>3, <3>4, GotoTypes DEF StartConfirm, Types, handlerVars, counters, history
  <2>4. CASE ConfirmFactor(r)
    <3>1. PICK k \in Steps : Accept(req[r].credential, k)
      BY <2>4 DEF ConfirmFactor
    <3>k. k \in Int
      BY AdminWebAssumption DEF Steps
    <3>2. newest' \in [Credentials -> Int] /\ used' = newest'
      BY <3>1, <3>k, Zenon DEF Accept, Types
    <3> DEFINE value == [req[r] EXCEPT !.pc = "saving"]
    <3>3. value \in RequestRecord /\ value.stored \in SessionRecord
      BY <2>4, Zenon DEF ConfirmFactor, Types, RequestRecord, Where, SettingUp
    <3>5. Goto(r, value)
      BY <2>4 DEF ConfirmFactor
    <3>4. confirmed' \subseteq Credentials
      BY <2>4 DEF ConfirmFactor, Types, RequestRecord
    <3> HIDE DEF value
    <3> QED
      BY <2>4, <3>2, <3>3, <3>4, <3>5, GotoTypes DEF ConfirmFactor, Types, counters
  <2>5. CASE SaveAdministrator(r)
    <3> DEFINE value == [req[r] EXCEPT !.pc = "replacing"]
    <3>1. value \in RequestRecord /\ value.stored \in SessionRecord
      BY <2>5, Zenon DEF SaveAdministrator, Types, RequestRecord, Where, SettingUp
    <3>3. Goto(r, value)
      BY <2>5 DEF SaveAdministrator
    <3>2. row' \in Credentials
      BY <2>5 DEF SaveAdministrator, Types, RequestRecord
    <3> HIDE DEF value
    <3> QED
      BY <2>5, <3>1, <3>2, <3>3, GotoTypes DEF SaveAdministrator, Types, handlerVars, counters, history
  <2>6. CASE ReplaceAccount(r)
    <3>1. req[r].stored \in SessionRecord /\ req[r].credential \in Credentials
          /\ req[r].session \in Nat
      BY <2>6 DEF ReplaceAccount, Types, RequestRecord, SettingUp
    <3>2. WrittenBack(r) \in SessionRecord
      BY <3>1, SessionRestored, Zenon DEF WrittenBack
    <3>3. sessions' \in [DOMAIN sessions' -> SessionRecord]
      BY <2>6, <3>2 DEF ReplaceAccount, Survivors
    <3>4. Goto(r, Idle)
      BY <2>6 DEF ReplaceAccount, Done
    <3>5. replaced' \in [count : Nat, by : Nat]
      BY <2>6, <3>1 DEF ReplaceAccount, Types
    <3> QED
      BY <2>6, <3>1, <3>3, <3>4, <3>5, GotoTypes, IdleRecord, SMTT(30)
      DEF ReplaceAccount, AdoptedVerifier, Types, counters, SettingUp
  <2>7. CASE GiveUp(r)
    <3>1. Goto(r, Idle)
      BY <2>7 DEF GiveUp, Done
    <3> QED
      BY <2>7, <3>1, GotoTypes, IdleRecord
      DEF GiveUp, Types, handlerVars, counters, history, SettingUp
  <2> QED
    BY <1>6, <2>1, <2>2, <2>3, <2>4, <2>5, <2>6, <2>7 DEF Setup
<1>7. ASSUME NEW r \in Requests, Manage(r) PROVE Types'
  <2>1. CASE Authorize(r)
    <3>1. PICK s \in SessionIds : Goto(r, [Idle EXCEPT !.pc = "acting", !.session = s])
      BY <2>1, Zenon DEF Authorize
    <3> DEFINE value == [Idle EXCEPT !.pc = "acting", !.session = s]
    <3>2. value \in RequestRecord /\ value.pc \notin SettingUp
      <4>1. s \in Nat
        BY Bounds DEF SessionIds
      <4> QED
        BY <4>1, SessionRequest, Zenon DEF Where, SettingUp
    <3>3. Goto(r, value)
      BY <3>1
    <3> HIDE DEF value
    <3> QED
      BY <2>1, <3>2, <3>3, GotoTypes DEF Authorize, Types, handlerVars, counters, history
  <2>2. CASE Act(r)
    <3>1. issued' \in 0..MaxSecrets
      BY <2>2, Bounds DEF Act, Types
    <3>2. PICK n \in 0..MaxSecrets : Goto(r, [req[r] EXCEPT !.pc = "finishing", !.secret = n])
      <4>1. req[r] \in RequestRecord /\ req[r].secret \in 0..MaxSecrets
        BY DEF Types, RequestRecord
      <4>2. [req[r] EXCEPT !.pc = "finishing"]
              = [req[r] EXCEPT !.pc = "finishing", !.secret = req[r].secret]
        BY <4>1, Zenon DEF RequestRecord
      <4> QED
        BY <2>2, <3>1, <4>1, <4>2, Zenon DEF Act
    <3> DEFINE value == [req[r] EXCEPT !.pc = "finishing", !.secret = n]
    <3>3. value \in RequestRecord /\ value.pc \notin SettingUp
      BY Zenon DEF Types, RequestRecord, Where, SettingUp
    <3>4. Goto(r, value)
      BY <3>2
    <3> HIDE DEF value
    <3> QED
      BY <2>2, <3>1, <3>3, <3>4, GotoTypes DEF Act, Types, handlerVars, history
  <2>3. CASE FinishAction(r)
    <3>1. req[r].secret \in 0..MaxSecrets
      BY DEF Types, RequestRecord
    <3>2. sessions' \in [DOMAIN sessions' -> SessionRecord]
      <4>1. CASE req[r].session \in DOMAIN sessions
        <5>1. [sessions[req[r].session] EXCEPT !.flash = req[r].secret] \in SessionRecord
          BY <3>1, <4>1, FlashSet DEF Types
        <5> QED
          BY <2>3, <4>1, <5>1, Updated DEF FinishAction, Types
      <4>2. CASE req[r].session \notin DOMAIN sessions
        BY <2>3, <4>2 DEF FinishAction, Types
      <4> QED
        BY <4>1, <4>2
    <3>3. Goto(r, Idle)
      BY <2>3 DEF FinishAction, Done
    <3> QED
      BY <2>3, <3>2, <3>3, GotoTypes, IdleRecord, Zenon
      DEF FinishAction, Types, counters, history, SettingUp
  <2> QED
    BY <1>7, <2>1, <2>2, <2>3 DEF Manage
<1> QED
  BY <1>u, <1>1, <1>2, <1>3, <1>4, <1>5, <1>6, <1>7 DEF Next

-----------------------------------------------------------------------------
(* Set-up.  The account in memory is initialized only once the row is; a       *)
(* request on its way to replace them carries a confirmed credential.          *)

SetUpInv ==
    /\ row \in {0} \cup confirmed /\ account \in {0} \cup confirmed
    /\ account # 0 => row # 0
    /\ \A s \in DOMAIN sessions : ~sessions[s].mustInitialize => account # 0
    /\ \A r \in Requests :
        /\ req[r].pc \in SettingUp => req[r].credential # 0
        /\ req[r].pc \in {"saving", "replacing"} => req[r].credential \in confirmed
        /\ req[r].pc = "replacing" => row # 0
        /\ req[r].pc \in {"acting", "finishing"} => account # 0

\* Nobody manages at the start.
LEMMA InitSetUp == Init => SetUpInv
BY DEF Init, SetUpInv, Idle, SettingUp

\* A step of a request leaves the others where they are.
LEMMA Goes ==
    ASSUME Types, NEW r \in Requests, NEW value, Goto(r, value)
    PROVE  req'[r] = value /\ \A q \in Requests : q # r => req'[q] = req[q]
BY DEF Types, Goto

\* No step lets a session manage before set-up.
LEMMA StepSetUp == Types /\ SetUpInv /\ [Next]_vars => SetUpInv'
<1> SUFFICES ASSUME Types, SetUpInv, [Next]_vars PROVE SetUpInv'
  OBVIOUS
<1>u. CASE UNCHANGED vars
  BY <1>u DEF SetUpInv, vars, handlerVars, counters, history
<1>1. CASE Tick
  BY <1>1 DEF Tick, SetUpInv, handlerVars, counters, history
<1>2. CASE Restart
  BY <1>2 DEF Restart, NoSessions, Restrict, SetUpInv, Idle, SettingUp
<1>3. ASSUME NEW s \in SessionIds, Logout(s) PROVE SetUpInv'
  BY <1>3 DEF Logout, Restrict, SetUpInv, history
<1>4. ASSUME NEW s \in SessionIds, Dashboard(s) PROVE SetUpInv'
  <2>1. \A t \in DOMAIN sessions' : t \in DOMAIN sessions
                                   /\ sessions'[t].mustInitialize = sessions[t].mustInitialize
    BY <1>4 DEF Dashboard, Types, SessionRecord
  <2> QED
    BY <1>4, <2>1 DEF Dashboard, SetUpInv
<1>5. ASSUME NEW r \in Requests, Login(r) PROVE SetUpInv'
  <2>1. CASE CheckPassword(r)
    <3>1. req'[r].pc \in {"authenticated", "factor"} /\ \A q \in Requests : q # r => req'[q] = req[q]
      <4> DEFINE value == [Idle EXCEPT !.pc = IF account = 0 THEN "authenticated" ELSE "factor",
                                      !.credential = account]
      <4>1. value.pc \in {"authenticated", "factor"}
        BY DEF Idle
      <4>2. Goto(r, value)
        BY <2>1 DEF CheckPassword
      <4> HIDE DEF value
      <4> QED
        BY <4>1, <4>2, Goes
    <3> QED
      BY <2>1, <3>1 DEF CheckPassword, SetUpInv, SettingUp, handlerVars, history
  <2>2. CASE CheckFactor(r)
    <3>1. req'[r].pc = "authenticated" /\ \A q \in Requests : q # r => req'[q] = req[q]
      BY <2>2, Goes, SMTT(30) DEF CheckFactor, Types, RequestRecord
    <3> QED
      BY <2>2, <3>1 DEF CheckFactor, SetUpInv, SettingUp
  <2>3. CASE UseRecoveryCode(r)
    <3>1. req'[r].pc = "authenticated" /\ \A q \in Requests : q # r => req'[q] = req[q]
      BY <2>3, Goes, Zenon DEF UseRecoveryCode, Idle
    <3> QED
      BY <2>3, <3>1 DEF UseRecoveryCode, SetUpInv, SettingUp, history
  <2>4. CASE OpenSession(r)
    <3>1. req'[r].pc = "idle" /\ \A q \in Requests : q # r => req'[q] = req[q]
      BY <2>4, Goes DEF OpenSession, Done, Idle
    <3>2. \A t \in DOMAIN sessions' : ~sessions'[t].mustInitialize => account # 0
      BY <2>4, Zenon DEF OpenSession, Put, NewSession, SetUpInv
    <3> QED
      BY <2>4, <3>1, <3>2 DEF OpenSession, SetUpInv, SettingUp, history
  <2> QED
    BY <1>5, <2>1, <2>2, <2>3, <2>4 DEF Login
<1>6. ASSUME NEW r \in Requests, Setup(r) PROVE SetUpInv'
  <2>1. CASE StartSetup(r)
    <3>1. req'[r].pc = "preparing" /\ \A q \in Requests : q # r => req'[q] = req[q]
      BY <2>1, Goes, Zenon DEF StartSetup, Idle
    <3> QED
      BY <2>1, <3>1 DEF StartSetup, SetUpInv, SettingUp, handlerVars, history
  <2>2. CASE StorePending(r)
    <3>1. req'[r].pc = "idle" /\ \A q \in Requests : q # r => req'[q] = req[q]
      BY <2>2, Goes DEF StorePending, Done, Idle
    <3>2. \A t \in DOMAIN sessions' : t \in DOMAIN sessions
                                     /\ sessions'[t].mustInitialize = sessions[t].mustInitialize
      BY <2>2, SMTT(30) DEF StorePending, Types, SessionRecord
    <3> QED
      BY <2>2, <3>1, <3>2 DEF StorePending, SetUpInv, SettingUp, history
  <2>3. CASE StartConfirm(r)
    <3>1. /\ req'[r].pc = "confirming" /\ req'[r].credential # 0
          /\ \A q \in Requests : q # r => req'[q] = req[q]
      <4>1. PICK s \in SessionIds :
              /\ Live(s) /\ sessions[s].pending # 0
              /\ Goto(r, [Idle EXCEPT !.pc = "confirming", !.session = s, !.stored = sessions[s],
                                      !.credential = sessions[s].pending])
        BY <2>3, Zenon DEF StartConfirm
      <4> DEFINE value == [Idle EXCEPT !.pc = "confirming", !.session = s,
                              !.stored = sessions[s], !.credential = sessions[s].pending]
      <4>2. value.pc = "confirming" /\ value.credential # 0
        BY <4>1 DEF Idle
      <4>3. Goto(r, value)
        BY <4>1
      <4> HIDE DEF value
      <4> QED
        BY <4>2, <4>3, Goes
    <3> QED
      BY <2>3, <3>1 DEF StartConfirm, SetUpInv, SettingUp, handlerVars, history
  <2>4. CASE ConfirmFactor(r)
    <3>1. /\ req'[r].pc = "saving" /\ req'[r].credential = req[r].credential
          /\ \A q \in Requests : q # r => req'[q] = req[q]
      <4> DEFINE value == [req[r] EXCEPT !.pc = "saving"]
      <4>1. value.pc = "saving" /\ value.credential = req[r].credential
        BY DEF Types, RequestRecord
      <4>2. Goto(r, value)
        BY <2>4 DEF ConfirmFactor
      <4> HIDE DEF value
      <4> QED
        BY <4>1, <4>2, Goes
    <3>2. confirmed' = confirmed \cup {req[r].credential}
      BY <2>4 DEF ConfirmFactor
    <3> QED
      BY <2>4, <3>1, <3>2 DEF ConfirmFactor, SetUpInv, SettingUp
  <2>5. CASE SaveAdministrator(r)
    <3>1. /\ req'[r].pc = "replacing" /\ req'[r].credential = req[r].credential
          /\ \A q \in Requests : q # r => req'[q] = req[q]
      BY <2>5, Goes, SMTT(30) DEF SaveAdministrator, Types, RequestRecord
    <3> QED
      BY <2>5, <3>1 DEF SaveAdministrator, SetUpInv, SettingUp, handlerVars, history
  <2>6. CASE ReplaceAccount(r)
    <3>1. req'[r].pc = "idle" /\ \A q \in Requests : q # r => req'[q] = req[q]
      BY <2>6, Goes DEF ReplaceAccount, Done, Idle
    <3>2. account' = req[r].credential /\ account' # 0 /\ account' \in confirmed /\ row # 0
      BY <2>6 DEF ReplaceAccount, SetUpInv, SettingUp
    <3> QED
      BY <2>6, <3>1, <3>2 DEF ReplaceAccount, SetUpInv, SettingUp
  <2>7. CASE GiveUp(r)
    <3>1. req'[r].pc = "idle" /\ \A q \in Requests : q # r => req'[q] = req[q]
      BY <2>7, Goes DEF GiveUp, Done, Idle
    <3> QED
      BY <2>7, <3>1 DEF GiveUp, SetUpInv, SettingUp, handlerVars, history
  <2> QED
    BY <1>6, <2>1, <2>2, <2>3, <2>4, <2>5, <2>6, <2>7 DEF Setup
<1>7. ASSUME NEW r \in Requests, Manage(r) PROVE SetUpInv'
  <2>1. CASE Authorize(r)
    <3>1. req'[r].pc = "acting" /\ \A q \in Requests : q # r => req'[q] = req[q]
      BY <2>1, Goes, Zenon DEF Authorize, Idle
    <3>2. account # 0
      BY <2>1 DEF Authorize, MayManage, Live, SetUpInv
    <3> QED
      BY <2>1, <3>1, <3>2 DEF Authorize, SetUpInv, SettingUp, handlerVars, history
  <2>2. CASE Act(r)
    <3>1. /\ req'[r].pc = "finishing" /\ req[r].pc = "acting"
          /\ \A q \in Requests : q # r => req'[q] = req[q]
      <4>1. req[r] \in RequestRecord
        BY DEF Types
      <4>2. PICK value : Goto(r, value) /\ value.pc = "finishing"
        <5>1. CASE issued < MaxSecrets /\ Goto(r, [req[r] EXCEPT !.pc = "finishing", !.secret = issued'])
          <6>1. [req[r] EXCEPT !.pc = "finishing", !.secret = issued'].pc = "finishing"
            BY <4>1 DEF RequestRecord
          <6> QED
            BY <5>1, <6>1, Zenon
        <5>2. CASE Goto(r, [req[r] EXCEPT !.pc = "finishing"])
          <6>1. [req[r] EXCEPT !.pc = "finishing"].pc = "finishing"
            BY <4>1 DEF RequestRecord
          <6> QED
            BY <5>2, <6>1, Zenon
        <5> QED
          BY <2>2, <5>1, <5>2, Zenon DEF Act
      <4> QED
        BY <2>2, <4>2, Goes DEF Act
    <3> QED
      BY <2>2, <3>1 DEF Act, SetUpInv, SettingUp, handlerVars, history
  <2>3. CASE FinishAction(r)
    <3>1. req'[r].pc = "idle" /\ \A q \in Requests : q # r => req'[q] = req[q]
      BY <2>3, Goes DEF FinishAction, Done, Idle
    <3>2. \A t \in DOMAIN sessions' : t \in DOMAIN sessions
                                     /\ sessions'[t].mustInitialize = sessions[t].mustInitialize
      BY <2>3, SMTT(30) DEF FinishAction, Types, SessionRecord
    <3> QED
      BY <2>3, <3>1, <3>2 DEF FinishAction, SetUpInv, SettingUp, history
  <2> QED
    BY <1>7, <2>1, <2>2, <2>3 DEF Manage
<1> QED
  BY <1>u, <1>1, <1>2, <1>3, <1>4, <1>5, <1>6, <1>7 DEF Next

\* An open session that may manage, or a request that was authorized to, implies
\* an initialized account in memory and in the database (setupSecondFactor,
\* authorizeManagementPost).
THEOREM ManagersStaySetUp == Spec => []ManagersAreSetUp
<1>1. Types /\ SetUpInv => ManagersAreSetUp
  BY DEF SetUpInv, ManagersAreSetUp
<1> QED
  BY <1>1, InitTypes, StepTypes, InitSetUp, StepSetUp, PTL DEF Spec

\* Whatever confirmations, second set-ups and restarts interleave, the stored and
\* the adopted credential had their authenticator confirmed (setupSecondFactor).
THEOREM StoredIsConfirmed == Spec => []OnlyConfirmedIsStored
<1>1. Types /\ SetUpInv => OnlyConfirmedIsStored
  BY DEF SetUpInv, OnlyConfirmedIsStored
<1> QED
  BY <1>1, InitTypes, StepTypes, InitSetUp, StepSetUp, PTL DEF Spec

-----------------------------------------------------------------------------
(* Replacement and one-time passwords.                                        *)

\* After a replacement no step revives a session of the account before it.
LEMMA StepReplacer ==
    Types /\ OnlyReplacerSurvives /\ [Next]_vars => OnlyReplacerSurvives'
<1> SUFFICES ASSUME Types, OnlyReplacerSurvives, [Next]_vars PROVE OnlyReplacerSurvives'
  OBVIOUS
<1> DEFINE Kept == /\ replaced' = replaced
                   /\ \A t \in DOMAIN sessions' : t \in DOMAIN sessions
                                                /\ sessions'[t].born = sessions[t].born
<1>k. Kept => OnlyReplacerSurvives'
  BY DEF OnlyReplacerSurvives
<1>s. UNCHANGED <<sessions, replaced>> => OnlyReplacerSurvives'
  BY DEF OnlyReplacerSurvives
<1>u. CASE UNCHANGED vars
  BY <1>u, <1>s DEF vars, handlerVars, history
<1>1. CASE Tick
  BY <1>1, <1>s DEF Tick, handlerVars, history
<1>2. CASE Restart
  BY <1>2 DEF Restart, NoSessions, Restrict, OnlyReplacerSurvives
<1>3. ASSUME NEW s \in SessionIds, Logout(s) PROVE OnlyReplacerSurvives'
  BY <1>3, <1>k DEF Logout, Restrict, history
<1>4. ASSUME NEW s \in SessionIds, Dashboard(s) PROVE OnlyReplacerSurvives'
  BY <1>4, <1>k DEF Dashboard, Types, SessionRecord
<1>5. ASSUME NEW r \in Requests, Login(r) PROVE OnlyReplacerSurvives'
  <2>1. CASE OpenSession(r)
    BY <2>1 DEF OpenSession, Put, NewSession, OnlyReplacerSurvives, history
  <2>2. CASE CheckPassword(r) \/ CheckFactor(r) \/ UseRecoveryCode(r)
    BY <2>2, <1>s DEF CheckPassword, CheckFactor, UseRecoveryCode, handlerVars, history
  <2> QED
    BY <1>5, <2>1, <2>2 DEF Login
<1>6. ASSUME NEW r \in Requests, Setup(r) PROVE OnlyReplacerSurvives'
  <2>1. CASE StorePending(r)
    BY <2>1, <1>k DEF StorePending, Types, SessionRecord, history
  <2>2. CASE ReplaceAccount(r)
    BY <2>2 DEF ReplaceAccount, Survivors, OnlyReplacerSurvives
  <2>3. CASE StartSetup(r) \/ StartConfirm(r) \/ ConfirmFactor(r) \/ SaveAdministrator(r) \/ GiveUp(r)
    BY <2>3, <1>s, Zenon
    DEF StartSetup, StartConfirm, ConfirmFactor, SaveAdministrator, GiveUp, handlerVars, history
  <2> QED
    BY <1>6, <2>1, <2>2, <2>3 DEF Setup
<1>7. ASSUME NEW r \in Requests, Manage(r) PROVE OnlyReplacerSurvives'
  <2>1. CASE FinishAction(r)
    BY <2>1, <1>k, SMTT(30) DEF FinishAction, Types, SessionRecord, history
  <2>2. CASE Authorize(r) \/ Act(r)
    BY <2>2, <1>s, Zenon DEF Authorize, Act, handlerVars, history
  <2> QED
    BY <1>7, <2>1, <2>2 DEF Manage
<1> QED
  BY <1>u, <1>1, <1>2, <1>3, <1>4, <1>5, <1>6, <1>7 DEF Next

\* After a replacement of the credentials every other session is gone and stays
\* gone, whatever requests were in flight (setupSecondFactor).
THEOREM ReplacementEndsSessions == Spec => []OnlyReplacerSurvives
<1>1. Init => OnlyReplacerSurvives
  BY DEF Init, OnlyReplacerSurvives
<1> QED
  BY <1>1, InitTypes, StepTypes, StepReplacer, PTL DEF Spec

\* No step accepts a one-time password again.
LEMMA StepAccepted == Types /\ ~replayed /\ [Next]_vars => ~replayed'
<1> SUFFICES ASSUME Types, ~replayed, [Next]_vars PROVE ~replayed'
  OBVIOUS
<1>1. ASSUME NEW r \in Requests, NEW k \in Steps, Verifies(req[r].credential, k),
             Accept(req[r].credential, k)
      PROVE  ~replayed'
  <2>1. k \in Int /\ newest[req[r].credential] \in Int
    BY AdminWebAssumption DEF Steps, Types, RequestRecord
  <2>2. ~(k <= used[req[r].credential])
    BY <1>1, <2>1 DEF Verifies, Types
  <2> QED
    BY <1>1, <2>2, Zenon DEF Accept
<1>2. ASSUME NEW r \in Requests, CheckFactor(r) \/ ConfirmFactor(r) PROVE ~replayed'
  BY <1>1, <1>2 DEF CheckFactor, ConfirmFactor
<1>3. CASE replayed' = replayed
  BY <1>3
<1>4. CASE Tick \/ Restart \/ UNCHANGED vars
  BY <1>4 DEF Tick, Restart, vars, history
<1>5. ASSUME NEW s \in SessionIds, Logout(s) \/ Dashboard(s) PROVE replayed' = replayed
  BY <1>5 DEF Logout, Dashboard, history
<1>6. ASSUME NEW r \in Requests, CheckPassword(r) \/ UseRecoveryCode(r) \/ OpenSession(r)
      PROVE  replayed' = replayed
  BY <1>6 DEF CheckPassword, UseRecoveryCode, OpenSession, history
<1>7. ASSUME NEW r \in Requests, \/ StartSetup(r) \/ StorePending(r) \/ StartConfirm(r)
                                 \/ SaveAdministrator(r) \/ ReplaceAccount(r) \/ GiveUp(r)
      PROVE  replayed' = replayed
  BY <1>7, Zenon
  DEF StartSetup, StorePending, StartConfirm, SaveAdministrator, ReplaceAccount, GiveUp, history
<1>8. ASSUME NEW r \in Requests, Manage(r) PROVE replayed' = replayed
  BY <1>8, Zenon DEF Manage, Authorize, Act, FinishAction, history
<1> QED
  BY <1>2, <1>3, <1>4, <1>5, <1>6, <1>7, <1>8 DEF Next, Login, Setup

\* No one-time password is accepted twice while the process lives: the verifier
\* that accepted a confirmation is the one logins use afterwards (totp.go verify,
\* setupSecondFactor).
THEOREM CodesStayUsedUp == Spec => []CodesAreAcceptedOnce
<1>1. Init => ~replayed
  BY DEF Init
<1>2. CodesAreAcceptedOnce <=> ~replayed
  BY DEF CodesAreAcceptedOnce
<1> QED
  BY <1>1, <1>2, InitTypes, StepTypes, StepAccepted, PTL DEF Spec

-----------------------------------------------------------------------------
(* Pairing codes.  A code that has been issued is in one place: in the request *)
(* that issued it, in one session's flash, shown, or dropped.                  *)

Finishing(r) == req[r].pc = "finishing" /\ req[r].secret # 0
Flashing(s) == s \in DOMAIN sessions /\ sessions[s].flash # 0

SecretsInv ==
    /\ \A r \in Requests :
        /\ req[r].pc = "acting" => req[r].secret = 0
        /\ Finishing(r) => req[r].secret <= issued /\ shown[req[r].secret] = 0
    /\ \A s \in DOMAIN sessions :
        Flashing(s) => sessions[s].flash <= issued /\ shown[sessions[s].flash] = 0
    /\ \A q, r \in Requests :
        Finishing(q) /\ Finishing(r) /\ req[q].secret = req[r].secret => q = r
    /\ \A s, t \in DOMAIN sessions :
        Flashing(s) /\ Flashing(t) /\ sessions[s].flash = sessions[t].flash => s = t
    /\ \A r \in Requests, s \in DOMAIN sessions :
        Finishing(r) /\ Flashing(s) => req[r].secret # sessions[s].flash
    /\ \A n \in 1..MaxSecrets : shown[n] <= 1 /\ (n > issued => shown[n] = 0)

\* No pairing code is anywhere at the start.
LEMMA InitSecrets == Init => SecretsInv
BY Bounds DEF Init, SecretsInv, Finishing, Flashing, Idle

\* Requests that carry no code, and sessions whose flash is emptied or kept, do
\* not matter.
LEMMA FewerHolders ==
    ASSUME SecretsInv, UNCHANGED <<issued, shown>>,
           \A r \in Requests : \/ req'[r].pc \notin {"acting", "finishing"}
                               \/ req'[r].pc = "acting" /\ req'[r].secret = 0
                               \/ req'[r] = req[r],
           \A s \in DOMAIN sessions' :
               \/ sessions'[s].flash = 0
               \/ s \in DOMAIN sessions /\ sessions'[s].flash = sessions[s].flash
    PROVE  SecretsInv'
<1>1. \A r \in Requests : Finishing(r)' => Finishing(r) /\ req'[r] = req[r]
  BY DEF Finishing
<1>2. \A s \in DOMAIN sessions' :
        Flashing(s)' => Flashing(s) /\ sessions'[s].flash = sessions[s].flash
  BY DEF Flashing
<1>3. \A r \in Requests :
        /\ req'[r].pc = "acting" => req'[r].secret = 0
        /\ Finishing(r)' => req'[r].secret <= issued' /\ shown'[req'[r].secret] = 0
  BY <1>1 DEF SecretsInv
<1>4. \A s \in DOMAIN sessions' :
        Flashing(s)' => sessions'[s].flash <= issued' /\ shown'[sessions'[s].flash] = 0
  BY <1>2 DEF SecretsInv, Flashing
<1>5. \A q, r \in Requests :
        Finishing(q)' /\ Finishing(r)' /\ req'[q].secret = req'[r].secret => q = r
  BY <1>1 DEF SecretsInv
<1>6. \A s, t \in DOMAIN sessions' :
        Flashing(s)' /\ Flashing(t)' /\ sessions'[s].flash = sessions'[t].flash => s = t
  BY <1>2 DEF SecretsInv, Flashing
<1>7. \A r \in Requests, s \in DOMAIN sessions' :
        Finishing(r)' /\ Flashing(s)' => req'[r].secret # sessions'[s].flash
  BY <1>1, <1>2 DEF SecretsInv, Flashing
<1> QED
  BY <1>3, <1>4, <1>5, <1>6, <1>7 DEF SecretsInv

\* Every step moves a pairing code on, or forgets it, and never copies it.
LEMMA StepSecrets == Types /\ SecretsInv /\ [Next]_vars => SecretsInv'
<1> SUFFICES ASSUME Types, SecretsInv, [Next]_vars PROVE SecretsInv'
  OBVIOUS
<1>u. CASE UNCHANGED vars
  BY <1>u, FewerHolders DEF vars, handlerVars, counters, history
<1>1. CASE Tick
  BY <1>1, FewerHolders DEF Tick, handlerVars, counters, history
<1>2. CASE Restart
  BY <1>2, FewerHolders DEF Restart, NoSessions, Restrict, Idle
<1>3. ASSUME NEW s \in SessionIds, Logout(s) PROVE SecretsInv'
  BY <1>3, FewerHolders DEF Logout, Restrict, counters, history
<1>4. ASSUME NEW s \in SessionIds, Dashboard(s) PROVE SecretsInv'
  <2> DEFINE n == sessions[s].flash
  <2>1. s \in DOMAIN sessions /\ Flashing(s) /\ n \in 1..MaxSecrets
    BY <1>4 DEF Dashboard, MayManage, Live, Types, SessionRecord, Flashing
  <2>2. shown[n] = 0 /\ n <= issued
    BY <2>1 DEF SecretsInv
  <2>3. shown' = [shown EXCEPT ![n] = 1]
    BY <1>4, <2>2 DEF Dashboard
  <2>4. /\ DOMAIN sessions' = DOMAIN sessions /\ ~Flashing(s)'
        /\ \A t \in DOMAIN sessions : t # s => sessions'[t] = sessions[t]
    BY <1>4, <2>1 DEF Dashboard, Types, SessionRecord, Flashing
  <2>5. \A t \in DOMAIN sessions' : Flashing(t)' => t # s /\ Flashing(t) /\ sessions'[t] = sessions[t]
    BY <2>4 DEF Flashing
  <2>6. \A r \in Requests : (Finishing(r)' <=> Finishing(r)) /\ req'[r] = req[r]
    BY <1>4 DEF Dashboard, Finishing
  <2>7. \A m \in 1..MaxSecrets : m # n => shown'[m] = shown[m]
    BY <2>3 DEF Types
  <2>8. shown'[n] = 1 /\ issued' = issued
    BY <1>4, <2>1, <2>3 DEF Types, Dashboard, counters
  <2>9. \A t \in DOMAIN sessions' : Flashing(t)' => sessions'[t].flash # n /\ sessions'[t].flash \in 1..MaxSecrets
    BY <2>1, <2>4, <2>5, SMTT(30) DEF SecretsInv, Types, SessionRecord, Flashing
  <2>10. \A r \in Requests : Finishing(r)' => req'[r].secret # n /\ req'[r].secret \in 1..MaxSecrets
    BY <2>1, <2>6 DEF SecretsInv, Types, RequestRecord, Finishing
  <2> HIDE DEF n
  <2>11. \A r \in Requests :
          /\ req'[r].pc = "acting" => req'[r].secret = 0
          /\ Finishing(r)' => req'[r].secret <= issued' /\ shown'[req'[r].secret] = 0
    BY <2>6, <2>7, <2>8, <2>10 DEF SecretsInv
  <2>12. \A t \in DOMAIN sessions' :
          Flashing(t)' => sessions'[t].flash <= issued' /\ shown'[sessions'[t].flash] = 0
    BY <2>4, <2>5, <2>7, <2>8, <2>9 DEF SecretsInv
  <2>13. \A m \in 1..MaxSecrets : shown'[m] <= 1 /\ (m > issued' => shown'[m] = 0)
    <3>1. issued \in Int
      BY Bounds DEF Types
    <3> QED
      BY <2>1, <2>2, <2>7, <2>8, <3>1 DEF SecretsInv
  <2>14. \A q, r \in Requests :
          Finishing(q)' /\ Finishing(r)' /\ req'[q].secret = req'[r].secret => q = r
    BY <2>6 DEF SecretsInv
  <2>15. \A t, v \in DOMAIN sessions' :
          Flashing(v)' /\ Flashing(t)' /\ sessions'[v].flash = sessions'[t].flash => v = t
    BY <2>4, <2>5 DEF SecretsInv
  <2>16. \A r \in Requests, t \in DOMAIN sessions' :
          Finishing(r)' /\ Flashing(t)' => req'[r].secret # sessions'[t].flash
    BY <2>4, <2>5, <2>6 DEF SecretsInv
  <2> QED
    BY <2>11, <2>12, <2>13, <2>14, <2>15, <2>16 DEF SecretsInv
<1>5. ASSUME NEW r \in Requests, Login(r) PROVE SecretsInv'
  <2>1. CASE CheckPassword(r)
    <3>1. req'[r].pc \notin {"acting", "finishing"} /\ \A q \in Requests : q # r => req'[q] = req[q]
      <4> DEFINE value == [Idle EXCEPT !.pc = IF account = 0 THEN "authenticated" ELSE "factor",
                                      !.credential = account]
      <4>1. value.pc \notin {"acting", "finishing"}
        BY DEF Idle
      <4>2. Goto(r, value)
        BY <2>1 DEF CheckPassword
      <4> HIDE DEF value
      <4> QED
        BY <4>1, <4>2, Goes
    <3> QED
      BY <2>1, <3>1, FewerHolders DEF CheckPassword, handlerVars, counters, history
  <2>2. CASE CheckFactor(r)
    <3>1. req'[r].pc = "authenticated" /\ \A q \in Requests : q # r => req'[q] = req[q]
      BY <2>2, Goes, SMTT(30) DEF CheckFactor, Types, RequestRecord
    <3> QED
      BY <2>2, <3>1, FewerHolders DEF CheckFactor, counters
  <2>3. CASE UseRecoveryCode(r)
    <3>1. req'[r].pc = "authenticated" /\ \A q \in Requests : q # r => req'[q] = req[q]
      BY <2>3, Goes, Zenon DEF UseRecoveryCode, Idle
    <3> QED
      BY <2>3, <3>1, FewerHolders DEF UseRecoveryCode, counters, history
  <2>4. CASE OpenSession(r)
    <3>1. req'[r].pc = "idle" /\ \A q \in Requests : q # r => req'[q] = req[q]
      BY <2>4, Goes DEF OpenSession, Done, Idle
    <3>2. \A t \in DOMAIN sessions' :
            \/ sessions'[t].flash = 0
            \/ t \in DOMAIN sessions /\ sessions'[t].flash = sessions[t].flash
      BY <2>4 DEF OpenSession, Put, NewSession
    <3> QED
      BY <2>4, <3>1, <3>2, FewerHolders DEF OpenSession, history
  <2> QED
    BY <1>5, <2>1, <2>2, <2>3, <2>4 DEF Login
<1>6. ASSUME NEW r \in Requests, Setup(r) PROVE SecretsInv'
  <2>1. CASE StartSetup(r)
    <3>1. req'[r].pc = "preparing" /\ \A q \in Requests : q # r => req'[q] = req[q]
      BY <2>1, Goes, Zenon DEF StartSetup, Idle
    <3> QED
      BY <2>1, <3>1, FewerHolders DEF StartSetup, handlerVars, counters, history
  <2>2. CASE StorePending(r)
    <3>1. req'[r].pc = "idle" /\ \A q \in Requests : q # r => req'[q] = req[q]
      BY <2>2, Goes DEF StorePending, Done, Idle
    <3>2. \A t \in DOMAIN sessions' : t \in DOMAIN sessions
                                     /\ sessions'[t].flash = sessions[t].flash
      BY <2>2, SMTT(30) DEF StorePending, Types, SessionRecord
    <3> QED
      BY <2>2, <3>1, <3>2, FewerHolders DEF StorePending, history
  <2>3. CASE StartConfirm(r)
    <3>1. req'[r].pc = "confirming" /\ \A q \in Requests : q # r => req'[q] = req[q]
      <4>1. PICK value : Goto(r, value) /\ value.pc = "confirming"
        <5>1. PICK s \in SessionIds :
                Goto(r, [Idle EXCEPT !.pc = "confirming", !.session = s, !.stored = sessions[s],
                                     !.credential = sessions[s].pending])
          BY <2>3, Zenon DEF StartConfirm
        <5>2. [Idle EXCEPT !.pc = "confirming", !.session = s, !.stored = sessions[s],
                           !.credential = sessions[s].pending].pc = "confirming"
          BY DEF Idle
        <5> QED
          BY <5>1, <5>2, Zenon
      <4> QED
        BY <4>1, Goes
    <3> QED
      BY <2>3, <3>1, FewerHolders DEF StartConfirm, handlerVars, counters, history
  <2>4. CASE ConfirmFactor(r)
    <3>1. req'[r].pc = "saving" /\ \A q \in Requests : q # r => req'[q] = req[q]
      BY <2>4, Goes, SMTT(30) DEF ConfirmFactor, Types, RequestRecord
    <3> QED
      BY <2>4, <3>1, FewerHolders DEF ConfirmFactor, counters
  <2>5. CASE SaveAdministrator(r)
    <3>1. req'[r].pc = "replacing" /\ \A q \in Requests : q # r => req'[q] = req[q]
      BY <2>5, Goes, SMTT(30) DEF SaveAdministrator, Types, RequestRecord
    <3> QED
      BY <2>5, <3>1, FewerHolders DEF SaveAdministrator, handlerVars, counters, history
  <2>6. CASE ReplaceAccount(r)
    <3>1. req'[r].pc = "idle" /\ \A q \in Requests : q # r => req'[q] = req[q]
      BY <2>6, Goes DEF ReplaceAccount, Done, Idle
    <3>2. WrittenBack(r).flash = 0
      BY <2>6 DEF ReplaceAccount, WrittenBack, Types, SettingUp, SessionRecord
    <3>3. \A t \in DOMAIN sessions' : sessions'[t].flash = 0
      BY <2>6, <3>2 DEF ReplaceAccount, Survivors
    <3> QED
      BY <2>6, <3>1, <3>3, FewerHolders DEF ReplaceAccount, counters
  <2>7. CASE GiveUp(r)
    <3>1. req'[r].pc = "idle" /\ \A q \in Requests : q # r => req'[q] = req[q]
      BY <2>7, Goes DEF GiveUp, Done, Idle
    <3> QED
      BY <2>7, <3>1, FewerHolders DEF GiveUp, handlerVars, counters, history
  <2> QED
    BY <1>6, <2>1, <2>2, <2>3, <2>4, <2>5, <2>6, <2>7 DEF Setup
<1>7. ASSUME NEW r \in Requests, Authorize(r) PROVE SecretsInv'
  <2>1. req'[r].pc = "acting" /\ req'[r].secret = 0 /\ \A q \in Requests : q # r => req'[q] = req[q]
    <3>1. PICK s \in SessionIds : Goto(r, [Idle EXCEPT !.pc = "acting", !.session = s])
      BY <1>7, Zenon DEF Authorize
    <3> DEFINE value == [Idle EXCEPT !.pc = "acting", !.session = s]
    <3>2. value.pc = "acting" /\ value.secret = 0
      BY DEF Idle
    <3>3. Goto(r, value)
      BY <3>1
    <3> HIDE DEF value
    <3> QED
      BY <3>2, <3>3, Goes
  <2> QED
    BY <1>7, <2>1, FewerHolders DEF Authorize, handlerVars, counters, history
<1>8. ASSUME NEW r \in Requests, Act(r) PROVE SecretsInv'
  <2>1. req[r] \in RequestRecord /\ req[r].secret = 0
    BY <1>8 DEF Types, Act, SecretsInv
  <2>2. CASE /\ issued < MaxSecrets /\ issued' = issued + 1
             /\ Goto(r, [req[r] EXCEPT !.pc = "finishing", !.secret = issued'])
    <3> DEFINE value == [req[r] EXCEPT !.pc = "finishing", !.secret = issued']
    <3>1. value.pc = "finishing" /\ value.secret = issued'
      BY <2>1 DEF RequestRecord
    <3>2. Goto(r, value)
      BY <2>2
    <3> HIDE DEF value
    <3>3. /\ req'[r].pc = "finishing" /\ req'[r].secret = issued'
          /\ \A q \in Requests : q # r => req'[q] = req[q]
      BY <3>1, <3>2, Goes
    <3>4. sessions' = sessions /\ shown' = shown
      BY <1>8 DEF Act, handlerVars, history
    <3>5. issued \in Nat /\ issued' \in 1..MaxSecrets /\ shown[issued'] = 0
      <4>1. issued \in 0..MaxSecrets /\ MaxSecrets \in Nat
        BY Bounds DEF Types
      <4>2. issued \in Nat /\ issued' \in 1..MaxSecrets /\ issued' > issued
        BY <2>2, <4>1
      <4> QED
        BY <4>2 DEF SecretsInv
    <3>6. \A q \in Requests : q # r => (Finishing(q)' <=> Finishing(q))
      BY <3>3 DEF Finishing
    <3>7. \A t \in DOMAIN sessions : Flashing(t)' <=> Flashing(t)
      BY <3>4 DEF Flashing
    <3>8. \A q \in Requests : Finishing(q) => req[q].secret < issued' /\ req[q].secret \in Nat
      <4>1. \A q \in Requests : req[q].secret \in Nat
        BY Bounds DEF Types, RequestRecord
      <4> QED
        BY <2>2, <3>5, <4>1 DEF SecretsInv
    <3>9. \A t \in DOMAIN sessions : Flashing(t) => sessions[t].flash < issued' /\ sessions[t].flash \in Nat
      BY <2>2, <3>5, Bounds, SMTT(30) DEF SecretsInv, Types, SessionRecord
    <3>10. \A q \in Requests :
            /\ req'[q].pc = "acting" => req'[q].secret = 0
            /\ Finishing(q)' => req'[q].secret <= issued' /\ shown'[req'[q].secret] = 0
      BY <3>3, <3>4, <3>5, <3>6, <3>8 DEF SecretsInv
    <3>11. \A t \in DOMAIN sessions' :
            Flashing(t)' => sessions'[t].flash <= issued' /\ shown'[sessions'[t].flash] = 0
      BY <3>4, <3>5, <3>7, <3>9 DEF SecretsInv
    <3>12. \A p, q \in Requests :
            Finishing(p)' /\ Finishing(q)' /\ req'[p].secret = req'[q].secret => p = q
      BY <3>3, <3>5, <3>6, <3>8 DEF SecretsInv
    <3>13. \A t, v \in DOMAIN sessions' :
            Flashing(t)' /\ Flashing(v)' /\ sessions'[t].flash = sessions'[v].flash => t = v
      BY <3>4, <3>7 DEF SecretsInv
    <3>14. \A q \in Requests, t \in DOMAIN sessions' :
            Finishing(q)' /\ Flashing(t)' => req'[q].secret # sessions'[t].flash
      BY <3>3, <3>4, <3>5, <3>6, <3>7, <3>9 DEF SecretsInv
    <3>15. \A n \in 1..MaxSecrets : shown'[n] <= 1 /\ (n > issued' => shown'[n] = 0)
      BY <2>2, <3>4, <3>5 DEF SecretsInv
    <3> QED
      BY <3>10, <3>11, <3>12, <3>13, <3>14, <3>15 DEF SecretsInv
  <2>3. CASE Goto(r, [req[r] EXCEPT !.pc = "finishing"]) /\ UNCHANGED issued
    <3> DEFINE value == [req[r] EXCEPT !.pc = "finishing"]
    <3>1. value.pc = "finishing" /\ value.secret = 0
      BY <2>1 DEF RequestRecord
    <3>2. Goto(r, value)
      BY <2>3
    <3> HIDE DEF value
    <3>3. /\ req'[r].pc = "finishing" /\ req'[r].secret = 0
          /\ \A q \in Requests : q # r => req'[q] = req[q]
      BY <3>1, <3>2, Goes
    <3>4. UNCHANGED <<sessions, shown, issued>>
      BY <1>8, <2>3 DEF Act, handlerVars, history
    <3>5. \A q \in Requests : Finishing(q)' => q # r /\ Finishing(q)
      BY <3>3 DEF Finishing
    <3>6. \A t \in DOMAIN sessions : Flashing(t)' <=> Flashing(t)
      BY <3>4 DEF Flashing
    <3> QED
      BY <3>3, <3>4, <3>5, <3>6 DEF SecretsInv
  <2> QED
    BY <1>8, <2>2, <2>3 DEF Act
<1>9. ASSUME NEW r \in Requests, FinishAction(r) PROVE SecretsInv'
  <2> DEFINE s == req[r].session
  <2>1. req'[r].pc = "idle" /\ \A q \in Requests : q # r => req'[q] = req[q]
    BY <1>9, Goes DEF FinishAction, Done, Idle
  <2>2. UNCHANGED <<issued, shown>>
    BY <1>9 DEF FinishAction, counters, history
  <2>3. CASE s \notin DOMAIN sessions \/ req[r].secret = 0
    <3>1. \A t \in DOMAIN sessions' :
            \/ sessions'[t].flash = 0
            \/ t \in DOMAIN sessions /\ sessions'[t].flash = sessions[t].flash
      BY <1>9, <2>3 DEF FinishAction, Types, SessionRecord
    <3> QED
      BY <2>1, <2>2, <3>1, FewerHolders
  <2>4. CASE s \in DOMAIN sessions /\ req[r].secret # 0
    <3> DEFINE n == req[r].secret
    <3>1. Finishing(r) /\ n <= issued /\ shown[n] = 0
      BY <1>9, <2>4 DEF FinishAction, Finishing, SecretsInv
    <3>2. /\ DOMAIN sessions' = DOMAIN sessions /\ sessions'[s].flash = n
          /\ \A t \in DOMAIN sessions : t # s => sessions'[t] = sessions[t]
      BY <1>9, <2>4 DEF FinishAction, Types, SessionRecord
    <3>3. \A q \in Requests : Finishing(q)' => q # r /\ Finishing(q)
      BY <2>1 DEF Finishing
    <3>4. \A t \in DOMAIN sessions : t # s => (Flashing(t)' <=> Flashing(t))
      BY <3>2 DEF Flashing
    <3>5. \A q \in Requests : q # r /\ Finishing(q) => req[q].secret # n
      BY <3>1 DEF SecretsInv
    <3>6. \A t \in DOMAIN sessions : Flashing(t) => sessions[t].flash # n
      BY <3>1 DEF SecretsInv
    <3> HIDE DEF n, s
    <3>7. \A q \in Requests :
            /\ req'[q].pc = "acting" => req'[q].secret = 0
            /\ Finishing(q)' => req'[q].secret <= issued' /\ shown'[req'[q].secret] = 0
      BY <2>1, <2>2, <3>3 DEF SecretsInv
    <3>8. \A t \in DOMAIN sessions' :
            Flashing(t)' => sessions'[t].flash <= issued' /\ shown'[sessions'[t].flash] = 0
      BY <2>2, <3>1, <3>2, <3>4 DEF SecretsInv
    <3>9. \A p, q \in Requests :
            Finishing(p)' /\ Finishing(q)' /\ req'[p].secret = req'[q].secret => p = q
      BY <2>1, <3>3 DEF SecretsInv
    <3>10. \A t, v \in DOMAIN sessions' :
            Flashing(t)' /\ Flashing(v)' /\ sessions'[t].flash = sessions'[v].flash => t = v
      <4>0. \A t, v \in DOMAIN sessions :
              Flashing(t) /\ Flashing(v) /\ sessions[t].flash = sessions[v].flash => t = v
        BY Zenon DEF SecretsInv
      <4> SUFFICES ASSUME NEW t \in DOMAIN sessions', NEW v \in DOMAIN sessions',
                          Flashing(t)', Flashing(v)', sessions'[t].flash = sessions'[v].flash
                   PROVE  t = v
        OBVIOUS
      <4>1. t \in DOMAIN sessions /\ v \in DOMAIN sessions
        BY <3>2, Zenon
      <4>2. CASE t = s
        BY <3>2, <3>4, <3>6, <4>1, <4>2, Zenon
      <4>3. CASE v = s
        BY <3>2, <3>4, <3>6, <4>1, <4>3, Zenon
      <4>4. CASE t # s /\ v # s
        BY <3>2, <3>4, <4>0, <4>1, <4>4, Zenon
      <4> QED
        BY <4>2, <4>3, <4>4
    <3>11. \A q \in Requests, t \in DOMAIN sessions' :
            Finishing(q)' /\ Flashing(t)' => req'[q].secret # sessions'[t].flash
      <4>0. \A q \in Requests, t \in DOMAIN sessions :
              Finishing(q) /\ Flashing(t) => req[q].secret # sessions[t].flash
        BY Zenon DEF SecretsInv
      <4> SUFFICES ASSUME NEW q \in Requests, NEW t \in DOMAIN sessions',
                          Finishing(q)', Flashing(t)'
                   PROVE  req'[q].secret # sessions'[t].flash
        OBVIOUS
      <4>1. q # r /\ Finishing(q) /\ req'[q] = req[q] /\ t \in DOMAIN sessions
        BY <2>1, <3>2, <3>3, Zenon
      <4>2. CASE t = s
        BY <3>2, <3>5, <4>1, <4>2, Zenon
      <4>3. CASE t # s
        BY <3>2, <3>4, <4>0, <4>1, <4>3, Zenon
      <4> QED
        BY <4>2, <4>3
    <3>12. \A m \in 1..MaxSecrets : shown'[m] <= 1 /\ (m > issued' => shown'[m] = 0)
      BY <2>2 DEF SecretsInv
    <3> QED
      BY <3>7, <3>8, <3>9, <3>10, <3>11, <3>12 DEF SecretsInv
  <2> QED
    BY <2>3, <2>4
<1> QED
  BY <1>u, <1>1, <1>2, <1>3, <1>4, <1>5, <1>6, <1>7, <1>8, <1>9 DEF Next, Manage

\* A pairing code is displayed at most once: of its request, its session and the
\* page, it is in one place at a time (finishAction, takeFlash).
THEOREM SecretsShownOnce == Spec => []SecretsAreShownOnce
<1>1. Types /\ SecretsInv => SecretsAreShownOnce
  BY DEF Types, SecretsInv, SecretsAreShownOnce
<1> QED
  BY <1>1, InitTypes, StepTypes, InitSecrets, StepSecrets, PTL DEF Spec

=============================================================================
