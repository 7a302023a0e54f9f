------------------------------- MODULE AdminWeb ------------------------------
(***************************************************************************)
(* internal/adminweb: the administrator's web service.  Requests run        *)
(* concurrently; what a handler does under Handler.mu, inside the TOTP      *)
(* verifier's mutex or in one store call is one step, and what it read      *)
(* before is a field of its request.                                        *)
(*                                                                         *)
(* Credential 0 is the built-in account; the others are numbered as         *)
(* setupCredential prepares them, each with its name, password and secret.  *)
(* The one-time password of a secret is the time step it belongs to.        *)
(* Requests that change nothing (wrong passwords, bad origins, exhausted    *)
(* limits) are left out.  A session that expires is one that ends: Logout   *)
(* may end any session at any time.                                         *)
(***************************************************************************)
EXTENDS Integers, FiniteSets, Functions

CONSTANTS Requests,       \* requests served at a time
          MaxCredentials, \* bound: credentials ever prepared
          MaxSessions,    \* bound: sessions ever opened
          MaxSecrets,     \* bound: pairing codes issued
          MaxSteps,       \* bound: 30-second steps
          MaxRestarts     \* bound: process restarts

ASSUME AdminWebAssumption ==
    {MaxCredentials, MaxSessions, MaxSecrets, MaxSteps, MaxRestarts} \subseteq Nat

VARIABLES
    row,          \* the administrators row, 0 when there is none
    account,      \* Handler.account
    newest,       \* newest step each credential's verifier accepted, -1 if none
    sessions,     \* Handler.sessions: the open ones
    recoveryUsed,
    step,         \* the clock, in TOTP steps
    req,          \* the requests being served
    prepared, opened, issued, restarts,   \* counters for fresh values
    used,         \* history: newest step accepted for each credential
    replayed,     \* history: some code was accepted although it was used up
    confirmed,    \* history: credentials whose authenticator was confirmed
    shown,        \* history: how often each pairing code was displayed
    replaced      \* history: replacements since the start, and who made the last

handlerVars == <<account, newest, sessions, recoveryUsed>>
counters == <<prepared, opened, issued, restarts>>
history == <<used, replayed, confirmed, shown, replaced>>
vars == <<row, handlerVars, step, req, counters, history>>

Credentials == 0..MaxCredentials
SessionIds == 1..MaxSessions
Steps == 0..MaxSteps + 1
Unarmed == [c \in Credentials |-> -1]
Idle == [pc |-> "idle", session |-> 0, credential |-> 0, stored |-> <<>>, secret |-> 0]
NewSession(must) ==
    [mustInitialize |-> must, pending |-> 0, flash |-> 0, born |-> replaced.count]

Init ==
    /\ row = 0 /\ account = 0 /\ newest = Unarmed
    /\ sessions = [s \in {} |-> NewSession(TRUE)]
    /\ recoveryUsed = FALSE /\ step = 1
    /\ req = [r \in Requests |-> Idle]
    /\ prepared = 0 /\ opened = 0 /\ issued = 0 /\ restarts = 0
    /\ used = Unarmed /\ replayed = FALSE /\ confirmed = {}
    /\ shown = [n \in 1..MaxSecrets |-> 0] /\ replaced = [count |-> 0, by |-> 0]

Live(s) == s \in DOMAIN sessions
Put(s, value) ==
    [t \in DOMAIN sessions \cup {s} |-> IF t = s THEN value ELSE sessions[t]]
Goto(r, value) == req' = [req EXCEPT ![r] = value]
Done(r) == Goto(r, Idle)

-----------------------------------------------------------------------------
Tick ==
    /\ step < MaxSteps /\ step' = step + 1
    /\ UNCHANGED <<row, handlerVars, req, counters, history>>

\* NewHandler starts without sessions.
NoSessions == Restrict(sessions, {})

\* NewHandler in a new process: everything but the row is forgotten.
Restart ==
    /\ restarts < MaxRestarts /\ restarts' = restarts + 1
    /\ account' = row /\ newest' = Unarmed
    /\ sessions' = NoSessions /\ recoveryUsed' = FALSE
    /\ req' = [r \in Requests |-> Idle]
    /\ used' = Unarmed
    /\ replaced' = [count |-> 0, by |-> 0]
    /\ UNCHANGED <<row, step, prepared, opened, issued, replayed, confirmed,
                   shown>>

-----------------------------------------------------------------------------
(* verify: the code of a step next to the current one, above the newest.   *)

Verifies(c, k) == k \in step - 1..step + 1 /\ k > newest[c]

Accept(c, k) ==
    /\ newest' = [newest EXCEPT ![c] = k]
    /\ used' = [used EXCEPT ![c] = k]
    /\ replayed' = (replayed \/ k <= used[c])

-----------------------------------------------------------------------------
(* login                                                                    *)

\* authenticate up to the second factor, on a copy of the account.
CheckPassword(r) ==
    /\ req[r].pc = "idle" /\ opened < MaxSessions
    /\ Goto(r, [Idle EXCEPT !.pc = IF account = 0 THEN "authenticated" ELSE "factor",
                            !.credential = account])
    /\ UNCHANGED <<row, handlerVars, step, counters, history>>

CheckFactor(r) ==
    \E k \in Steps :
        /\ req[r].pc = "factor" /\ Verifies(req[r].credential, k)
        /\ Accept(req[r].credential, k)
        /\ Goto(r, [req[r] EXCEPT !.pc = "authenticated"])
        /\ UNCHANGED <<row, account, sessions, recoveryUsed, step, counters,
                       confirmed, shown, replaced>>

\* consumeRecoveryCode within its ten minutes.
UseRecoveryCode(r) ==
    /\ req[r].pc = "idle" /\ opened < MaxSessions /\ ~recoveryUsed
    /\ recoveryUsed' = TRUE
    /\ Goto(r, [Idle EXCEPT !.pc = "authenticated", !.credential = account])
    /\ UNCHANGED <<row, account, newest, sessions, step, counters, history>>

\* The account is looked at again when the session is stored.
OpenSession(r) ==
    /\ req[r].pc = "authenticated" /\ opened < MaxSessions
    /\ opened' = opened + 1
    /\ sessions' = Put(opened', NewSession(account = 0))
    /\ Done(r)
    /\ UNCHANGED <<row, account, newest, recoveryUsed, step, prepared, issued,
                   restarts, history>>

Logout(s) ==
    /\ Live(s)
    /\ sessions' = Restrict(sessions, DOMAIN sessions \ {s})
    /\ UNCHANGED <<row, account, newest, recoveryUsed, step, req, counters, history>>

-----------------------------------------------------------------------------
(* Credential changes                                                      *)

\* setupCredential: authorizeSessionPost, then hashing and a fresh secret.
StartSetup(r) ==
    \E s \in SessionIds :
        /\ req[r].pc = "idle" /\ Live(s) /\ prepared < MaxCredentials
        /\ Goto(r, [Idle EXCEPT !.pc = "preparing", !.session = s])
        /\ UNCHANGED <<row, handlerVars, step, counters, history>>

StorePending(r) ==
    LET s == req[r].session IN
    /\ req[r].pc = "preparing" /\ prepared < MaxCredentials
    /\ prepared' = prepared + 1
    /\ sessions' = IF s \in DOMAIN sessions
                   THEN [sessions EXCEPT ![s].pending = prepared'] ELSE sessions
    /\ Done(r)
    /\ UNCHANGED <<row, account, newest, recoveryUsed, step, opened, issued,
                   restarts, history>>

\* setupSecondFactor: the session as it is when its pending change is read.
StartConfirm(r) ==
    \E s \in SessionIds :
        /\ req[r].pc = "idle" /\ Live(s) /\ sessions[s].pending # 0
        /\ Goto(r, [Idle EXCEPT !.pc = "confirming", !.session = s, !.stored = sessions[s],
                                !.credential = sessions[s].pending])
        /\ UNCHANGED <<row, handlerVars, step, counters, history>>

ConfirmFactor(r) ==
    \E k \in Steps :
        /\ req[r].pc = "confirming" /\ Verifies(req[r].credential, k)
        /\ Accept(req[r].credential, k)
        /\ confirmed' = confirmed \cup {req[r].credential}
        /\ Goto(r, [req[r] EXCEPT !.pc = "saving"])
        /\ UNCHANGED <<row, account, sessions, recoveryUsed, step, counters, shown,
                       replaced>>

SaveAdministrator(r) ==
    /\ req[r].pc = "saving"
    /\ row' = req[r].credential
    /\ Goto(r, [req[r] EXCEPT !.pc = "replacing"])
    /\ UNCHANGED <<handlerVars, step, counters, history>>

\* Mutant: the other sessions stay.
MutKeepSessions(r) == DOMAIN sessions \cup {req[r].session}

Survivors(r) == {req[r].session}

WrittenBack(r) == [req[r].stored EXCEPT !.pending = 0, !.flash = 0, !.mustInitialize = FALSE]

\* Mutant: the account gets a verifier of its own.
MutFreshVerifier(r) == [newest EXCEPT ![req[r].credential] = -1]

\* updated.secondFactor: the verifier that accepted the confirmation.
AdoptedVerifier(r) == newest

\* The account changes and every other session ends.  The session is written
\* back as it was read, so one that ended meanwhile is there again.
ReplaceAccount(r) ==
    LET s == req[r].session IN
    /\ req[r].pc = "replacing"
    /\ account' = req[r].credential
    /\ newest' = AdoptedVerifier(r)
    /\ sessions' = [t \in Survivors(r) |-> IF t = s THEN WrittenBack(r) ELSE sessions[t]]
    /\ replaced' = [count |-> replaced.count + 1, by |-> s]
    /\ Done(r)
    /\ UNCHANGED <<row, recoveryUsed, step, counters, used, replayed, confirmed, shown>>

\* A wrong code, a change that lapsed, or a store call that fails.  Not the reading
\* back before the replacement: accountFromCredential parses what setupCredential
\* validated and encoded itself.
GiveUp(r) ==
    /\ req[r].pc \in {"factor", "confirming", "saving"}
    /\ Done(r)
    /\ UNCHANGED <<row, handlerVars, step, counters, history>>

-----------------------------------------------------------------------------
(* Management                                                              *)

\* Mutant: a management request only needs a session.
MutAnySessionManages(s) == Live(s)

\* authorizeManagementPost
MayManage(s) == Live(s) /\ ~sessions[s].mustInitialize

Authorize(r) ==
    \E s \in SessionIds :
        /\ req[r].pc = "idle" /\ MayManage(s)
        /\ Goto(r, [Idle EXCEPT !.pc = "acting", !.session = s])
        /\ UNCHANGED <<row, handlerVars, step, counters, history>>

\* issuePairingCode; the other actions, and a failed one, bring no secret back.
Act(r) ==
    /\ req[r].pc = "acting"
    /\ \/ /\ issued < MaxSecrets /\ issued' = issued + 1
          /\ Goto(r, [req[r] EXCEPT !.pc = "finishing", !.secret = issued'])
       \/ Goto(r, [req[r] EXCEPT !.pc = "finishing"]) /\ UNCHANGED issued
    /\ UNCHANGED <<row, handlerVars, step, prepared, opened, restarts, history>>

FinishAction(r) ==
    LET s == req[r].session IN
    /\ req[r].pc = "finishing"
    /\ sessions' = IF s \in DOMAIN sessions
                   THEN [sessions EXCEPT ![s].flash = req[r].secret] ELSE sessions
    /\ Done(r)
    /\ UNCHANGED <<row, account, newest, recoveryUsed, step, counters, history>>

\* dashboard: takeFlash shows a message and removes it from the session.
Dashboard(s) ==
    /\ MayManage(s) /\ sessions[s].flash # 0
    /\ shown' = [shown EXCEPT ![sessions[s].flash] = @ + 1]
    /\ sessions' = [sessions EXCEPT ![s].flash = 0]
    /\ UNCHANGED <<row, account, newest, recoveryUsed, step, req, counters, used, replayed,
                   confirmed, replaced>>

-----------------------------------------------------------------------------
Login(r) == CheckPassword(r) \/ CheckFactor(r) \/ UseRecoveryCode(r) \/ OpenSession(r)
Setup(r) ==
    \/ StartSetup(r) \/ StorePending(r) \/ StartConfirm(r) \/ ConfirmFactor(r)
    \/ SaveAdministrator(r) \/ ReplaceAccount(r) \/ GiveUp(r)
Manage(r) == Authorize(r) \/ Act(r) \/ FinishAction(r)

Next ==
    \/ Tick \/ Restart
    \/ \E s \in SessionIds : Logout(s) \/ Dashboard(s)
    \/ \E r \in Requests : Login(r) \/ Setup(r) \/ Manage(r)

Spec == Init /\ [][Next]_vars

-----------------------------------------------------------------------------
\* Types of the row, the account, the sessions and the requests.
TypeOK ==
    /\ row \in Credentials /\ account \in Credentials /\ newest \in [Credentials -> Steps \cup {-1}]
    /\ DOMAIN sessions \subseteq 1..opened
    /\ \A s \in DOMAIN sessions :
        sessions[s] \in [mustInitialize : BOOLEAN, pending : 0..prepared,
                         flash : 0..issued, born : 0..replaced.count]
    /\ recoveryUsed \in BOOLEAN /\ step \in 1..MaxSteps
    /\ confirmed \subseteq 1..prepared

\* Before the built-in credentials are replaced nobody manages anything: an open
\* session that may manage, and a request that was authorized to, imply an
\* initialized account, and that account is in the database, so that a restart
\* does not bring the built-in one back.
ManagersAreSetUp ==
    (\/ \E s \in DOMAIN sessions : ~sessions[s].mustInitialize
     \/ \E r \in Requests : req[r].pc \in {"acting", "finishing"})
        => account # 0 /\ row # 0

\* Replacing the credentials ends every other session, whatever those sessions
\* have in flight: an open session was opened after the last replacement or made
\* it (setupSecondFactor).
OnlyReplacerSurvives ==
    \A s \in DOMAIN sessions : sessions[s].born = replaced.count \/ s = replaced.by

\* A credential is stored only after its own authenticator produced a code, also
\* when a second set-up replaced the pending one in between.
OnlyConfirmedIsStored == row \in {0} \cup confirmed /\ account \in {0} \cup confirmed

\* While the process lives no one-time password is accepted twice, by logins, by
\* confirmations, or by one after the other.
CodesAreAcceptedOnce == ~replayed

\* A pairing code is displayed at most once, although the session that carries it
\* is copied, written back and read by concurrent requests.
SecretsAreShownOnce == \A n \in DOMAIN shown : shown[n] <= 1

\* Refuted: the account in memory is the stored one once no change is in flight.
\* Two confirmations that save in one order and replace in the other part them.
AccountIsStored ==
    (\A r \in Requests : req[r].pc # "replacing") => account = row

\* Refuted: a login opens a session only of the account it was checked against.
\* A set-up that completes in between leaves a login with the built-in password
\* with a session that may manage.
LoginsAreCurrent ==
    [][\A r \in Requests :
         req[r].pc = "authenticated" /\ req'[r].pc = "idle" /\ opened' > opened
             => req[r].credential = account]_vars

\* Refuted: a session that has been logged out stays closed.  A confirmation of
\* the same session that is in flight writes it back.
LogoutIsFinal ==
    [][\A s \in SessionIds :
         s \in 1..opened /\ s \notin DOMAIN sessions => s \notin DOMAIN sessions']_vars

=============================================================================
