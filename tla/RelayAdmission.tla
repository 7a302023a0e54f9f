--------------------------- MODULE RelayAdmission ----------------------------
(***************************************************************************)
(* internal/relay/authenticated_handler.go: what a relay connection passes  *)
(* before it is served: the attempt window of its address, an               *)
(* authentication slot, the authentication frame with its deadline, and the *)
(* two statements of Store.Authenticate, while an administrator revokes the *)
(* device or the device rotates its token.                                  *)
(*                                                                         *)
(* A token is the credential version it was issued for.  The clock is read  *)
(* when a request arrives and used when it gets the limiter's mutex.        *)
(***************************************************************************)
EXTENDS FixedWindow

CONSTANTS Conns, Addresses,
          MaxConcurrent,   \* authentication slots
          MaxTries,        \* bound: attempts of one client
          MaxTime,         \* bound: the clock
          MaxVersion       \* bound: credential rotations

ASSUME AdmissionAssumption ==
    /\ MaxConcurrent \in Nat \ {0}
    /\ MaxTries \in Nat /\ MaxTime \in Nat /\ MaxVersion \in Nat \ {0}

VARIABLES
    now,
    entries,      \* the windows of authAttemptLimiter
    authSlots,    \* tokens in the authSlots channel
    pc, attempt,  \* each client: where its handler stands, its address and clock
    tries, token,
    credential, revoked,   \* the device's row
    version,      \* credential version a connection is served with
    accepted,     \* history: the attempts let through
    late          \* history: frames that came after the revocation

clientVars == <<pc, attempt, tries, token, version, late>>
rowVars == <<credential, revoked>>
vars == <<now, entries, authSlots, clientVars, rowVars, accepted>>

Times == 0..MaxTime
Resting == {"idle", "refused", "closed"}
Upgraded == {"reading", "matching", "loading", "authenticated", "closing"}
Holding == Upgraded \cup {"upgrading"}

NoAttempt == [address |-> "none", at |-> 0]

Init ==
    /\ now = 0 /\ entries = NoEntries /\ authSlots = 0
    /\ pc = [c \in Conns |-> "idle"]
    /\ attempt = [c \in Conns |-> NoAttempt]
    /\ tries = [c \in Conns |-> 0]
    /\ token = [c \in Conns |-> 0] /\ version = [c \in Conns |-> 0]
    /\ credential = 1 /\ revoked = FALSE
    /\ accepted = {} /\ late = {}

Goto(c, where) == pc' = [pc EXCEPT ![c] = where]

-----------------------------------------------------------------------------
Tick ==
    /\ now < MaxTime /\ now' = now + 1
    /\ UNCHANGED <<entries, authSlots, clientVars, rowVars, accepted>>

RotateCredential ==
    /\ ~revoked /\ credential < MaxVersion /\ credential' = credential + 1
    /\ UNCHANGED <<now, entries, authSlots, clientVars, revoked, accepted>>

RevokeDevice ==
    /\ ~revoked /\ revoked' = TRUE
    /\ UNCHANGED <<now, entries, authSlots, clientVars, credential, accepted>>

\* A client connects, first or again; the handler reads its clock.
Arrive(c) ==
  \E a \in Addresses :
    /\ pc[c] \in Resting /\ tries[c] < MaxTries
    /\ Goto(c, "arrived")
    /\ tries' = [tries EXCEPT ![c] = @ + 1]
    /\ attempt' = [attempt EXCEPT ![c] = [address |-> a, at |-> now]]
    /\ UNCHANGED <<now, entries, authSlots, token, version, late, rowVars, accepted>>

\* What the history keeps of an attempt that is let through: its place in the
\* order of decisions, the clock it was decided by and the time of the decision.
Admission(c) ==
    [place |-> Cardinality(accepted) + 1, address |-> attempt[c].address,
     at |-> attempt[c].at, decided |-> now]

\* attempts.allow: one decision under the limiter's mutex.
CheckAttempt(c) ==
    LET decision == Allow(entries, attempt[c].address, attempt[c].at) IN
    /\ pc[c] = "arrived"
    /\ entries' = decision.entries
    /\ Goto(c, IF decision.allowed THEN "allowed" ELSE "refused")
    /\ accepted' = IF decision.allowed
                   THEN accepted \cup {Admission(c)} ELSE accepted
    /\ attempt' = [attempt EXCEPT ![c] = NoAttempt]
    /\ UNCHANGED <<now, authSlots, tries, token, version, late, rowVars>>

TakeSlot(c) ==
    /\ pc[c] = "allowed" /\ authSlots < MaxConcurrent
    /\ authSlots' = authSlots + 1
    /\ Goto(c, "upgrading")
    /\ UNCHANGED <<now, entries, attempt, tries, token, version, late, rowVars, accepted>>

NoSlot(c) ==
    /\ pc[c] = "allowed" /\ authSlots = MaxConcurrent
    /\ Goto(c, "refused")
    /\ UNCHANGED <<now, entries, authSlots, attempt, tries, token, version, late, rowVars,
                   accepted>>

Upgrade(c) ==
    /\ pc[c] = "upgrading"
    /\ Goto(c, "reading")
    /\ UNCHANGED <<now, entries, authSlots, attempt, tries, token, version, late, rowVars,
                   accepted>>

\* Mutant: the deferred release is registered after the upgrade.
MutUpgradeKeepsSlot(c) ==
    /\ pc[c] = "upgrading"
    /\ Goto(c, "closed")
    /\ UNCHANGED <<now, entries, authSlots, attempt, tries, token, version, late, rowVars,
                   accepted>>

UpgradeFails(c) ==
    /\ pc[c] = "upgrading"
    /\ authSlots' = authSlots - 1
    /\ Goto(c, "closed")
    /\ UNCHANGED <<now, entries, attempt, tries, token, version, late, rowVars, accepted>>

\* readAuthenticationFrame: a well-formed frame with a token once issued.
ReadFrame(c) ==
    \E t \in 1..credential :
        /\ pc[c] = "reading"
        /\ token' = [token EXCEPT ![c] = t]
        /\ late' = IF revoked THEN late \cup {c} ELSE late
        /\ Goto(c, "matching")
        /\ UNCHANGED <<now, entries, authSlots, attempt, tries, version, rowVars, accepted>>

\* Mutant: no read deadline; only a frame or the client ends the wait.
MutNoFrameDeadline(c) == FALSE

\* A malformed frame, a closed socket, or the frame's deadline.
FrameFails(c) ==
    /\ pc[c] = "reading"
    /\ Goto(c, "closing")
    /\ UNCHANGED <<now, entries, authSlots, attempt, tries, token, version, late, rowVars,
                   accepted>>

RowMatches(c) == ~revoked /\ credential = token[c]

\* Store.Authenticate: UPDATE ... WHERE auth_token_hash = ?, then a SELECT with
\* the same condition.  Either may also fail.
MarkOnline(c) ==
    /\ pc[c] = "matching"
    /\ \/ RowMatches(c) /\ Goto(c, "loading")
       \/ Goto(c, "closing")
    /\ UNCHANGED <<now, entries, authSlots, attempt, tries, token, version, late, rowVars,
                   accepted>>

\* Mutant: the SELECT finds the row by its id alone.
MutLoadById(c) ==
    /\ pc[c] = "loading"
    /\ \/ /\ ~revoked
          /\ version' = [version EXCEPT ![c] = credential]
          /\ Goto(c, "authenticated")
       \/ Goto(c, "closing") /\ UNCHANGED version
    /\ UNCHANGED <<now, entries, authSlots, attempt, tries, token, late, rowVars, accepted>>

LoadIdentity(c) ==
    /\ pc[c] = "loading"
    /\ \/ /\ RowMatches(c)
          /\ version' = [version EXCEPT ![c] = credential]
          /\ Goto(c, "authenticated")
       \/ Goto(c, "closing") /\ UNCHANGED version
    /\ UNCHANGED <<now, entries, authSlots, attempt, tries, token, late, rowVars, accepted>>

\* The slot goes back before the session is served.
StartServing(c) ==
    /\ pc[c] = "authenticated"
    /\ authSlots' = authSlots - 1
    /\ Goto(c, "serving")
    /\ UNCHANGED <<now, entries, attempt, tries, token, version, late, rowVars, accepted>>

Forget(c) ==
    /\ token' = [token EXCEPT ![c] = 0] /\ version' = [version EXCEPT ![c] = 0]
    /\ late' = late \ {c}

\* writeGenericClose, then the deferred calls: the socket closes before the
\* slot goes back.
CloseUnauthenticated(c) ==
    /\ pc[c] = "closing"
    /\ authSlots' = authSlots - 1
    /\ Goto(c, "closed") /\ Forget(c)
    /\ UNCHANGED <<now, entries, attempt, tries, rowVars, accepted>>

EndSession(c) ==
    /\ pc[c] = "serving"
    /\ Goto(c, "closed") /\ Forget(c)
    /\ UNCHANGED <<now, entries, authSlots, attempt, tries, rowVars, accepted>>

Handler(c) ==
    CheckAttempt(c) \/ TakeSlot(c) \/ NoSlot(c) \/ Upgrade(c) \/ UpgradeFails(c)
        \/ FrameFails(c) \/ MarkOnline(c) \/ LoadIdentity(c) \/ StartServing(c)
        \/ CloseUnauthenticated(c)

Next ==
    \/ Tick \/ RotateCredential \/ RevokeDevice
    \/ \E c \in Conns : Arrive(c) \/ Handler(c) \/ ReadFrame(c) \/ EndSession(c)

\* A handler that can go on does, and the frame's deadline passes; nobody has to
\* connect, to send a frame or to leave.
Spec == Init /\ [][Next]_vars /\ \A c \in Conns : WF_vars(Handler(c))

-----------------------------------------------------------------------------
\* Types; the slots stay within their capacity and the windows within theirs.
TypeOK ==
    /\ now \in Times /\ authSlots \in 0..MaxConcurrent
    /\ DOMAIN entries \subseteq Addresses /\ Cardinality(DOMAIN entries) <= MaxEntries
    /\ \A a \in DOMAIN entries : entries[a] \in [startedAt : Times, attempts : 1..Limit]
    /\ pc \in [Conns -> Resting \cup Holding \cup {"arrived", "allowed", "serving"}]
    /\ attempt \in [Conns -> {NoAttempt} \cup [address : Addresses, at : Times]]
    /\ tries \in [Conns -> 0..MaxTries]
    /\ token \in [Conns -> 0..MaxVersion] /\ version \in [Conns -> 0..MaxVersion]
    /\ credential \in 1..MaxVersion /\ revoked \in BOOLEAN /\ late \subseteq Conns

\* Whatever a handshake meets (a failed upgrade, a bad frame, a deadline, a
\* registry error, success), it holds exactly one slot while it runs and none
\* afterwards: no slot leaks and none is given back twice.
SlotsMatchHolders == authSlots = Cardinality({c \in Conns : pc[c] \in Holding})

LetThroughSince(a, from) == {x \in accepted : x.address = a /\ from <= x.decided}

LetThroughWithin(a, from, to) == {x \in LetThroughSince(a, from) : x.decided <= to}

\* How long the address's attempts waited between reading the clock and the
\* limiter's mutex.
WaitedAtMost(a, wait) == \A x \in accepted : x.address = a => x.decided - x.at <= wait

\* Windows that start and expire by clocks read before the wait for the mutex
\* still space an address's attempts (Allow): when none of those let through
\* waited longer than `wait`, fewer than twice the limit pass in any time shorter
\* by `wait` than a window, across the end of a window and whatever other
\* addresses do to the table.
AtMostTwoWindows ==
    \A a \in Addresses, t \in Times, wait \in 0..Window - 1 :
        WaitedAtMost(a, wait) =>
            Cardinality(LetThroughWithin(a, t, t + Window - wait - 1)) < 2 * Limit

\* An attempt is turned away only when a full window's attempts of its own
\* address were let through, or every window of the table belongs to another
\* address that was let through, less than a window before it arrived or since:
\* stale entries never lock a client out.
RefusalIsJustified ==
    [][\A c \in Conns :
         pc[c] = "arrived" /\ pc'[c] = "refused" =>
             LET own == attempt[c].address
                 from == attempt[c].at - Window + 1
             IN  \/ Cardinality(LetThroughSince(own, from)) >= Limit
                 \/ Cardinality({a \in Addresses \ {own} :
                        LetThroughSince(a, from) # {}}) >= MaxEntries]_vars

\* Store.Authenticate's two statements are not one transaction; still a
\* connection is served with the version whose token it presented, so that a
\* rotation between them cannot lend an old token the new version.
ServedVersionIsProved == \A c \in Conns : pc[c] = "serving" => version[c] = token[c]

\* A frame sent after the device was revoked never leads to a session.
RevokedStaysOut == \A c \in Conns : pc[c] = "serving" => c \notin late

\* Every handshake gives its slot back, even to a client that sends nothing.
HandshakesEnd == \A c \in Conns : pc[c] \in Holding ~> pc[c] \notin Holding

=============================================================================
