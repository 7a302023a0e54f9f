--------------------------- MODULE DeviceRequests ----------------------------
(***************************************************************************)
(* Requests of devices against the registry, statement by statement, while  *)
(* devices rotate their credentials and an administrator revokes them:      *)
(* preference reads and writes (internal/httpapi/preferences.go),           *)
(* credential rotation (credential_rotation.go), the authentication of a    *)
(* relay connection, and durable routing up to the append (hub.go).         *)
(*                                                                         *)
(* The n-th token of a device is the number n.  A request sits in a slot    *)
(* from its sending to the arrival or loss of its answer; it may be delayed *)
(* for as long as the slot is taken, and sent again in another slot.  A     *)
(* preference is the device that wrote it.                                  *)
(***************************************************************************)
EXTENDS Integers, Sequences

CONSTANTS Devices, Slots, None,
          Managed,       \* the devices the administrator rotates and revokes
          MaxToken,      \* bound: credential rotations
          MaxCodes,      \* bound: rotation codes of a device
          MaxRevision    \* bound: preference revisions

ASSUME RequestsAssumption ==
    /\ Managed \subseteq Devices /\ None \notin Devices
    /\ MaxToken \in Nat \ {0} /\ MaxCodes \in Nat /\ MaxRevision \in Nat

VARIABLES
    devices,      \* registry rows: token, credential_version, revoked_at_ms
    codes,        \* credential_rotation_codes of each device, by number
    preference,   \* the workspace_preferences row of one key
    client,       \* external: tokens and the preference a device knows
    req,          \* the request in each slot
    log,          \* history: accepted preference writes
    lateEffects   \* history: kinds of requests that came too late and acted

vars == <<devices, codes, preference, client, req, log, lateEffects>>

Kinds == {"read", "write", "connect", "rotate", "route"}
Acting == {"write", "rotate", "route"}
NoAnswer == [revision |-> 0, payload |-> None]
Idle == [pc |-> "idle", kind |-> "read", from |-> CHOOSE d \in Devices : TRUE, token |-> 0,
         to |-> None, number |-> 0, pending |-> 0, payload |-> None, base |-> None,
         late |-> FALSE, answer |-> NoAnswer]

Init ==
    /\ devices = [d \in Devices |-> [token |-> 1, version |-> 1, revoked |-> FALSE]]
    /\ codes = [d \in Devices |-> <<>>]
    /\ preference = [revision |-> 0, payload |-> None]
    /\ client = [d \in Devices |-> [current |-> 1, pending |-> 0,
                                    revision |-> 0, payload |-> None]]
    /\ req = [s \in Slots |-> Idle]
    /\ log = <<>> /\ lateEffects = {}

Pc(s) == req[s].pc
From(s) == req[s].from
Goto(s, where) == req' = [req EXCEPT ![s].pc = where]
Answer(s, revision, payload) ==
    req' = [req EXCEPT ![s] = [Idle EXCEPT !.pc = "answered", !.kind = req[s].kind,
               !.from = From(s), !.token = IF req[s].kind = "connect" THEN req[s].token ELSE 0,
               !.answer = [revision |-> revision, payload |-> payload]]]
\* An answer the device learns nothing from: a refusal, a conflict, "rotated"
\* (which a device must not act on) or the silence of a routed envelope.
Finish(s) == req' = [req EXCEPT ![s] = Idle]
Effect(s) ==
    lateEffects' = IF req[s].late THEN lateEffects \cup {req[s].kind} ELSE lateEffects

-----------------------------------------------------------------------------
(* External: the administrator and the devices.                            *)

IssueCredentialRotationCode(d) ==
    /\ ~devices[d].revoked /\ Len(codes[d]) < MaxCodes
    /\ codes' = [codes EXCEPT ![d] = Append(@, "live")]
    /\ UNCHANGED <<devices, preference, client, req, log, lateEffects>>

RevokeDevice(d) ==
    /\ ~devices[d].revoked
    /\ devices' = [devices EXCEPT ![d].revoked = TRUE]
    /\ UNCHANGED <<codes, preference, client, req, log, lateEffects>>

\* A rotating device uses either of its tokens.
Send(s, d, kind) ==
    \E t \in {client[d].current, client[d].pending} \ {0} :
        /\ Pc(s) = "idle"
        /\ req' = [req EXCEPT ![s] = [Idle EXCEPT !.pc = "sent", !.kind = kind, !.from = d,
                      !.token = t]]

SendWrite(s, d) ==
    \E t \in {client[d].current, client[d].pending} \ {0} :
        /\ Pc(s) = "idle" /\ client[d].revision < MaxRevision
        /\ req' = [req EXCEPT ![s] = [Idle EXCEPT !.pc = "sent", !.kind = "write",
                      !.from = d, !.token = t, !.number = client[d].revision,
                      !.payload = d, !.base = client[d].payload]]

SendEnvelope(s, d) ==
    \E to \in Managed \ {d} :
        /\ Pc(s) = "idle"
        /\ req' = [req EXCEPT ![s] = [Idle EXCEPT !.pc = "sent", !.kind = "route",
                      !.from = d, !.to = to]]

SendRequest(s, d) ==
    /\ \/ Send(s, d, "read") \/ SendEnvelope(s, d)
       \/ SendWrite(s, d)
       \/ client[d].pending # 0 /\ Send(s, d, "connect")
    /\ UNCHANGED <<devices, codes, preference, client, log, lateEffects>>

\* A device keeps one pending token until the relay accepts it, and repeats the
\* rotation with that token.
SendRotation(s, d) ==
    \E c \in DOMAIN codes[d] :
        LET pending == IF client[d].pending = 0 THEN client[d].current + 1
                       ELSE client[d].pending
        IN  /\ Pc(s) = "idle" /\ pending <= MaxToken
            /\ client' = [client EXCEPT ![d].pending = pending]
            /\ req' = [req EXCEPT ![s] = [Idle EXCEPT !.pc = "sent", !.kind = "rotate",
                          !.from = d, !.token = client[d].current, !.number = c,
                          !.pending = pending]]
            /\ UNCHANGED <<devices, codes, preference, log, lateEffects>>

\* A device trusts a pending token only once the relay has accepted it.
Learn(d, r) ==
    CASE r.kind = "connect" /\ r.token = client[d].pending ->
            [client[d] EXCEPT !.current = r.token, !.pending = 0]
      [] r.kind \in {"read", "write"} ->
            [client[d] EXCEPT !.revision = r.answer.revision, !.payload = r.answer.payload]
      [] OTHER -> client[d]

ReceiveAnswer(s) ==
    /\ Pc(s) = "answered"
    /\ client' = [client EXCEPT ![From(s)] = Learn(From(s), req[s])]
    /\ req' = [req EXCEPT ![s] = Idle]
    /\ UNCHANGED <<devices, codes, preference, log, lateEffects>>

\* The request or its answer is lost, a rotation code has expired, or a store
\* call fails and is rolled back.
Lose(s) ==
    /\ Pc(s) # "idle"
    /\ req' = [req EXCEPT ![s] = Idle]
    /\ UNCHANGED <<devices, codes, preference, client, log, lateEffects>>

-----------------------------------------------------------------------------
(* The server.                                                             *)

\* Too late: the device, or the recipient, is already revoked, or the token is
\* already replaced, when the handler starts.
TooLate(r) ==
    IF r.kind = "route" THEN devices[r.to].revoked
    ELSE devices[r.from].revoked \/ r.token < devices[r.from].token

\* The handler starts on a decoded request.
BeginHandler(s) ==
    /\ Pc(s) = "sent"
    /\ req' = [req EXCEPT ![s] = [req[s] EXCEPT
                 !.late = req[s].kind \in Acting /\ TooLate(req[s]),
                 !.pc = CASE req[s].kind = "rotate" -> "rotating"
                          [] req[s].kind = "route" -> "authorizing"
                          [] OTHER -> "matching"]]
    /\ UNCHANGED <<devices, codes, preference, client, log, lateEffects>>

\* Mutant: the statements find the row by its id and its state alone.
MutAnyToken(s) == ~devices[From(s)].revoked

\* The condition of both statements of Store.Authenticate.
RowMatches(s) == ~devices[From(s)].revoked /\ devices[From(s)].token = req[s].token

MarkOnline(s) ==
    /\ Pc(s) = "matching"
    /\ IF RowMatches(s) THEN Goto(s, "loading") ELSE Finish(s)
    /\ UNCHANGED <<devices, codes, preference, client, log, lateEffects>>

LoadIdentity(s) ==
    /\ Pc(s) = "loading"
    /\ CASE ~RowMatches(s) -> Finish(s)
         [] RowMatches(s) /\ req[s].kind = "read" -> Goto(s, "reading")
         [] RowMatches(s) /\ req[s].kind = "write" -> Goto(s, "writing")
         [] OTHER -> Answer(s, 0, None)
    /\ UNCHANGED <<devices, codes, preference, client, log, lateEffects>>

ReadWorkspacePreference(s) ==
    /\ Pc(s) = "reading"
    /\ Answer(s, preference.revision, preference.payload)
    /\ UNCHANGED <<devices, codes, preference, client, log, lateEffects>>

\* Mutant: creating a key replaces the value that is there.
MutCreateOverwrites(s) == preference.revision = req[s].number \/ req[s].number = 0

\* INSERT ... ON CONFLICT DO NOTHING for a new key, UPDATE ... WHERE revision = ?
\* for another: one compare-and-set, since keys are never deleted.
RevisionIsExpected(s) == preference.revision = req[s].number

WriteWorkspacePreference(s) ==
    /\ Pc(s) = "writing"
    /\ IF RevisionIsExpected(s)
       THEN /\ preference' = [revision |-> req[s].number + 1, payload |-> req[s].payload]
            /\ log' = Append(log, [base |-> req[s].base, payload |-> req[s].payload])
            /\ Answer(s, req[s].number + 1, req[s].payload)
            /\ Effect(s)
       ELSE /\ Finish(s)
            /\ UNCHANGED <<preference, log, lateEffects>>
    /\ UNCHANGED <<devices, codes, client>>

MayRotate(s) ==
    /\ codes[From(s)][req[s].number] # "spent"
    /\ ~devices[From(s)].revoked /\ devices[From(s)].token = req[s].token

\* RotateCredential: one transaction consumes the code and replaces the token.
RotateCredential(s) ==
    /\ Pc(s) = "rotating"
    /\ IF MayRotate(s)
       THEN /\ codes' = [codes EXCEPT ![From(s)][req[s].number] = "spent"]
            /\ devices' = [devices EXCEPT ![From(s)] =
                   [devices[From(s)] EXCEPT !.token = req[s].pending, !.version = @ + 1]]
            /\ Finish(s)
            /\ Effect(s)
       ELSE Finish(s) /\ UNCHANGED <<codes, devices, lateEffects>>
    /\ UNCHANGED <<preference, client, log>>

\* Mutant: RouteDurable appends without asking for the recipient.
MutRecipientNotChecked(s) ==
    /\ Pc(s) = "authorizing"
    /\ Goto(s, "appending")
    /\ UNCHANGED <<devices, codes, preference, client, log, lateEffects>>

AuthorizeRecipient(s) ==
    /\ Pc(s) = "authorizing"
    /\ IF devices[req[s].to].revoked THEN Finish(s) ELSE Goto(s, "appending")
    /\ UNCHANGED <<devices, codes, preference, client, log, lateEffects>>

\* AppendDelivery itself does not look at the recipient's row.
AppendDelivery(s) ==
    /\ Pc(s) = "appending"
    /\ Finish(s) /\ Effect(s)
    /\ UNCHANGED <<devices, codes, preference, client, log>>

Next ==
    \/ \E d \in Managed :
        IssueCredentialRotationCode(d) \/ RevokeDevice(d)
    \/ \E d \in Devices, s \in Slots : SendRequest(s, d) \/ SendRotation(s, d)
    \/ \E s \in Slots :
        \/ ReceiveAnswer(s) \/ Lose(s) \/ BeginHandler(s)
        \/ MarkOnline(s) \/ LoadIdentity(s)
        \/ ReadWorkspacePreference(s) \/ WriteWorkspacePreference(s)
        \/ RotateCredential(s)
        \/ AuthorizeRecipient(s) \/ AppendDelivery(s)

Spec == Init /\ [][Next]_vars

-----------------------------------------------------------------------------
\* Types of the registry's rows, the clients and the requests.
TypeOK ==
    /\ \A d \in Devices :
        /\ devices[d] \in [token : 1..MaxToken, version : 1..MaxToken, revoked : BOOLEAN]
        /\ codes[d] \in Seq({"live", "spent"}) /\ Len(codes[d]) <= MaxCodes
        /\ client[d].current \in 1..MaxToken /\ client[d].pending \in 0..MaxToken
        /\ client[d].revision \in 0..MaxRevision
    /\ preference \in [revision : 0..MaxRevision, payload : Devices \cup {None}]
    /\ \A s \in Slots : req[s].kind \in Kinds /\ req[s].number \in Nat
    /\ lateEffects \subseteq Kinds

\* A write replaces exactly the value its device had read when it composed it,
\* whatever was retried, delayed or reordered in between: a device that fell
\* behind cannot discard what another one wrote (WriteWorkspacePreference).
NoLostUpdate ==
    \A i \in DOMAIN log : log[i].base = IF i = 1 THEN None ELSE log[i - 1].payload

\* A revision names one value for ever: every answer and every device's copy is
\* the value that revision got when it was written.
Written(revision, payload) ==
    IF revision = 0 THEN payload = None
    ELSE revision <= Len(log) /\ log[revision].payload = payload
RevisionNamesValue ==
    /\ Written(preference.revision, preference.payload) /\ preference.revision = Len(log)
    /\ \A d \in Devices : Written(client[d].revision, client[d].payload)
    /\ \A s \in Slots : req[s].kind \in {"read", "write"} /\ Pc(s) = "answered" =>
                           Written(req[s].answer.revision, req[s].answer.payload)

\* Authentication and effect are separate statements, so a request in flight at
\* a revocation or rotation may still act; one whose handler starts afterwards
\* changes nothing: no preference, no credential, no queue of the recipient.
LateRequestsChangeNothing == lateEffects = {}

\* Whatever is lost or repeated, the token the registry accepts is one the device
\* still holds (protocol/transport-credential-rotation-v1.md), so a device is
\* never locked out by its own rotation.
NeverLockedOut ==
    \A d \in Devices : devices[d].token \in {client[d].current, client[d].pending}

\* A repeated rotation request does not count twice: the credential version,
\* which the monitor disconnects sessions by, changes exactly with the token.
VersionFollowsToken == \A d \in Devices : devices[d].version = devices[d].token

=============================================================================
