------------------------------- MODULE Registry -------------------------------
(***************************************************************************)
(* The membership registry of one workspace (internal/admission/store.go): *)
(* pairing codes, the life of a device from registration to revocation,    *)
(* the signed roster chain, authority rotation and credential rotation.    *)
(*                                                                         *)
(* SQLite runs each transaction alone, so a store method is one action;    *)
(* its guard is the conjunction of its checks, and a refused call changes  *)
(* nothing.  A signature is the key that made it, a certificate or roster  *)
(* digest is the value digested.  Callers that read, think and then write  *)
(* are in RegistryAccess, which passes the store methods what it read.     *)
(***************************************************************************)
EXTENDS Integers, FiniteSets, Sequences

CONSTANTS Devices, Names,
          Keys, InitialKey,  \* authority keys, and the one the workspace starts with
          Tokens,            \* transport credentials clients generate
          Codes,             \* pairing and rotation codes
          MaxActive,         \* MaxActiveCertificates
          MaxRevocations,
          MaxEpoch,          \* bound on roster epochs
          None

Certificates == [device : Devices, name : Names, epoch : Nat, key : Keys]

ASSUME RegistryAssumption ==
    /\ InitialKey \in Keys
    /\ MaxActive \in Nat /\ MaxRevocations \in Nat /\ MaxEpoch \in Nat
    /\ None \notin Devices \cup Names \cup Keys \cup Tokens /\ None \notin Certificates

VARIABLES
    authority,    \* workspaces.authority_public_key
    transitions,  \* workspace_authority_transitions, by epoch
    rosters,      \* workspace_rosters, by epoch
    devices,      \* the devices table
    codes         \* pairing_codes and credential_rotation_codes

vars == <<authority, transitions, rosters, devices, codes>>

Absent == [state |-> "absent", name |-> None, certificate |-> None, revokedEpoch |-> 0,
           token |-> None, version |-> 1, proofLive |-> FALSE]

Unissued == [kind |-> "unissued", device |-> None, live |-> FALSE]

Init ==
    /\ authority = InitialKey /\ transitions = <<>> /\ rosters = <<>>
    /\ devices = [d \in Devices |-> Absent]
    /\ codes = [c \in Codes |-> Unissued]

-----------------------------------------------------------------------------
\* Rosters.

NoRoster == [active |-> {}, revocations |-> {}, renamed |-> None, key |-> None]

LatestRoster == IF rosters = <<>> THEN NoRoster ELSE rosters[Len(rosters)]

NextEpoch == Len(rosters) + 1

\* Decoding the stored roster checks it against the current authority.
CanExtend == NextEpoch <= MaxEpoch /\ (rosters = <<>> \/ LatestRoster.key = authority)

Certify(d, name, key) == [device |-> d, name |-> name, epoch |-> NextEpoch, key |-> key]

\* validateWorkspaceRoster, as far as the registry's own calls can fail it.
ValidateWorkspaceRoster(r) ==
    /\ Cardinality(r.active) <= MaxActive
    /\ \A c \in r.active : c.key = r.key /\ c.epoch <= NextEpoch
    /\ \A c, e \in r.active : c.device = e.device => c = e
    /\ r.renamed # None => \E c \in r.active : c.device = r.renamed
    /\ Cardinality(r.revocations) <= MaxRevocations
    /\ r.revocations \cap r.active = {}

InsertWorkspaceRoster(r) == ValidateWorkspaceRoster(r) /\ rosters' = Append(rosters, r)

-----------------------------------------------------------------------------
\* Enrollment.

IssuePairingCode(c) ==
    /\ codes[c].kind = "unissued"
    /\ codes' = [codes EXCEPT ![c] = [kind |-> "pairing", device |-> None, live |-> TRUE]]
    /\ UNCHANGED <<authority, transitions, rosters, devices>>

\* A code passes its expiry without being used.
ExpireCode(c) ==
    /\ codes[c].live
    /\ codes' = [codes EXCEPT ![c].live = FALSE]
    /\ UNCHANGED <<authority, transitions, rosters, devices>>

\* The code is consumed in the transaction that creates the device.
RegisterPending(d, name, token, c) ==
    /\ devices[d].state = "absent"
    /\ codes[c].kind = "pairing" /\ codes[c].live
    /\ codes' = [codes EXCEPT ![c].live = FALSE, ![c].device = d]
    /\ devices' = [devices EXCEPT ![d] = [Absent EXCEPT !.state = "pending_proof",
                       !.name = name, !.token = token, !.proofLive = TRUE]]
    /\ UNCHANGED <<authority, transitions, rosters>>

ExpireProof(d) ==
    /\ devices[d].proofLive
    /\ devices' = [devices EXCEPT ![d].proofLive = FALSE]
    /\ UNCHANGED <<authority, transitions, rosters, codes>>

\* The secret hash is cleared, so a proof counts once.
CompletePendingIdentityProof(d) ==
    /\ devices[d].state = "pending_proof" /\ devices[d].proofLive
    /\ devices' = [devices EXCEPT ![d].state = "pending_approval", ![d].proofLive = FALSE]
    /\ UNCHANGED <<authority, transitions, rosters, codes>>

-----------------------------------------------------------------------------
\* Membership changes, signed with the key the caller loaded.

ApprovePendingMembership(d, key) ==
    /\ key = authority /\ devices[d].state = "pending_approval" /\ CanExtend
    /\ LET certificate == Certify(d, devices[d].name, key)
       IN  /\ InsertWorkspaceRoster([active |-> LatestRoster.active \cup {certificate},
                                     revocations |-> LatestRoster.revocations,
                                     renamed |-> None, key |-> key])
           /\ devices' = [devices EXCEPT ![d].state = "approved",
                                         ![d].certificate = certificate]
    /\ UNCHANGED <<authority, transitions, codes>>

\* The roster entry of d must be the certificate on record.
ActiveMatchesRecord(d) ==
    {c \in LatestRoster.active : c.device = d} = {devices[d].certificate}

RenameDevice(d, name, key) ==
    /\ devices[d].state = "approved" /\ devices[d].name # name
    /\ key = authority /\ CanExtend /\ rosters # <<>>
    /\ devices[d].certificate.key = authority /\ ActiveMatchesRecord(d)
    /\ LET replacement == Certify(d, name, key)
       IN  /\ InsertWorkspaceRoster(
                  [active |-> (LatestRoster.active \ {devices[d].certificate})
                                \cup {replacement},
                   revocations |-> LatestRoster.revocations,
                   renamed |-> d, key |-> key])
           /\ devices' = [devices EXCEPT ![d].name = name, ![d].certificate = replacement]
    /\ UNCHANGED <<authority, transitions, codes>>

\* A device without a certificate is revoked without a roster or a key.
RevokeUncertified(d) ==
    /\ devices[d].state \in {"pending_proof", "pending_approval"}
    /\ devices' = [devices EXCEPT ![d].state = "revoked"]
    /\ UNCHANGED <<authority, transitions, rosters, codes>>

\* Mutant of RevokeCertified: the epoch before the revoking roster is recorded.
MutRevokedEpochEarly(d, key) ==
    /\ devices[d].state = "approved"
    /\ key = authority /\ CanExtend /\ rosters # <<>>
    /\ devices[d].certificate.key = authority /\ ActiveMatchesRecord(d)
    /\ InsertWorkspaceRoster(
           [active |-> LatestRoster.active \ {devices[d].certificate},
            revocations |-> LatestRoster.revocations \cup {devices[d].certificate},
            renamed |-> None, key |-> key])
    /\ devices' = [devices EXCEPT ![d].state = "revoked", ![d].revokedEpoch = Len(rosters)]
    /\ UNCHANGED <<authority, transitions, codes>>

RevokeCertified(d, key) ==
    /\ devices[d].state = "approved"
    /\ key = authority /\ CanExtend /\ rosters # <<>>
    /\ devices[d].certificate.key = authority /\ ActiveMatchesRecord(d)
    /\ InsertWorkspaceRoster(
           [active |-> LatestRoster.active \ {devices[d].certificate},
            revocations |-> LatestRoster.revocations \cup {devices[d].certificate},
            renamed |-> None, key |-> key])
    /\ devices' = [devices EXCEPT ![d].state = "revoked", ![d].revokedEpoch = NextEpoch]
    /\ UNCHANGED <<authority, transitions, codes>>

RevokeDevice(d, key) == RevokeUncertified(d) \/ RevokeCertified(d, key)

\* Mutant of RotateWorkspaceAuthority: the reissued certificates are not stored with the devices.
MutRotateKeepsRecords(key, newKey) ==
    /\ key = authority /\ newKey # key /\ CanExtend /\ rosters # <<>>
    /\ InsertWorkspaceRoster([active |-> {Certify(c.device, c.name, newKey) :
                                            c \in LatestRoster.active},
                              revocations |-> LatestRoster.revocations,
                              renamed |-> None, key |-> newKey])
    /\ transitions' = Append(transitions,
                             [previous |-> key, new |-> newKey, activation |-> NextEpoch])
    /\ authority' = newKey
    /\ UNCHANGED <<devices, codes>>

\* CompletedWorkspaceAuthorityRotation answers a retry with the current key;
\* otherwise every active certificate is reissued under the new key.
RotateWorkspaceAuthority(key, newKey) ==
    /\ key = authority /\ newKey # key /\ CanExtend /\ rosters # <<>>
    /\ \A c \in LatestRoster.active :
         devices[c.device].state = "approved" /\ devices[c.device].certificate = c
    /\ LET Reissue(c) == Certify(c.device, c.name, newKey)
       IN  /\ InsertWorkspaceRoster([active |-> {Reissue(c) : c \in LatestRoster.active},
                                     revocations |-> LatestRoster.revocations,
                                     renamed |-> None, key |-> newKey])
           /\ devices' = [d \in Devices |->
                  IF \E c \in LatestRoster.active : c.device = d
                  THEN [devices[d] EXCEPT !.certificate = Reissue(devices[d].certificate)]
                  ELSE devices[d]]
    /\ transitions' = Append(transitions,
                             [previous |-> key, new |-> newKey, activation |-> NextEpoch])
    /\ authority' = newKey
    /\ UNCHANGED codes

-----------------------------------------------------------------------------
\* Transport credentials.

IssueCredentialRotationCode(d, c) ==
    /\ codes[c].kind = "unissued" /\ devices[d].state = "approved"
    /\ codes' = [codes EXCEPT ![c] = [kind |-> "rotation", device |-> d, live |-> TRUE]]
    /\ UNCHANGED <<authority, transitions, rosters, devices>>

RotateCredential(d, c, current, pending) ==
    /\ current # pending
    /\ codes[c].kind = "rotation" /\ codes[c].live /\ codes[c].device = d
    /\ devices[d].state = "approved" /\ devices[d].token = current
    /\ codes' = [codes EXCEPT ![c].live = FALSE, ![c].kind = "rotated"]
    /\ devices' = [devices EXCEPT ![d].token = pending, ![d].version = @ + 1]
    /\ UNCHANGED <<authority, transitions, rosters>>

-----------------------------------------------------------------------------

\* Codes issued by administrators, and the passing of time.
Issuing ==
    \/ \E c \in Codes : IssuePairingCode(c) \/ ExpireCode(c)
    \/ \E d \in Devices : ExpireProof(d)

\* What a joining device asks of the server.
Joining ==
    \E d \in Devices :
        \/ CompletePendingIdentityProof(d)
        \/ \E n \in Names, t \in Tokens, c \in Codes : RegisterPending(d, n, t, c)

Membership ==
    \E key \in Keys :
        \/ \E d \in Devices : \/ ApprovePendingMembership(d, key) \/ RevokeDevice(d, key)
                              \/ \E n \in Names : RenameDevice(d, n, key)
        \/ \E newKey \in Keys : RotateWorkspaceAuthority(key, newKey)

Credentials ==
    \E d \in Devices, c \in Codes :
        \/ IssueCredentialRotationCode(d, c)
        \/ \E t, u \in Tokens : RotateCredential(d, c, t, u)

Next == Issuing \/ Joining \/ Membership \/ Credentials

Spec == Init /\ [][Next]_vars

-----------------------------------------------------------------------------
\* What a device is told (ReadMembershipState): the key in effect at an epoch.

\* Mutant of KeyBefore: a key takes effect one epoch late.
MutKeyStrictlyBefore(epoch) ==
    {i \in DOMAIN transitions : transitions[i].activation < epoch}

KeyBefore(epoch) ==
    {i \in DOMAIN transitions : transitions[i].activation <= epoch}

\* The key of the last transition activated by then, else the first one's
\* predecessor, else the current key.
EffectiveKey(epoch) ==
    IF KeyBefore(epoch) # {}
    THEN transitions[CHOOSE i \in KeyBefore(epoch) :
                        \A j \in KeyBefore(epoch) :
                            transitions[j].activation <= transitions[i].activation].new
    ELSE IF transitions # <<>> THEN transitions[1].previous ELSE authority

-----------------------------------------------------------------------------
\* Properties.

Approved == {d \in Devices : devices[d].state = "approved"}
Certified == {d \in Devices : devices[d].certificate # None}

TransitionRows == [previous : Keys, new : Keys, activation : Nat]
RosterRows == [active : SUBSET Certificates, revocations : SUBSET Certificates,
               renamed : Devices \cup {None}, key : Keys]
DeviceRows ==
    [state : {"absent", "pending_proof", "pending_approval", "approved", "revoked"},
     name : Names \cup {None}, certificate : Certificates \cup {None},
     revokedEpoch : Nat, token : Tokens \cup {None}, version : Nat, proofLive : BOOLEAN]
CodeRows == [kind : {"unissued", "pairing", "rotation", "rotated"},
             device : Devices \cup {None}, live : BOOLEAN]

TypeOK ==
    /\ authority \in Keys
    /\ transitions \in Seq(TransitionRows) /\ rosters \in Seq(RosterRows)
    /\ devices \in [Devices -> DeviceRows] /\ codes \in [Codes -> CodeRows]

\* The newest roster and the devices table agree: it lists exactly the approved
\* devices, each with the certificate on record, under the current authority.
\* Approval, rename, revocation and rotation each change both.
RosterIsRegistry ==
    /\ LatestRoster.active = {devices[d].certificate : d \in Approved}
    /\ rosters # <<>> => LatestRoster.key = authority
    /\ \A c \in LatestRoster.active : c.key = authority

\* A client that walks the chain can verify every roster: the roster and every
\* certificate in it are signed by the key the transitions put in effect at its
\* epoch (RotateWorkspaceAuthority, ReadMembershipState).
ChainVerifies ==
    \A e \in DOMAIN rosters :
        /\ rosters[e].key = EffectiveKey(e)
        /\ \A c \in rosters[e].active : c.key = rosters[e].key /\ c.epoch <= e

\* The bootstrap rule: the roster at the epoch of a device's certificate, where
\* a reader that starts at zero begins, holds that exact certificate - also
\* after renames, authority rotations and revocation (ReadMembershipState).
BootstrapHasCertificate ==
    \A d \in Certified :
        LET c == devices[d].certificate
        IN  c.epoch \in DOMAIN rosters /\ c \in rosters[c.epoch].active

\* A revoked device is in no roster from its revocation on, every such roster
\* records the revocation, and the authority its last view is checked against
\* is the one that signed its certificate and its terminal roster, whatever
\* rotations happened before or after (RevokeDevice, ReadMembershipState).
RevocationIsFinal ==
    \A d \in Certified \ Approved :
        LET r == devices[d].revokedEpoch
        IN  /\ r \in DOMAIN rosters
            /\ \A e \in DOMAIN rosters : e >= r =>
                 /\ \A c \in rosters[e].active : c.device # d
                 /\ devices[d].certificate \in rosters[e].revocations
            /\ EffectiveKey(r) = devices[d].certificate.key

\* Every code works at most once: a device's credential version counts exactly
\* the rotation codes spent on it, and each enrolled device has spent its own
\* pairing code (RegisterPending, RotateCredential).
CodesAreSpentOnce ==
    \A d \in Devices :
        /\ devices[d].version =
             1 + Cardinality({c \in Codes : codes[c].kind = "rotated" /\ codes[c].device = d})
        /\ Cardinality({c \in Codes : codes[c].kind = "pairing" /\ codes[c].device = d}) =
             IF devices[d].state = "absent" THEN 0 ELSE 1

\* docs/workspace-authority-key-lifecycle.md: retrying rotate-authority with the
\* same prepared file reports already-rotated.  No prepared key is ever activated
\* by a second rotation.
RotationRetryIsIdempotent ==
    \A i, j \in DOMAIN transitions : transitions[i].new = transitions[j].new => i = j

=============================================================================
