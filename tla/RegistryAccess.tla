---------------------------- MODULE RegistryAccess ----------------------------
(***************************************************************************)
(* The callers of the registry that read first and act later:              *)
(*  - administrators (CLI and web, internal/adminservice): look at the     *)
(*    device, load the authority key, then call the store;                 *)
(*  - a device reading its membership state (ReadMembershipState), one     *)
(*    query at a time and outside any transaction.                         *)
(* Everything else may happen between two of their steps.                  *)
(***************************************************************************)
EXTENDS Registry, FiniteSetsExt

CONSTANTS Admins,
          RosterPage,   \* maxMembershipRosterPage
          PageBytes     \* maxMembershipRosterPageRaw

ASSUME AccessAssumption == RosterPage \in Nat \ {0} /\ PageBytes \in Nat

VARIABLES
    admin,  \* what each administrator is doing
    read    \* the membership read in progress, or the finished response

accessVars == <<vars, admin, read>>

IdleAdmin == [pc |-> "idle", op |-> "none", target |-> None, key |-> None]

\* certificate, key, latest: the answer; terminal: the record said revoked;
\* seen: transitions; from, to: the rosters strictly after from, through to;
\* holds: the roster cursor is still open, and with it the one connection of
\* the server's database handle.
IdleRead == [pc |-> "idle", device |-> None, after |-> 0, terminal |-> FALSE,
             ceiling |-> 0, certificate |-> None, key |-> None, seen |-> {},
             from |-> 0, to |-> 0, holds |-> FALSE, latest |-> 0]

AccessInit ==
    /\ Init /\ admin = [p \in Admins |-> IdleAdmin] /\ read = IdleRead

-----------------------------------------------------------------------------
\* Administrators.

MayStart(op, d) ==
    CASE op = "approve" -> devices[d].state = "pending_approval"
      [] op = "reject"  -> devices[d].state \in {"pending_proof", "pending_approval"}
      [] op \in {"remove", "rename"} -> devices[d].state = "approved"

\* Mutant of AdminCheck: a rejection carries the authority key.
MutRejectWithKey(p, op, d) ==
    /\ admin[p].pc = "idle" /\ MayStart(op, d)
    /\ admin' = [admin EXCEPT ![p] = [IdleAdmin EXCEPT !.op = op, !.target = d,
                                                       !.pc = "checked"]]
    /\ UNCHANGED <<vars, read>>

\* ListDevices and the state check; a rejection needs no key.
AdminCheck(p, op, d) ==
    /\ admin[p].pc = "idle" /\ MayStart(op, d)
    /\ admin' = [admin EXCEPT ![p] = [IdleAdmin EXCEPT !.op = op, !.target = d,
                     !.pc = IF op = "reject" THEN "ready" ELSE "checked"]]
    /\ UNCHANGED <<vars, read>>

\* rotate-authority: CompletedWorkspaceAuthorityRotation says "not yet".
AdminCheckRotation(p, newKey) ==
    /\ admin[p].pc = "idle" /\ newKey # authority
    /\ admin' = [admin EXCEPT ![p] = [IdleAdmin EXCEPT !.op = "rotate", !.target = newKey,
                                                       !.pc = "checked"]]
    /\ UNCHANGED <<vars, read>>

LoadAuthorityPrivateKey(p) ==
    /\ admin[p].pc = "checked"
    /\ admin' = [admin EXCEPT ![p].pc = "ready", ![p].key = authority]
    /\ UNCHANGED <<vars, read>>

Apply(a) ==
    \/ a.op = "approve" /\ ApprovePendingMembership(a.target, a.key)
    \/ a.op \in {"reject", "remove"} /\ RevokeDevice(a.target, a.key)
    \/ a.op = "rename" /\ \E n \in Names : RenameDevice(a.target, n, a.key)
    \/ a.op = "rotate" /\ RotateWorkspaceAuthority(a.key, a.target)

AdminCommit(p) ==
    /\ admin[p].pc = "ready" /\ Apply(admin[p])
    /\ admin' = [admin EXCEPT ![p] = IdleAdmin]
    /\ UNCHANGED read

\* The store refused or failed, or the process died before committing.
AdminFails(p) ==
    /\ admin[p].pc # "idle"
    /\ admin' = [admin EXCEPT ![p] = IdleAdmin]
    /\ UNCHANGED <<vars, read>>

Admin(p) ==
    \/ \E op \in {"approve", "reject", "remove", "rename"}, d \in Devices :
         AdminCheck(p, op, d)
    \/ \E k \in Keys : AdminCheckRotation(p, k)
    \/ LoadAuthorityPrivateKey(p) \/ AdminCommit(p) \/ AdminFails(p)

-----------------------------------------------------------------------------
\* ReadMembershipState of a certified device.

\* The record, joined with the workspace's authority key.
ReadRecord(d, after) ==
    /\ read.pc = "idle" /\ d \in Certified
    /\ LET terminal == devices[d].state = "revoked"
       IN  read' = [IdleRead EXCEPT !.pc = IF terminal THEN "key" ELSE "floor",
                        !.device = d, !.after = after, !.terminal = terminal,
                        !.ceiling = IF terminal THEN devices[d].revokedEpoch ELSE MaxEpoch,
                        !.certificate = devices[d].certificate, !.key = authority,
                        !.from = after]
    /\ UNCHANGED <<vars, admin>>

\* Mutant of ReadEffectiveKey: a revoked device is told the current key.
MutReadCurrentKey ==
    /\ read.pc = "key"
    /\ read' = [read EXCEPT !.pc = "floor"]
    /\ UNCHANGED <<vars, admin>>

ReadEffectiveKey ==
    /\ read.pc = "key"
    /\ read' = [read EXCEPT !.pc = "floor", !.key = EffectiveKey(read.ceiling)]
    /\ UNCHANGED <<vars, admin>>

\* Mutant of ReadFloor: the page starts after the certificate's own roster.
MutFloorAtCertificate ==
    /\ read.pc = "floor"
    /\ read' = IF read.from # 0 THEN [read EXCEPT !.pc = "transitions"]
               ELSE IF read.certificate.key # read.key THEN IdleRead
               ELSE [read EXCEPT !.pc = "transitions", !.from = read.certificate.epoch]
    /\ UNCHANGED <<vars, admin>>

\* A reader that starts at zero begins at its own certificate, if that decodes.
ReadFloor ==
    /\ read.pc = "floor"
    /\ read' = IF read.from # 0 THEN [read EXCEPT !.pc = "transitions"]
               ELSE IF read.certificate.key # read.key THEN IdleRead
               ELSE [read EXCEPT !.pc = "transitions", !.from = read.certificate.epoch - 1]
    /\ UNCHANGED <<vars, admin>>

ReadTransitions ==
    /\ read.pc = "transitions"
    /\ read' = [read EXCEPT !.pc = "rosters",
                    !.seen = {i \in DOMAIN transitions :
                                 transitions[i].activation \in read.from + 1 .. read.ceiling}]
    /\ UNCHANGED <<vars, admin>>

\* The rosters the query selects; their sizes grow with what they list.
Selected ==
    {e \in DOMAIN rosters : e > read.from /\ e <= read.ceiling /\ e <= read.from + RosterPage}
PageSize(page) ==
    MapThenSumSet(LAMBDA e : 1 + Cardinality(rosters[e].active)
                               + Cardinality(rosters[e].revocations), page)

\* A row over the page size ends the loop by `break`, which leaves the cursor
\* open until the function returns; running out of rows closes it.
ReadRosters ==
    /\ read.pc = "rosters"
    /\ LET fits == {e \in Selected : \/ e = read.from + 1
                                     \/ PageSize(read.from + 1 .. e) <= PageBytes}
       IN  read' = [read EXCEPT !.pc = "latest", !.holds = fits # Selected,
                        !.to = IF fits = {} THEN read.from ELSE Max(fits)]
    /\ UNCHANGED <<vars, admin>>

\* MAX(epoch) is one more query, and needs the connection.
ReadLatest ==
    /\ read.pc = "latest" /\ (read.terminal \/ ~read.holds)
    /\ read' = [read EXCEPT !.pc = "answered", !.holds = FALSE,
                    !.latest = IF read.terminal THEN read.ceiling ELSE Len(rosters)]
    /\ UNCHANGED <<vars, admin>>

\* The client goes away, or a query fails.
ReadAbandoned ==
    /\ read.pc \notin {"idle", "answered"} /\ read' = IdleRead
    /\ UNCHANGED <<vars, admin>>

ReadDone ==
    /\ read.pc = "answered" /\ read' = IdleRead /\ UNCHANGED <<vars, admin>>

Reading ==
    ReadEffectiveKey \/ ReadFloor \/ ReadTransitions \/ ReadRosters \/ ReadLatest

Read ==
    \/ \E d \in Devices, after \in 0..Len(rosters) : ReadRecord(d, after)
    \/ Reading \/ ReadAbandoned \/ ReadDone

-----------------------------------------------------------------------------

\* Credential rotation is left to Registry: nothing here reads what it writes.
\* Administrators are other processes with connections of their own.
AccessNext ==
    \/ Issuing /\ UNCHANGED <<admin, read>>
    \/ ~read.holds /\ Joining /\ UNCHANGED <<admin, read>>
    \/ \E p \in Admins : Admin(p)
    \/ Read

AccessSpec == AccessInit /\ [][AccessNext]_accessVars

\* The server goes on with a read for as long as the client waits.
FairAccessSpec == AccessSpec /\ WF_accessVars(Reading)

-----------------------------------------------------------------------------
\* Properties.

AccessTypeOK ==
    /\ TypeOK
    /\ admin \in [Admins -> [pc : {"idle", "checked", "ready"},
                             op : {"none", "approve", "reject", "remove", "rename", "rotate"},
                             target : Devices \cup Keys \cup {None},
                             key : Keys \cup {None}]]
    /\ read.pc \in {"idle", "key", "floor", "transitions", "rosters", "latest", "answered"}
    /\ {read.from, read.to, read.latest, read.ceiling} \subseteq Nat
    /\ read.seen \subseteq DOMAIN transitions /\ read.holds \in BOOLEAN

\* Rejecting a pending device never removes a member, even if the device was
\* approved between the administrator's look and the store call
\* (ChangeDeviceAccess loads no key for it).
RejectionSparesMembers ==
    [][\A p \in Admins :
         admin[p].pc = "ready" /\ admin[p].op = "reject" /\ admin'[p].pc = "idle"
           => \A d \in Approved : devices'[d].state = "approved"]_accessVars

Answered == read.pc = "answered"

\* The rosters of the answer.
Page == read.from + 1 .. read.to

\* The key a client holds at epoch e if it trusted the chain up to read.from and
\* applied the transitions of the answer.
PinAt(e) ==
    LET applied == {i \in read.seen : transitions[i].activation <= e}
    IN  IF applied = {} THEN EffectiveKey(read.from)
        ELSE transitions[CHOOSE i \in applied : \A j \in applied : j <= i].new

\* Every roster of the answer verifies under the pin the answer leads to.
ViewVerifies ==
    \A e \in Page : rosters[e].key = PinAt(e)

\* A reader that starts at zero gets, as its first roster, one that holds the
\* very certificate of the answer, whatever was renamed, rotated or revoked
\* while the answer was put together (ReadMembershipState).
ReadBootstraps ==
    Answered /\ read.after = 0 =>
        /\ read.to > read.from
        /\ read.certificate \in rosters[read.from + 1].active

\* A revoked device's answer is consistent under any later rotation or change:
\* it stops at the revoking roster, verifies throughout, and its authority key
\* is the one that signed that roster (ReadMembershipState's clamp).
TerminalViewVerifies ==
    Answered /\ read.terminal =>
        /\ \A e \in Page : e <= devices[read.device].revokedEpoch
        /\ read.latest = devices[read.device].revokedEpoch
        /\ read.key = rosters[read.latest].key
        /\ ViewVerifies

\* docs/membership-http-v1.md: a page bounded by its bytes is answered, and the
\* client asks for the next one.  Every read ends.
ReadsEnd == read.pc # "idle" ~> read.pc \in {"idle", "answered"}

\* docs/membership-http-v1.md: the answer holds the authority-transition chain
\* applicable through the rosters it shows.
AnswersVerify == Answered => ViewVerifies

\* docs/membership-http-v1.md: a revoked device cannot observe later workspace
\* membership changes.
LaterChangesHidden ==
    Answered /\ devices[read.device].state = "revoked" =>
        \A e \in Page : e <= devices[read.device].revokedEpoch

=============================================================================
