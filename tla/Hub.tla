--------------------------------- MODULE Hub ---------------------------------
(***************************************************************************)
(* The connection slots of internal/relay/hub.go: authenticated attempts   *)
(* that register, displace and release sessions, the operations both loops *)
(* of a session run inside the operation boundary, the authorization       *)
(* monitor, and the registry facts the monitor looks up.                   *)
(*                                                                         *)
(* A connection attempt becomes at most one deviceSession, so attempts     *)
(* name the session instances.  A step that holds Hub.mu is one action;    *)
(* the per-session RWMutex `operations` is explicit, with Go's rule that a *)
(* waiting writer stops new readers and that its Unlock admits the readers *)
(* that queued behind it.                                                  *)
(***************************************************************************)
EXTENDS Integers, FiniteSets

CONSTANTS Devices,
          Conns,        \* connection attempts of one behaviour
          DeviceOf,     \* the device each attempt authenticates as
          MaxVersion,   \* bound on credential rotations
          None

ASSUME HubAssumption ==
    /\ DeviceOf \in [Conns -> Devices]
    /\ MaxVersion \in Nat \ {0}
    /\ None \notin Conns

\* maxHandoverAttempts
MaxHandoverAttempts == 2

Loops == {"reader", "writer"}

VARIABLES
    credential,   \* registry: credential_version of each device
    revoked,      \* registry: devices revoked by an administrator
    devices,      \* Hub.devices: the session in each device's slot, or None
    pc,           \* where the goroutine serving each attempt stands
    version,      \* credential version the attempt authenticated with
    attempt,      \* handover attempts an attempt has used up
    existing,     \* the session an attempt waits for, or None
    retired,      \* "no", "superseded" or "revoked": retireOnce
    released,     \* sessions whose released channel is closed
    op,           \* each loop's operation: none, waiting, locked, admitted
    lock,         \* operations.Lock of each session: who announced it, if held
    monitor,      \* the authorization monitor's sweep
    unauthorized  \* history: sessions some lookup found unauthorized

registryVars == <<credential, revoked>>
attemptVars == <<version, attempt, existing>>
sessionVars == <<retired, released, op, lock>>
vars == <<registryVars, devices, pc, attemptVars, sessionVars, monitor, unauthorized>>

Free == [by |-> None, held |-> FALSE]
IdleMonitor == [pc |-> "idle", todo |-> {}, target |-> None]

Slot(c) == devices[DeviceOf[c]]

Init ==
    /\ credential = [d \in Devices |-> 1] /\ revoked = {}
    /\ devices = [d \in Devices |-> None]
    /\ pc = [c \in Conns |-> "new"]
    /\ version = [c \in Conns |-> 0]
    /\ attempt = [c \in Conns |-> 0]
    /\ existing = [c \in Conns |-> None]
    /\ retired = [c \in Conns |-> "no"] /\ released = {}
    /\ op = [c \in Conns |-> [l \in Loops |-> "none"]]
    /\ lock = [c \in Conns |-> Free]
    /\ monitor = IdleMonitor /\ unauthorized = {}

-----------------------------------------------------------------------------
\* The registry, changed by other processes.

RotateCredential(d) ==
    /\ d \notin revoked /\ credential[d] < MaxVersion
    /\ credential' = [credential EXCEPT ![d] = @ + 1]
    /\ UNCHANGED <<revoked, devices, pc, attemptVars, sessionVars, monitor, unauthorized>>

RevokeDevice(d) ==
    /\ d \notin revoked
    /\ revoked' = revoked \cup {d}
    /\ UNCHANGED <<credential, devices, pc, attemptVars, sessionVars, monitor, unauthorized>>

IsSessionAuthorized(c) ==
    DeviceOf[c] \notin revoked /\ credential[DeviceOf[c]] = version[c]

-----------------------------------------------------------------------------
\* Admission.

\* The attempt holds the version it proved; nothing re-reads it later.
AuthenticateConnection(c) ==
    /\ pc[c] = "new" /\ DeviceOf[c] \notin revoked
    /\ version' = [version EXCEPT ![c] = credential[DeviceOf[c]]]
    /\ pc' = [pc EXCEPT ![c] = "registering"]
    /\ UNCHANGED <<registryVars, devices, attempt, existing, sessionVars, monitor,
                   unauthorized>>

Retire(c, reason) ==
    retired' = [retired EXCEPT ![c] = IF @ = "no" THEN reason ELSE @]

RegisterFree(c) ==
    /\ pc[c] = "registering" /\ Slot(c) = None
    /\ devices' = [devices EXCEPT ![DeviceOf[c]] = c]
    /\ pc' = [pc EXCEPT ![c] = "serving"]
    /\ UNCHANGED <<registryVars, attemptVars, sessionVars, monitor, unauthorized>>

\* ErrStaleCredential
RegisterStale(c) ==
    /\ pc[c] = "registering" /\ Slot(c) # None
    /\ version[c] < version[Slot(c)]
    /\ pc' = [pc EXCEPT ![c] = "refused"]
    /\ UNCHANGED <<registryVars, devices, attemptVars, sessionVars, monitor, unauthorized>>

RegisterDisplace(c) ==
    /\ pc[c] = "registering" /\ Slot(c) # None
    /\ version[c] >= version[Slot(c)]
    /\ Retire(Slot(c), "superseded")
    /\ existing' = [existing EXCEPT ![c] = Slot(c)]
    /\ pc' = [pc EXCEPT ![c] = "awaiting"]
    /\ UNCHANGED <<registryVars, devices, version, attempt, released, op, lock, monitor,
                   unauthorized>>

\* awaitRelease saw the signal; after the second attempt, ErrAlreadyConnected.
AwaitReleased(c) ==
    /\ pc[c] = "awaiting" /\ existing[c] \in released
    /\ attempt' = [attempt EXCEPT ![c] = @ + 1]
    /\ pc' = [pc EXCEPT ![c] = IF attempt[c] + 1 < MaxHandoverAttempts
                               THEN "registering" ELSE "refused"]
    /\ UNCHANGED <<registryVars, devices, version, existing, sessionVars, monitor,
                   unauthorized>>

\* ErrHandoverTimeout, also when the signal comes at the same moment.
AwaitTimeout(c) ==
    /\ pc[c] = "awaiting"
    /\ pc' = [pc EXCEPT ![c] = "refused"]
    /\ UNCHANGED <<registryVars, devices, attemptVars, sessionVars, monitor, unauthorized>>

Register(c) ==
    RegisterFree(c) \/ RegisterStale(c) \/ RegisterDisplace(c)
        \/ AwaitReleased(c) \/ AwaitTimeout(c)

-----------------------------------------------------------------------------
\* The operation boundary.

SetOp(c, l, state) == op' = [op EXCEPT ![c][l] = state]

OnlyOp == UNCHANGED <<registryVars, devices, pc, attemptVars, retired, released, lock,
                      monitor, unauthorized>>

\* The first check, before the lock.  The writer loop may outlive the reader.
BeginOperation(c, l) ==
    /\ op[c][l] = "none" /\ retired[c] = "no"
    /\ pc[c] = "serving" \/ (l = "writer" /\ pc[c] \in {"draining", "releasing", "closed"})
    /\ SetOp(c, l, "waiting") /\ OnlyOp

RLock(c, l) ==
    /\ op[c][l] = "waiting" /\ lock[c] = Free
    /\ SetOp(c, l, "locked") /\ OnlyOp

\* The check under the lock: the slot still holds this very session.
Admit(c, l) ==
    /\ op[c][l] = "locked"
    /\ SetOp(c, l, IF Slot(c) = c /\ retired[c] = "no" THEN "admitted" ELSE "none")
    /\ OnlyOp

Finish(c, l) ==
    /\ op[c][l] = "admitted"
    /\ SetOp(c, l, "none") /\ OnlyOp

Operation(c) ==
    \E l \in Loops : RLock(c, l) \/ Admit(c, l) \/ Finish(c, l)

-----------------------------------------------------------------------------
\* Disconnect, run by the goroutine serving c ("serve") and by the monitor.

AnnounceLock(c, who) ==
    lock[c] = Free /\ lock' = [lock EXCEPT ![c] = [by |-> who, held |-> FALSE]]

\* Mutant of DropSlot: the slot is dropped without waiting for operations.
MutDropUndrained(c, who) ==
    /\ lock[c] = [by |-> who, held |-> FALSE]
    /\ lock' = [lock EXCEPT ![c].held = TRUE]
    /\ devices' = [devices EXCEPT ![DeviceOf[c]] = IF @ = c THEN None ELSE @]

\* Mutant of DropSlot: whatever session is in the slot is dropped.
MutDropAnySession(c, who) ==
    /\ lock[c] = [by |-> who, held |-> FALSE]
    /\ \A l \in Loops : op[c][l] \in {"none", "waiting"}
    /\ lock' = [lock EXCEPT ![c].held = TRUE]
    /\ devices' = [devices EXCEPT ![DeviceOf[c]] = None]

\* The readers are gone: take the lock and drop the slot if it is still ours.
DropSlot(c, who) ==
    /\ lock[c] = [by |-> who, held |-> FALSE]
    /\ \A l \in Loops : op[c][l] \in {"none", "waiting"}
    /\ lock' = [lock EXCEPT ![c].held = TRUE]
    /\ devices' = [devices EXCEPT ![DeviceOf[c]] = IF @ = c THEN None ELSE @]

\* markReleased, then the deferred Unlock lets the queued readers in.
MarkReleased(c, who) ==
    /\ lock[c] = [by |-> who, held |-> TRUE]
    /\ released' = released \cup {c}
    /\ lock' = [lock EXCEPT ![c] = Free]
    /\ op' = [op EXCEPT ![c] = [l \in Loops |-> IF @[l] = "waiting" THEN "locked" ELSE @[l]]]

\* Mutant of Unregister: a session somebody retired is taken for released.
MutUnregisterUnlessRetired(c) ==
    /\ pc[c] = "serving" /\ op[c]["reader"] = "none"
    /\ IF retired[c] = "no"
       THEN Retire(c, "revoked") /\ pc' = [pc EXCEPT ![c] = "draining"]
       ELSE UNCHANGED retired /\ pc' = [pc EXCEPT ![c] = "closed"]
    /\ UNCHANGED <<registryVars, devices, attemptVars, released, op, lock, monitor,
                   unauthorized>>

\* The reader loop returned, for any reason, and the deferred unregister runs.
Unregister(c) ==
    /\ pc[c] = "serving" /\ op[c]["reader"] = "none"
    /\ IF Slot(c) = c
       THEN Retire(c, "revoked") /\ pc' = [pc EXCEPT ![c] = "draining"]
       ELSE UNCHANGED retired /\ pc' = [pc EXCEPT ![c] = "closed"]
    /\ UNCHANGED <<registryVars, devices, attemptVars, released, op, lock, monitor,
                   unauthorized>>

\* A retired session's writer loop closes the socket, which ends the reader.
UnregisterRetired(c) == retired[c] # "no" /\ Unregister(c)

ServeAnnounce(c) ==
    /\ pc[c] = "draining" /\ AnnounceLock(c, "serve")
    /\ UNCHANGED <<registryVars, devices, pc, attemptVars, retired, released, op, monitor,
                   unauthorized>>

ServeDropSlot(c) ==
    /\ pc[c] = "draining" /\ DropSlot(c, "serve")
    /\ pc' = [pc EXCEPT ![c] = "releasing"]
    /\ UNCHANGED <<registryVars, attemptVars, retired, released, op, monitor, unauthorized>>

ServeMarkReleased(c) ==
    /\ pc[c] = "releasing" /\ MarkReleased(c, "serve")
    /\ pc' = [pc EXCEPT ![c] = "closed"]
    /\ UNCHANGED <<registryVars, devices, attemptVars, retired, monitor, unauthorized>>

ServeDisconnect(c) == ServeAnnounce(c) \/ ServeDropSlot(c) \/ ServeMarkReleased(c)

-----------------------------------------------------------------------------
\* RunAuthorizationMonitor.

OnlyMonitor == UNCHANGED <<registryVars, devices, pc, attemptVars, sessionVars>>

\* ConnectedSessions, at a tick.
MonitorSnapshot ==
    /\ monitor.pc = "idle"
    /\ monitor' = [pc |-> "lookup", todo |-> {devices[d] : d \in Devices} \ {None},
                   target |-> None]
    /\ UNCHANGED unauthorized /\ OnlyMonitor

\* Mutant of MonitorLookup: the lookup ignores the credential version.
MutLookupDeviceOnly(c) ==
    /\ monitor.pc = "lookup" /\ c \in monitor.todo
    /\ \E authorized \in {DeviceOf[c] \notin revoked, FALSE} :
         /\ monitor' = [pc |-> IF authorized THEN "lookup" ELSE "disconnect",
                        todo |-> monitor.todo \ {c},
                        target |-> IF authorized THEN None ELSE c]
         /\ unauthorized' = IF authorized THEN unauthorized ELSE unauthorized \cup {c}
    /\ OnlyMonitor

\* A lookup error counts as "not authorized".
MonitorLookup(c) ==
    /\ monitor.pc = "lookup" /\ c \in monitor.todo
    /\ \E authorized \in {IsSessionAuthorized(c), FALSE} :
         /\ monitor' = [pc |-> IF authorized THEN "lookup" ELSE "disconnect",
                        todo |-> monitor.todo \ {c},
                        target |-> IF authorized THEN None ELSE c]
         /\ unauthorized' = IF authorized THEN unauthorized ELSE unauthorized \cup {c}
    /\ OnlyMonitor

MonitorSweepDone ==
    /\ monitor.pc = "lookup" /\ monitor.todo = {}
    /\ monitor' = IdleMonitor
    /\ UNCHANGED unauthorized /\ OnlyMonitor

\* Mutant of MonitorDisconnect: the device is disconnected, not the observed session.
MutDisconnectDevice ==
    /\ monitor.pc = "disconnect"
    /\ LET c == Slot(monitor.target)
       IN  IF c # None
           THEN Retire(c, "revoked") /\ monitor' = [monitor EXCEPT !.pc = "draining",
                                                                 !.target = c]
           ELSE UNCHANGED retired /\ monitor' = [monitor EXCEPT !.pc = "lookup"]
    /\ UNCHANGED <<registryVars, devices, pc, attemptVars, released, op, lock, unauthorized>>

\* Disconnect(observed): only if the slot still holds the observed session.
MonitorDisconnect ==
    /\ monitor.pc = "disconnect"
    /\ LET c == monitor.target
       IN  IF Slot(c) = c
           THEN Retire(c, "revoked") /\ monitor' = [monitor EXCEPT !.pc = "draining"]
           ELSE UNCHANGED retired /\ monitor' = [monitor EXCEPT !.pc = "lookup"]
    /\ UNCHANGED <<registryVars, devices, pc, attemptVars, released, op, lock, unauthorized>>

MonitorAnnounce ==
    /\ monitor.pc = "draining" /\ AnnounceLock(monitor.target, "monitor")
    /\ UNCHANGED <<registryVars, devices, pc, attemptVars, retired, released, op, monitor,
                   unauthorized>>

MonitorDropSlot ==
    /\ monitor.pc = "draining" /\ DropSlot(monitor.target, "monitor")
    /\ monitor' = [monitor EXCEPT !.pc = "releasing"]
    /\ UNCHANGED <<registryVars, pc, attemptVars, retired, released, op, unauthorized>>

MonitorMarkReleased ==
    /\ monitor.pc = "releasing" /\ MarkReleased(monitor.target, "monitor")
    /\ monitor' = [monitor EXCEPT !.pc = "lookup"]
    /\ UNCHANGED <<registryVars, devices, pc, attemptVars, retired, unauthorized>>

Monitor ==
    \/ MonitorSnapshot \/ MonitorSweepDone \/ (\E c \in Conns : MonitorLookup(c))
    \/ MonitorDisconnect \/ MonitorAnnounce \/ MonitorDropSlot \/ MonitorMarkReleased

-----------------------------------------------------------------------------

Next ==
    \/ \E d \in Devices : RotateCredential(d) \/ RevokeDevice(d)
    \/ \E c \in Conns : \/ AuthenticateConnection(c) \/ Register(c)
                        \/ Unregister(c) \/ ServeDisconnect(c) \/ Operation(c)
                        \/ \E l \in Loops : BeginOperation(c, l)
    \/ Monitor

Spec == Init /\ [][Next]_vars

\* Goroutines are scheduled, timers fire, operations return (they honour
\* cancellation or run into their timeout).  Clients owe nothing: nobody has
\* to connect, to leave or to start an operation.
Fairness ==
    /\ \A c \in Conns :
         /\ WF_vars(Register(c) \/ UnregisterRetired(c) \/ ServeDisconnect(c))
         /\ WF_vars(Operation(c))
    /\ WF_vars(Monitor)

FairSpec == Spec /\ Fairness

-----------------------------------------------------------------------------
\* Properties.

TypeOK ==
    /\ credential \in [Devices -> 1..MaxVersion] /\ revoked \subseteq Devices
    /\ devices \in [Devices -> Conns \cup {None}]
    /\ pc \in [Conns -> {"new", "registering", "awaiting", "refused", "serving",
                         "draining", "releasing", "closed"}]
    /\ version \in [Conns -> 0..MaxVersion]
    /\ attempt \in [Conns -> 0..MaxHandoverAttempts]
    /\ existing \in [Conns -> Conns \cup {None}]
    /\ retired \in [Conns -> {"no", "superseded", "revoked"}]
    /\ released \subseteq Conns
    /\ op \in [Conns -> [Loops -> {"none", "waiting", "locked", "admitted"}]]
    /\ lock \in [Conns -> [by : {"serve", "monitor", None}, held : BOOLEAN]]
    /\ monitor \in [pc : {"idle", "lookup", "disconnect", "draining", "releasing"},
                    todo : SUBSET Conns, target : Conns \cup {None}]
    /\ unauthorized \subseteq Conns

Admitted(c) == \E l \in Loops : op[c][l] = "admitted"

\* Work admitted for one session never runs while another session of the same
\* device holds the slot (beginOperation, Disconnect, Register).
NoOverlap ==
    \A c, e \in Conns :
        c # e /\ DeviceOf[c] = DeviceOf[e] /\ Slot(c) = c => ~Admitted(e)

\* The release signal a replacement waits for is true: the released session is
\* out of the slot for good and has no admitted work (markReleased).
ReleasedIsDone ==
    \A c \in released : Slot(c) # c /\ retired[c] # "no" /\ ~Admitted(c)

\* A session that is still being served is told "revoked" only if a lookup of
\* this very instance failed: a sweep that observed an older connection never
\* retires its replacement (RunAuthorizationMonitor, Disconnect).
RevocationIsObserved ==
    \A c \in Conns : retired[c] = "revoked" /\ pc[c] = "serving" => c \in unauthorized

\* No slot leaks and no live session loses its slot: whoever is in a slot still
\* has a goroutine that will give it up, and a served, unretired session is in
\* its slot (Register, Disconnect).
SlotMatchesSession ==
    \A c \in Conns : /\ Slot(c) = c => pc[c] \in {"serving", "draining"}
                     /\ pc[c] = "serving" /\ retired[c] = "no" => Slot(c) = c

\* A retired session always releases its slot (retire, Disconnect).
RetiredIsReleased ==
    \A c \in Conns : retired[c] # "no" ~> c \in released

\* A session whose device is revoked or whose credential was rotated away leaves
\* the slot, even if it registered after the change (RunAuthorizationMonitor).
UnauthorizedLeaves ==
    \A c \in Conns : Slot(c) = c /\ ~IsSessionAuthorized(c) ~> Slot(c) # c

\* Register's comment: a stale authenticated attempt cannot roll a rotated
\* credential backwards.  No session holds the slot after one with a newer
\* credential version held it.
NoCredentialRollback ==
    \A c, e \in Conns :
        /\ DeviceOf[c] = DeviceOf[e] /\ Slot(c) = c
        /\ pc[e] \in {"draining", "releasing", "closed"}
        => version[e] <= version[c]

\* The comment on maxHandoverAttempts: a replacement can lose the slot race once
\* and gives up only after losing it twice.  Giving up with ErrAlreadyConnected
\* thus takes three other sessions: the incumbent and two race winners.
OneLostRaceIsAbsorbed ==
    \A c \in Conns :
        pc[c] = "refused" /\ attempt[c] = MaxHandoverAttempts =>
            Cardinality({e \in Conns : /\ DeviceOf[e] = DeviceOf[c]
                                       /\ pc[e] \in {"serving", "draining", "releasing",
                                                     "closed"}}) >= 3

=============================================================================
