# Verification of the SevenMirror relay server

TLA+ models of what the server keeps and does: durable delivery, connection
admission and handover, session teardown, the membership registry and its
administration, requests of devices, the administrator's console, schema
migrations, backup and restore. TLC checks them on small instances; TLAPS
proves 52 theorems about them for every value of their constants.
`PROJECT.json` lists runs, mutants, findings, hazards and theorems, and maps
every definition to the lines it models.

## The system

A workspace is a set of devices that exchange end-to-end encrypted envelopes
through one relay server. Parts that hold state:

| Part | Code | Module |
| --- | --- | --- |
| Durable queue of one recipient (SQLite) | `internal/admission/relay_delivery_store.go` | `DeliveryQueue`, `DeliveryStore` |
| Durable routing and the session that drains a queue | `internal/relay/hub.go` (`RouteDurable`), `websocket.go` | `RelaySession`, promise in `RecipientHistory` |
| Admission of a connection | `internal/relay/authenticated_handler.go`, `internal/ratelimit` | `RelayAdmission`, `FixedWindow` |
| Connection slots, handover, operation boundary | `internal/relay/hub.go` | `Hub` |
| Authorization monitor | `internal/relay/authorization_monitor.go` | `Hub` |
| Reader and writer loops, abort of writes, teardown | `internal/relay/websocket.go` | `SessionEnd` |
| Membership registry and roster chain | `internal/admission/store.go`, `protocol/membershipcodec` | `Registry` |
| Membership reads, administrators | `store.go` (`ReadMembershipState`), `internal/adminservice`, `cmd/admin` | `RegistryAccess` |
| Preferences, credential rotation, routing, as requests of devices | `internal/httpapi`, `store.go`, `hub.go` | `DeviceRequests` |
| Administrator's console | `internal/adminweb` | `AdminWeb` |
| Schema of the registry | `store.go` (`Open`, `initialize`, `applySchemaVersion2`-`11`) | `Migrations` |
| Workspace files: keys, backups, restores | `cmd/admin`, `internal/workspacebackup`, `internal/membership`, `internal/admission/backup.go` | `WorkspaceBackup` |

How they interact: a connection passes the attempt window of its address, an
authentication slot and the authentication frame, and registers in the hub (at
most one session per device; a newcomer displaces the old session and waits for
its release). Its reader loop routes envelopes and forwards resume requests to
its writer loop, which drains the durable queue. The CLI and the console change
the registry from other processes; the monitor polls it and disconnects
sessions that are no longer authorized. Every process that opens the registry
migrates it first; backups read it while all of this goes on.

## Modules

**DeliveryQueue** — a queue as a value (`next`, `acked`, `unavailable`, `rows`:
the `relay_delivery_state` row and its `relay_deliveries`) and the helpers of
the store as operators on it. Envelopes are their size and expiry.
Compaction marks everything through the newest expired row unavailable but
deletes only expired rows, as the SQL does.

**DeliveryStore** — one action per transaction, arguments arbitrary: cursors
from 0 to the end of the sequence, clocks in any order (two processes need not
agree). `reply` holds the last answer, so that properties can relate an answer
to the queue. SQLite serialises the transactions, so each is one step.

**RecipientHistory** — the promise: published deliveries are applied in order,
each once; or they are lost and the recipient reconciles past them.

**RelaySession** — the real thing for one recipient. `RouteDurable` commits and
then signals, in two steps, with the recipient's session coming and going in
between. The writer loop is one action per channel receive or written frame;
`batch` is the local variable of `drainBatch`. The client is external and
follows `protocol/relay-delivery-v1.md`. A session drop or a server crash loses
everything but the queue and the client's committed cursor.

**Hub** — a connection attempt names the session it may become. A step that
holds `Hub.mu` is one action. The per-session `operations` RWMutex is explicit:
`AnnounceLock` is a writer that queues (and stops new readers), `DropSlot`
acquires it once the readers are out. `Disconnect` is shared by the monitor and
the serving goroutine. `MaxVersion` bounds rotations.

**SessionEnd** — one session from its greeting to its last goroutine. A write
is `armed` (AfterFunc installed), `writing`, `returned`, `finishing`; the abort
callback is its own process with its load of `busy` and its close apart. The
deferred functions run in the source's order: cause, unregister, cancel.

**Registry** — one action per store transaction. A signature is the key that
made it, a digest is the value digested. Codes expire by `ExpireCode`, proofs
by `ExpireProof`. `ValidateWorkspaceRoster` is the part of the codec's
validation that depends on state.

**RegistryAccess** — administrators look, load the key file and commit in three
steps; a certified device's membership read takes one step per query. Reading
rosters keeps or frees the only database connection (`holds`), since
`SetMaxOpenConns(1)` makes the next query wait for it.

**FixedWindow**, **RelayAdmission** — `Allow` is an operator on the table of
windows. A connection is a handler with one step per point at which others may
act: the clock it reads on arrival, the limiter's mutex, the slot, the upgrade,
the frame or its deadline, and the two statements of `Store.Authenticate`,
while the device's row is rotated or revoked. The slot is given back on every
way out.

**DeviceRequests** — requests of devices, statement by statement: the
authentication of a request and the transaction it leads to are two steps. A
request sits in a slot until its answer arrives or is lost, so requests are
delayed, repeated and overtaken. Authentication is `Store.Authenticate`;
writing a preference compares and sets its revision; rotating a credential
spends a code; routing checks sender and recipient and appends. The client is
external and follows `protocol/transport-credential-rotation-v1.md`: it keeps
its old token until a connection with the new one has been accepted.

**AdminWeb** — requests of the console. What a handler does under
`Handler.mu`, under the one-time password verifier's mutex or in one store call
is a step; what it read before is a field of the request, since it acts on it
later (the account a login is checked against, the session a confirmation
writes back). A restart forgets sessions, verifiers and the recovery code's
use, and keeps the stored row.

**Migrations** — `Open` by any number of processes. The version is read outside
a transaction and each version is applied in one, so a process may work from a
version that is no longer true. `OldRegistries` are the registries that earlier
releases leave. Each `applySchemaVersion` is what it does to devices, codes and
rosters; the tables it creates are its number in `objects`.

**WorkspaceBackup** — extends `Migrations` with the files. A file is created
empty and written in a second step; a failed command undoes what it did in the
source's order; one that dies does not. A digest is the value digested, so a
manifest holds the values it vouches for. `log` numbers the commits of the
registry: a backup has to be one of them. `rotate-authority` loads its two key
files and commits in a later step, which finds the authority it loaded or ends;
the new key may be a superseded one. The operator is trusted with two things: to
pass no key file that a command is still generating, and to delete none that a
rotation under way has loaded. A restore opens the registry some time after
verifying it, when a failed backup may have removed it and another one be
writing its own, so the copy is compared with what was verified; without that
comparison `RestoreIsWhole` fails.

## Runs

| Run | Shows | States |
| --- | --- | --- |
| `delivery_store` | A queue never loses a delivery unreported, batches are unbroken, closed-form eviction equals the source's loop | 16 k |
| `relay_session` | No silent gap at the client, caught-up markers are true, `drainBatch`'s gap error is unreachable; and the whole refines `RecipientHistory`, liveness included | 449 k |
| `hub` | Admitted work of two sessions of a device never overlaps; the monitor retires only sessions it found unauthorized; a slot holds a session that is serving | 1.4 M |
| `hub_live` | A retired session is released; an unauthorized one leaves its slot | 209 k |
| `session_end` | True end cause, one reason of retirement; both loops end together and a retired session ends | 13 k |
| `registry` | Newest roster and devices table agree, the chain verifies along the transitions, a revocation is never taken back | 383 k |
| `registry_access` | A rejection never removes a member; bootstrap and terminal answers are consistent, whatever happens between two queries | 1.4 M |
| `relay_admission` | Slots are never lost, an address gets less than two limits of attempts through in a window's time less their longest wait, refusals have their reason, a session has the credential version it proved, every handshake ends | 386 k |
| `device_requests` | No preference update is lost, a request that starts after revocation or rotation changes nothing, a device always holds a token that works | 2.0 M |
| `admin_web` | Nobody manages before set-up; replacing the account ends all other sessions; a one-time password is accepted once between two starts | 2.2 M |
| `workspace_backup` | Version and schema agree whoever migrates; revocation epochs are the first ones; a backup is one commit with its key; a restore is whole, a failed one leaves nothing; every workspace has its key; a server opens in the end | 777 k |

One more run ends in a violation: `read_page`. `docs/membership-http-v1.md`
says that a page bounded by its bytes is answered and the client asks for the
next; the code leaves the loop with its rows open and its next query waits for
the only connection, which those rows hold (`store.go:996`).

More statements of documents or comments, or natural expectations, that the
code does not keep are defined in the modules without a run of their own. TLC
refutes each when it is named in the configuration of its module, with the
constants given here where they differ:

| Definition | Execution |
| --- | --- |
| `RelaySession!NotDeliveredExpired` | A delivery that expires after its batch was read is still sent |
| `Hub!OneLostRaceIsAbsorbed` | One lost slot race already ends the admission, after retiring the winner |
| `Hub!NoCredentialRollback` | A stale attempt takes the slot once the rotated session has left (two attempts, `MaxVersion = 2`) |
| `SessionEnd!PolicyCloseIsRevocation` | Ordinary cleanup can send the policy close meant for revocation |
| `SessionEnd!AbortHitsItsOwnWrite` | An abort that loaded `busy` closes after its write has returned |
| `SessionEnd!StalledWriteIsCut` | An abort that runs before `busy` is stored cuts nothing; the write ends at its deadline |
| `Registry!RotationRetryIsIdempotent` | A late retry of `rotate-authority` returns to a superseded key (three keys) |
| `RegistryAccess!AnswersVerify` | An answer can hold a roster whose transition it lacks |
| `RegistryAccess!LaterChangesHidden` | A device revoked during its read sees later rosters (two devices, two codes) |
| `AdminWeb!AccountIsStored` | Two confirmations save in one order and take effect in the other |
| `AdminWeb!LoginsAreCurrent` | A set-up completes between a login's password check and its session |
| `AdminWeb!LogoutIsFinal` | A confirmation in flight writes the logged-out session back |
| `WorkspaceBackup!OneWorkspace` | Two `init-workspace` commands both list no workspace and each create one |

Others hold in the model of the module's run, but have no standing run:
`TypeOK` of each module (`StoreTypeOK` in `DeliveryStore`); `BatchUnexpired`, `WithinCapacity`,
`AcceptedIsStored`, `CursorsAdvance` (`DeliveryStore`); `ResetIsNeeded`,
`CursorsAreCommitted`, `KeepsHistory` (`RelaySession`); `ReleasedIsDone` (`Hub`);
`BootstrapHasCertificate`, `CodesAreSpentOnce` (`Registry`);
`RevokedStaysOut` (`RelayAdmission`); `RevisionNamesValue`,
`VersionFollowsToken` (`DeviceRequests`); `OnlyConfirmedIsStored`,
`SecretsAreShownOnce` (`AdminWeb`); `OpenedIsCurrent`, `LegacyIsRetired`,
`MigrationsGrantNothing` (`Migrations`, in the run of `WorkspaceBackup`);
`ExistingFilesAreKept` (`WorkspaceBackup`). Most of them are proved, see below.

### Bounds

- `delivery_store`: capacity 3 deliveries or 4 bytes with sizes 1 and 2, so
  either limit can be the binding one and one append can evict two; sequence
  end 6, so eviction, expiry and the end are all reached; batches of 2 are
  shorter than the queue; three instants give expired, expiring, unexpired.
- `relay_session`: capacity 3, four ids, two senders (two commits before the
  first signal), two connections (a resume after a drop or crash), two
  frames on the wire each way, two instants of the clock.
- `hub`: three attempts of one device are needed for a lost race; devices share
  no state but the hub's lock.
- `registry`: two devices (one may be revoked while another is active), five
  epochs (approve twice, rename, rotate, revoke), two keys. `registry_access`
  has one device and two administrators. Capacity of the roster is 2, its page 2.
- `session_end` needs no bound: one session is finite.
- `relay_admission`: two clients with two tries each and two addresses on one
  slot, two attempts per window and one table entry, so every limit is met and
  the table is full for the second address; a window of 2 in a time of 2, so a
  window ends and two of them are straddled, by attempts decided on arrival and
  by late ones (the bound of `AtMostTwoWindows` is met for each wait); one
  rotation. An address whose entry was purged and that returns with a stale
  clock needs more time; the proof covers it.
- `device_requests`: two devices, one of them rotated and revoked, and two
  interchangeable slots, so a request overtakes its own repetition; three
  tokens, two rotation codes, two revisions.
- `admin_web`: two interchangeable requests, two credentials and two sessions
  (the built-in account, its replacement, a second replacement; a survivor and
  a session to end), one pairing code, two time steps, one restart.
- `workspace_backup`: one server and two commands on one registry with one
  device and up to three rosters, one failure or stop, two keys, three commits.
  `MCInit` splits the initial states: a registry with a device is opened where
  the file paths are taken, and the files are worked on with a registry of the
  last two releases without devices. No command reads a device, so the halves
  meet only in the version; versions 0 to 12 all start a run. A registry or key
  files at the destination are combined with a current registry that has a
  workspace, and an earlier backup only with the first half; the proofs do
  without any of these restrictions.

Deadlock is checked in the `hub` runs and in `delivery_store`. The other
systems may stop: bounded connections, requests and clocks, a session that has
ended, a registry at its last epoch.

### Fairness

- `RelaySession`: weak fairness of the reader, the writer, a sender between
  commit and signal (goroutines are scheduled, transports make progress), of
  the client's processing, and of reconnecting. No fairness of time, senders or
  acknowledgements.
- `Hub`: weak fairness of a registering or retired connection, of admitted
  operations (they have a timeout) and of the monitor (a ticker). Nobody has to
  connect or leave.
- `SessionEnd`: weak fairness of each goroutine once it has something to do;
  a write ends at its deadline; a read returns once the socket is closed.
- `RegistryAccess`: weak fairness of a read the client waits for; used only to
  show that `read_page` is stuck and not merely slow.
- `RelayAdmission`: weak fairness of each handler: it is scheduled, and a frame
  that does not come meets its deadline. Nobody has to connect, send or leave.
- `WorkspaceBackup`: weak fairness of a server's opening steps, since
  `deploy/compose/compose.yaml` restarts it (`restart: unless-stopped`, for the
  relay only); failures are bounded. Commands have none, and neither has the
  console, which opens the registry as a command does.
- `DeviceRequests`, `AdminWeb`, `DeliveryStore`, `Registry`: none.

## Proofs

Eight modules hold proofs. Each theorem holds for every value of the constants,
hence for any number of devices, connections, requests, deliveries, restarts or
failures, and uses at most the assumptions named with it. They cover every
invariant and action property of the runs but those of `session_end` and
`EvictionIsTheLoop`.

**`DeliveryStoreProofs`** (from `QueueAssumption`: positive capacity and batch
size, natural times, sizes that fit): `TypeCorrect`, `HistoryNeverGaps`
(`HistoryComplete`: every id between the floor, i.e. the larger of acknowledged
and unavailable, and the high-water mark is stored), `CursorsOnlyAdvance`.
Their invariant is `IndInv`, i.e. types and completeness together; neither is
inductive alone, as completeness needs the row set finite and typed so that the
newest expired or evicted row exists. `AnswerInv` adds that rows have distinct
ids and fit both limits, and what the last answer says; it gives
`BatchesAreContiguous`, `BatchesAreFresh`, `CapacityIsRespected` and
`AcceptedIsAlwaysStored`. The byte sum of a row set is a fold over a recursive
function; what is needed of it (a part weighs no more than the whole, one row
adds its size) is shown without an induction principle, by looking at a
smallest set that would break it. `CapacityIsTheLoop` shows that the closed form
of `enforceDeliveryCapacity` obeys the two equations of the loop in the source,
each pass of which deletes a row, and is therefore its result.

**`RelaySessionProofs`** (`QueueAssumption`): `DeliveryHasNoSilentGap`,
`CaughtUpMeansCommitted`, `GapIsNeverReported`, `OnlyCommittedIsForgotten`,
`ResetsAreNeeded` and the refinement `HistoryIsKept`, end to end across drops
and crashes. `Inv` follows a delivery from the queue to the client: the queue's
acknowledged mark never exceeds what the client committed; a resume request on
the wire asks for a cursor the client has committed; the frames on the wire,
the batch being written and the writer's cursor each continue where the one
before stops, or start with a reset. A gap could come from any of these
hand-overs, so each needs its conjunct. `NeededInv` says the same of resets:
wherever one is (in a batch, on the wire, being reconciled), it concerns a
client below a recorded loss. `HistoryIsKept` is the safety half of
`ImplementsHistory`: `Init` maps to the initial state of `RecipientHistory` and
every step to one of its steps or a stutter. Its publish step needs that an
append never evicts its own delivery, its reconcile step needs `NeededInv`.

**`HubProofs`** (`HubAssumption`): `SessionsNeverOverlap`, `ReleaseIsFinal`,
`MonitorRetiresWhatItSaw`, `SlotsMatchSessions`. The slot is the pivot: a
session has it from `Register` until somebody who holds its operation lock
drops it, which needs the session retired; work is admitted only in between,
and a slot has one holder.

**`RegistryAccessProofs`** (`RegistryAssumption`, `AccessAssumption`):
`RosterAlwaysIsRegistry`, `ChainAlwaysVerifies`, `BootstrapAlwaysWorks`,
`RevocationStaysFinal`, `CodesAlwaysSpentOnce` of the registry, and of its
callers `AccessImplementsRegistry`, `RejectionNeverRemoves`,
`ReadsAlwaysBootstrap`, `TerminalViewsVerify`. `RegInv` puts the four registry
properties together with `History`: transitions are in the order of their
activation and the last leads to the current authority. With it, adding a
roster or a transition leaves the key in effect at every earlier epoch as it
was, which is what an old roster needs to go on verifying. `CodeInv` counts: a
device's version is one more than the rotation codes it has used. `AccessInv`
says what a read has fixed by each of its queries; it survives other
transactions because the registry only grows.

**`RelayAdmissionProofs`** (`AdmissionAssumption`, `WindowAssumption`):
`TypeCorrect`, `SlotsAlwaysMatch`, `ServedIsAlwaysProved`,
`RevokedAlwaysStaysOut`, `AtMostTwoWindowsPass`, `RefusalsAreJustified`.
`SlotsInv` counts the handshakes that hold a slot. `IdentityInv` follows a token
through the two statements of `Store.Authenticate`. The clock is read before the
limiter's mutex is obtained, so windows start at stale times and end early:
`AtMostTwoWindows` allows every attempt of an address a wait between arrival and
decision and looks at a window length less that wait, less than two limits.
`WindowInv` says for each wait that the attempts before the current window are
that far apart from those in it: a window starts at most the wait before the
moment it is started, and the one before had expired by then. It also says that
a window counts nothing that was not let through since it started.
`RefusalIsJustified` measures by decision times, not arrival times: an attempt
may be decided, and counted, well after it arrived, so with a limit of two or
more the attempts that fill a window need not all have arrived in it.

**`DeviceRequestsProofs`** (`RequestsAssumption`): `UpdatesAreNotLost`,
`RevisionsNameValues`, `LateRequestsAreStopped`, `RotationNeverLocksOut`. The
invariant describes each request in flight: the value it read is the one its
revision names; a rotation's new token is the device's pending one, or the
device has long adopted it; a request marked late has not passed the point its
token or code was checked.

**`AdminWebProofs`** (`AdminWebAssumption`): `ManagersStaySetUp`,
`StoredIsConfirmed`, `ReplacementEndsSessions`, `CodesStayUsedUp`,
`SecretsShownOnce`. The last needs that a code is in one place only: a request
about to store it, one session's flash message, or already shown.

**`WorkspaceBackupProofs`** (`FilesAssumption`): five invariants, each resting
on those before it.

- `SchemaInv` (`SchemaStaysConsistent`, `OpenMeansCurrent`): a process that
  migrates may hold a stale version but never one past the next, so the only
  version it can still apply is the next one, and whatever it finds applied
  makes it stop.
- `RowsInv` (`RevocationsKeepTheirEpoch`, `LegacyStaysRetired`,
  `MigrationsNeverGrant`): what a row of each version looks like; one lemma per
  version that changes rows.
- `KeysInv` (`WorkspaceAlwaysHasItsKey`): a key that is being generated is one
  command's own and named by no commit until its file is whole; a key that a
  rotation has loaded is whole and generated by nobody.
- `BackupInv` (`BackupIsAlwaysOneCommit`): the backup directory belongs to the
  command that made it until it reports; afterwards it verifies.
- `DestinationInv` (`RestoreIsAlwaysWhole`, `FailedRestoreIsUndone`,
  `ExistingFilesStay`): a restore that created the registry leaves its steps
  only by reporting, by removing the file, or by dying, and goes on to the key
  only with a copy of the source it verified, which stays one commit.

Only model-checked:

- liveness, since fairness and ENABLED are beyond the prover: the progress half
  of `ImplementsHistory`, `RetiredIsReleased`, `UnauthorizedLeaves`,
  `LoopsEndTogether`, `RetiredEnds`, `HandshakesEnd`, `OpensInTheEnd`;
- `EvictionIsTheLoop`, whose reference is a recursion in `MCDeliveryStore`;
  `CapacityIsTheLoop` proves its equations;
- `SessionEnd`: it has no constants, so its run is already exhaustive.

## Not modelled

- Identity challenges (HPKE): a proof is an event in `Registry`. Wire codecs and
  generated protobuf: byte layouts; what the registry relies on is
  `ValidateWorkspaceRoster`.
- Client addresses, configuration, directories and their permissions, HTTP
  decoding, readiness, listings: stateless.
- Process wiring: start-up and shutdown order of the server.
- `RouteOnline`'s non-blocking send to the recipient's queue: it promises no
  delivery, so there is nothing to state beyond the operation boundary.
- Registration's second read of the authority key; activity times.
- Power loss: a file model in which unsynced directory entries vanish. A stop is
  the end of a process. A torn registry that a killed restore leaves is not
  repaired by the code; it only refuses to be restored over.
- Delivery cursors across a restore: no document says what a client that is
  ahead of the restored history should do.
