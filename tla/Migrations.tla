----------------------------- MODULE Migrations -----------------------------
(***************************************************************************)
(* Opening the registry (internal/admission/store.go, Open, initialize and *)
(* applySchemaVersion2 .. applySchemaVersion11).                           *)
(*                                                                         *)
(* Every process of the deployment, the relay, the console and each admin  *)
(* command, opens the same SQLite file and brings it to the schema of its  *)
(* own release.  The version is read outside any transaction; then each    *)
(* version is applied in a transaction of its own, so two processes may    *)
(* migrate the same file and one of them works from a version that is no   *)
(* longer true.  The file may come from any earlier release, or from a     *)
(* later one.                                                              *)
(***************************************************************************)
EXTENDS Integers, FiniteSets, Sequences, FiniteSetsExt

\* Servers are started again when they stop (the relay, the one service with a
\* restart policy); Tools are the admin commands.  The console opens the registry
\* as one of them does: nothing starts it again.
CONSTANTS Servers, Tools, Devices, MaxEpoch, MaxFaults

ASSUME MigrationsAssumption == MaxEpoch \in Nat /\ MaxFaults \in Nat

VARIABLES registry, opener, faults

Openers == Servers \cup Tools

migrationVars == <<registry, opener, faults>>

\* currentSchemaVersion, and one release later than this one.
Current == 11
Newer == Current + 1

\* "none": no row; "plain": a row of a schema without membership_state.
States == {"none", "plain", "legacy_active", "pending", "approved", "revoked"}

\* revokedAt: 0 is NULL, 1 a time before this release, 2 the time of migration.
Row(state, revokedAt, certified, epoch) ==
    [state |-> state, revokedAt |-> revokedAt, certified |-> certified, epoch |-> epoch]

\* COALESCE(MAX(version), 0) over schema_migrations.
Version(db) == Max(db.rows \cup {0})

\* The latest roster that repeats the revocation.
MutLastListing(rosters, d) ==
    Max({0} \cup {e \in DOMAIN rosters : d \in rosters[e]})

\* The first roster, in epoch order, that lists the device as revoked; 0 if none.
FirstListing(rosters, d) ==
    LET listing == {e \in DOMAIN rosters : d \in rosters[e]}
    IN  IF listing = {} THEN 0 ELSE Min(listing)

-----------------------------------------------------------------------------
(* The registries an earlier release leaves behind.                        *)

\* Rosters are cumulative; the first one approves a device and revokes none.
OldRosters(v) ==
    IF v < 4 THEN {<<>>}
    ELSE {r \in UNION {[1..n -> SUBSET Devices] : n \in 0..MaxEpoch} :
            /\ r # <<>> => r[1] = {}
            /\ \A i \in 2..Len(r) : r[i - 1] \subseteq r[i]}

OldRows(v, rosters, d) ==
    LET listed == \E e \in DOMAIN rosters : d \in rosters[e]
    IN  IF listed
        THEN {Row("revoked", 1, TRUE,
                  IF v < 5 THEN 0
                  ELSE Min({e \in DOMAIN rosters : d \in rosters[e]}))}
        ELSE {Row("none", 0, FALSE, 0)}
             \cup {Row("plain", at, FALSE, 0) : at \in IF v \in 1..3 THEN {0, 1} ELSE {}}
             \cup {Row("legacy_active", at, FALSE, 0) : at \in IF v \in 4..7 THEN {0, 1} ELSE {}}
             \cup (IF v < 4 THEN {} ELSE {Row("pending", 0, FALSE, 0), Row("revoked", 1, FALSE, 0)})
             \cup (IF rosters = <<>> THEN {} ELSE {Row("approved", 0, TRUE, 0)})

\* The devices a rotation code may have been issued for: the ones in service.
InService(row) ==
    row.state \in {"plain", "legacy_active", "approved"} /\ row.revokedAt = 0

OldDevices(v, rosters) ==
    {f \in [Devices -> UNION {OldRows(v, rosters, d) : d \in Devices}] :
        \A d \in Devices : f[d] \in OldRows(v, rosters, d)}

RegistriesOf(v, rosters) ==
    {[rows |-> 1..v, objects |-> 1..v, rosters |-> rosters, devices |-> devs, codes |-> codes] :
        devs \in OldDevices(v, rosters), codes \in SUBSET (IF v < 2 THEN {} ELSE Devices)}

OldRegistries ==
    UNION {UNION {RegistriesOf(v, rosters) : rosters \in OldRosters(v)} : v \in 0..Newer}

Closed == [pc |-> "closed", next |-> 0]

\* Open 225-259: every process starts with the file closed.
MigrationsInit ==
    /\ registry \in {db \in OldRegistries : \A d \in db.codes : InService(db.devices[d])}
    /\ opener = [p \in Openers |-> Closed]
    /\ faults = 0

-----------------------------------------------------------------------------
(* The data each version changes.  Versions 1, 2, 3, 6, 7, 9, 10 and 11    *)
(* only add tables, columns and triggers.                                  *)

\* ALTER TABLE devices ADD COLUMN membership_state ... DEFAULT 'legacy_active'.
applySchemaVersion4(db) ==
    [db EXCEPT !.devices = [d \in Devices |->
        IF @[d].state = "plain" THEN [@[d] EXCEPT !.state = "legacy_active"] ELSE @[d]]]

CertifiedRevocations(db) ==
    {d \in Devices : db.devices[d].state = "revoked" /\ db.devices[d].certified}

\* Backfills the epoch of every certified revocation from the stored rosters.
applySchemaVersion5(db) ==
    [db EXCEPT !.devices = [d \in Devices |->
        IF d \in CertifiedRevocations(db)
        THEN [@[d] EXCEPT !.epoch = FirstListing(db.rosters, d)] ELSE @[d]]]

Legacy(db) == {d \in Devices : db.devices[d].state = "legacy_active"}

\* UPDATE devices ... WHERE membership_state = 'legacy_active'; COALESCE keeps the
\* time of an earlier revocation.
Retired(db) ==
    [d \in Devices |->
        IF d \in Legacy(db)
        THEN [db.devices[d] EXCEPT !.state = "revoked", !.revokedAt = IF @ = 0 THEN 2 ELSE @]
        ELSE db.devices[d]]

\* Deletes the rotation codes of the legacy devices, then revokes the devices.
applySchemaVersion8(db) ==
    LET deleted == [db EXCEPT !.codes = @ \ Legacy(db)]
    IN  [deleted EXCEPT !.devices = Retired(deleted)]

\* The statements of version v succeed: nothing it creates exists, and version 5
\* finds a roster for every certified revocation.
Applies(v, db) ==
    /\ v \notin db.objects
    /\ v = 5 => \A d \in CertifiedRevocations(db) : FirstListing(db.rosters, d) # 0

\* The schema_migrations row is left out.
MutUnrecorded(v, db) ==
    LET data == CASE v = 4 -> applySchemaVersion4(db)
                  [] v = 5 -> applySchemaVersion5(db)
                  [] v = 8 -> applySchemaVersion8(db)
                  [] OTHER -> db
    IN  [data EXCEPT !.objects = @ \cup {v}]

\* One transaction: the data, the schema objects and the schema_migrations row.
Migrated(v, db) ==
    LET data == CASE v = 4 -> applySchemaVersion4(db)
                  [] v = 5 -> applySchemaVersion5(db)
                  [] v = 8 -> applySchemaVersion8(db)
                  [] OTHER -> db
    IN  [data EXCEPT !.rows = @ \cup {v}, !.objects = @ \cup {v}]

-----------------------------------------------------------------------------
(* The steps of a process that opens the registry.                         *)

\* initialize 1644-1654: reads the version and refuses a newer one.
ReadVersion(p) ==
    /\ opener[p].pc = "closed"
    /\ LET v == Version(registry)
       IN  opener' = [opener EXCEPT ![p] =
             CASE v > Current -> [pc |-> "refused", next |-> 0]
               [] v = Current -> [pc |-> "open", next |-> 0]
               [] OTHER -> [pc |-> "migrating", next |-> v + 1]]
    /\ UNCHANGED <<registry, faults>>

\* initialize skips a version of the chain.
MutChainSkipsEight(v) == CASE v = Current -> 0 [] v = 7 -> 9 [] OTHER -> v + 1

\* initialize calls up to version 7, and each of 7 to 10 calls the next: the
\* version applied after v, or 0 when Open returns the store.
ChainAfter(v) == IF v = Current THEN 0 ELSE v + 1

\* One applySchemaVersionN: committed, or rolled back because another process
\* has applied it in the meantime, and Open returns the error.
ApplySchemaVersion(p) ==
    /\ opener[p].pc = "migrating"
    /\ LET v == opener[p].next
       IN  IF Applies(v, registry)
           THEN /\ registry' = Migrated(v, registry)
                /\ opener' = [opener EXCEPT ![p] =
                     IF ChainAfter(v) = 0 THEN [pc |-> "open", next |-> 0]
                     ELSE [pc |-> "migrating", next |-> ChainAfter(v)]]
           ELSE /\ opener' = [opener EXCEPT ![p] = Closed]
                /\ UNCHANGED registry
    /\ UNCHANGED faults

\* Any statement of the transaction fails and is rolled back, or the process
\* dies in it, or it dies with the registry open.
OpenerDies(p) ==
    /\ opener[p].pc \in {"migrating", "open"}
    /\ faults < MaxFaults
    /\ faults' = faults + 1
    /\ opener' = [opener EXCEPT ![p] = Closed]
    /\ UNCHANGED registry

OpenStep(p) == ReadVersion(p) \/ ApplySchemaVersion(p)

-----------------------------------------------------------------------------
(* Properties.                                                             *)

\* Version v is recorded exactly when what v creates exists, and no version is
\* recorded before the one it builds on: whichever processes migrate the file
\* and wherever they stop, initialize finds a version it can continue from.
SchemaMatchesVersion ==
    /\ registry.rows = registry.objects
    /\ registry.rows = 1..Version(registry)

\* A process whose Open has returned the store works on the current schema, even
\* if it read an older version than the one another process has since committed.
OpenedIsCurrent ==
    \A p \in Openers : opener[p].pc = "open" => Version(registry) = Current

\* After version 5 a certified revocation carries the epoch of the first roster
\* that listed it, not of a later roster that repeats it.
RevocationEpochIsFirst ==
    Version(registry) >= 5 =>
        \A d \in CertifiedRevocations(registry) :
            registry.devices[d].epoch = Min({e \in DOMAIN registry.rosters :
                                               d \in registry.rosters[e]})

\* After version 8 no device serves without a certificate: the legacy ones are
\* revoked, with a time, and no rotation code is left that names one.
LegacyIsRetired ==
    Version(registry) >= 8 =>
        \A d \in Devices : LET row == registry.devices[d] IN
            ~row.certified =>
                /\ row.state \in {"none", "pending", "revoked"}
                /\ row.state = "revoked" => row.revokedAt # 0
                /\ d \notin registry.codes

\* No migration moves the time of a revocation that is already recorded, and none
\* takes a device that is not in service into service.
MigrationsGrantNothing ==
    [][\A d \in Devices :
        /\ registry.devices[d].revokedAt # 0 =>
              registry'.devices[d].revokedAt = registry.devices[d].revokedAt
        /\ InService(registry'.devices[d]) => InService(registry.devices[d])]_registry

\* Once the failures stop, every server that is started again after a failed
\* Open ends with the registry open, however the processes overtake each other.
OpensInTheEnd ==
    Version(registry) <= Current => <>[](\A p \in Servers : opener[p].pc = "open")
=============================================================================
