----------------------- MODULE WorkspaceBackupProofs -----------------------
(***************************************************************************)
(* The registry is migrated consistently, and whoever has it open works on *)
(* the current schema, for any number of servers, admin commands and       *)
(* devices, and any number of failures.                                    *)
(***************************************************************************)
EXTENDS WorkspaceBackup, TLAPS

\* The version is the number of applied migrations when they are contiguous
\* (SELECT COALESCE(MAX(version), 0) in initialize).
LEMMA VersionOfPrefix ==
    ASSUME NEW db, NEW v \in Nat, db.rows = 1..v
    PROVE  Version(db) = v
<1> DEFINE S == db.rows \cup {0}
<1>1. v \in S /\ \A y \in S : v >= y
  OBVIOUS
<1>2. ASSUME NEW x \in S, \A y \in S : x >= y PROVE x = v
  BY <1>1, <1>2
<1>3. Version(db) = CHOOSE x \in S : \A y \in S : x >= y
  BY DEF Version, Max
<1> QED
  BY <1>1, <1>2, <1>3

\* The fields of a registry.
Shaped(db) ==
    db = [rows |-> db.rows, objects |-> db.objects, rosters |-> db.rosters,
          devices |-> db.devices, codes |-> db.codes]

\* The inductive invariant.  A process that migrates may hold a version that is no
\* longer the last one, but never one past the next: so the only version it can
\* still apply is the next one, and everything it finds applied makes it stop.
SchemaInv ==
    /\ Shaped(registry)
    /\ registry.objects = registry.rows
    /\ \E v \in 0..Newer :
         /\ registry.rows = 1..v
         /\ \A p \in Openers :
              /\ opener[p].pc = "migrating" => opener[p].next \in 1..Current /\ opener[p].next <= v + 1
              /\ opener[p].pc = "open" => v = Current
    /\ opener \in [Openers -> [pc : {"closed", "migrating", "open", "refused"}, next : 0..Current]]

\* Every registry an earlier release leaves has the schema of its version.
LEMMA InitSchema == Init => SchemaInv
<1> SUFFICES ASSUME Init PROVE SchemaInv
  OBVIOUS
<1>1. PICK v \in 0..Newer :
        \E rosters, devs, codes :
            registry = [rows |-> 1..v, objects |-> 1..v, rosters |-> rosters,
                        devices |-> devs, codes |-> codes]
  <2>1. registry \in OldRegistries
    BY DEF Init, MigrationsInit
  <2>2. PICK v \in 0..Newer :
          registry \in UNION {RegistriesOf(v, rosters) : rosters \in OldRosters(v)}
    BY <2>1, Zenon DEF OldRegistries
  <2>3. PICK rosters \in OldRosters(v) : registry \in RegistriesOf(v, rosters)
    BY <2>2, Zenon
  <2>4. PICK devs \in OldDevices(v, rosters), codes \in SUBSET (IF v < 2 THEN {} ELSE Devices) :
          registry = [rows |-> 1..v, objects |-> 1..v, rosters |-> rosters,
                      devices |-> devs, codes |-> codes]
    BY <2>3 DEF RegistriesOf
  <2> QED
    BY <2>2, <2>4, Zenon
<1>2. Shaped(registry) /\ registry.rows = 1..v /\ registry.objects = 1..v
  BY <1>1 DEF Shaped
<1>3. opener = [p \in Openers |-> [pc |-> "closed", next |-> 0]]
  BY DEF Init, MigrationsInit, Closed
<1>4. opener \in [Openers -> [pc : {"closed", "migrating", "open", "refused"}, next : 0..Current]]
  BY <1>3 DEF Current
<1>5. \A p \in Openers : opener[p].pc # "migrating" /\ opener[p].pc # "open"
  BY <1>3
<1> QED
  BY <1>2, <1>4, <1>5, Zenon DEF SchemaInv

\* A migration adds its version to both sets and changes no other field's presence.
LEMMA MigratedShape ==
    ASSUME NEW db, NEW v, Shaped(db)
    PROVE  /\ Shaped(Migrated(v, db))
           /\ Migrated(v, db).rows = db.rows \cup {v}
           /\ Migrated(v, db).objects = db.objects \cup {v}
<1> DEFINE data == CASE v = 4 -> applySchemaVersion4(db)
                     [] v = 5 -> applySchemaVersion5(db)
                     [] v = 8 -> applySchemaVersion8(db)
                     [] OTHER -> db
<1>1. Shaped(applySchemaVersion4(db)) /\ applySchemaVersion4(db).rows = db.rows
        /\ applySchemaVersion4(db).objects = db.objects
  BY DEF Shaped, applySchemaVersion4
<1>2. Shaped(applySchemaVersion5(db)) /\ applySchemaVersion5(db).rows = db.rows
        /\ applySchemaVersion5(db).objects = db.objects
  BY DEF Shaped, applySchemaVersion5
<1>3. Shaped(applySchemaVersion8(db)) /\ applySchemaVersion8(db).rows = db.rows
        /\ applySchemaVersion8(db).objects = db.objects
  <2> DEFINE deleted == [db EXCEPT !.codes = @ \ Legacy(db)]
             retired == Retired(deleted)
  <2>1. Shaped(deleted) /\ deleted.rows = db.rows /\ deleted.objects = db.objects
    BY DEF Shaped
  <2>2. applySchemaVersion8(db) = [deleted EXCEPT !.devices = retired]
    BY DEF applySchemaVersion8
  <2> HIDE DEF deleted, retired
  <2> QED
    BY <2>1, <2>2 DEF Shaped
<1>4. Shaped(data) /\ data.rows = db.rows /\ data.objects = db.objects
  BY <1>1, <1>2, <1>3
<1>5. Migrated(v, db) = [data EXCEPT !.rows = @ \cup {v}, !.objects = @ \cup {v}]
  BY DEF Migrated
<1> HIDE DEF data
<1> QED
  BY <1>4, <1>5, Zenon DEF Shaped

\* Every step that leaves the registry alone and at most closes one process keeps
\* the invariant: all commands on the files are of this kind.
LEMMA ClosingKeepsSchema ==
    ASSUME SchemaInv, UNCHANGED registry,
           NEW t, opener' = [opener EXCEPT ![t] = Closed] \/ UNCHANGED opener
    PROVE  SchemaInv'
<1>1. PICK v \in 0..Newer :
         /\ registry.rows = 1..v
         /\ \A p \in Openers :
              /\ opener[p].pc = "migrating" => opener[p].next \in 1..Current /\ opener[p].next <= v + 1
              /\ opener[p].pc = "open" => v = Current
  BY DEF SchemaInv
<1>2. opener' \in [Openers -> [pc : {"closed", "migrating", "open", "refused"}, next : 0..Current]]
  BY DEF SchemaInv, Closed, Current
<1>3. ASSUME NEW p \in Openers PROVE opener'[p] = opener[p] \/ opener'[p].pc = "closed"
  BY <1>3 DEF SchemaInv, Closed
<1>4. \A p \in Openers :
         /\ opener'[p].pc = "migrating" => opener'[p].next \in 1..Current /\ opener'[p].next <= v + 1
         /\ opener'[p].pc = "open" => v = Current
  BY <1>1, <1>3
<1>5. registry' = registry
  OBVIOUS
<1>6. Shaped(registry)' /\ (registry.objects = registry.rows)' /\ (registry.rows = 1..v)'
  BY <1>1, <1>5 DEF SchemaInv, Shaped
<1> QED
  BY <1>1, <1>2, <1>4, <1>6 DEF SchemaInv

\* Reading the version, applying the next one and dying keep the schema in order.
LEMMA OpenKeepsSchema ==
    ASSUME SchemaInv, NEW p \in Openers, OpenStep(p) \/ OpenerDies(p)
    PROVE  SchemaInv'
<1>1. PICK v \in 0..Newer :
         /\ registry.rows = 1..v
         /\ \A q \in Openers :
              /\ opener[q].pc = "migrating" => opener[q].next \in 1..Current /\ opener[q].next <= v + 1
              /\ opener[q].pc = "open" => v = Current
  BY DEF SchemaInv
<1>2. Version(registry) = v
  BY <1>1, VersionOfPrefix DEF Newer, Current
<1>3. CASE ReadVersion(p)
  <2>1. registry' = registry
    BY <1>3 DEF ReadVersion
  <2>2. opener'[p] = CASE v > Current -> [pc |-> "refused", next |-> 0]
                       [] v = Current -> [pc |-> "open", next |-> 0]
                       [] OTHER -> [pc |-> "migrating", next |-> v + 1]
    BY <1>2, <1>3 DEF ReadVersion, SchemaInv
  <2>3. \A q \in Openers : q # p => opener'[q] = opener[q]
    BY <1>3 DEF ReadVersion, SchemaInv
  <2>4. opener'[p] \in [pc : {"closed", "migrating", "open", "refused"}, next : 0..Current]
    BY <2>2 DEF Newer, Current
  <2>5. opener' \in [Openers -> [pc : {"closed", "migrating", "open", "refused"}, next : 0..Current]]
    BY <1>3, <2>3, <2>4 DEF ReadVersion, SchemaInv
  <2>6. /\ opener'[p].pc = "migrating" => opener'[p].next \in 1..Current /\ opener'[p].next <= v + 1
        /\ opener'[p].pc = "open" => v = Current
    BY <2>2 DEF Newer, Current
  <2>7. \A q \in Openers :
          /\ opener'[q].pc = "migrating" => opener'[q].next \in 1..Current /\ opener'[q].next <= v + 1
          /\ opener'[q].pc = "open" => v = Current
    BY <1>1, <2>3, <2>6
  <2>8. Shaped(registry)' /\ (registry.objects = registry.rows)' /\ (registry.rows = 1..v)'
    BY <1>1, <2>1 DEF SchemaInv, Shaped
  <2> QED
    BY <2>5, <2>7, <2>8, ZenonT(40) DEF SchemaInv
<1>4. CASE ApplySchemaVersion(p) /\ ~Applies(opener[p].next, registry)
  BY <1>4, ClosingKeepsSchema DEF ApplySchemaVersion
<1>5. CASE ApplySchemaVersion(p) /\ Applies(opener[p].next, registry)
  <2> DEFINE n == opener[p].next
  <2>1. n \in 1..Current /\ n <= v + 1 /\ n \notin registry.objects
    BY <1>1, <1>5 DEF ApplySchemaVersion, Applies
  <2>2. n = v + 1 /\ v < Current
    BY <1>1, <2>1 DEF SchemaInv, Newer, Current
  <2>3. registry' = Migrated(n, registry)
    BY <1>5 DEF ApplySchemaVersion
  <2>4. /\ Shaped(registry)' /\ registry'.rows = registry.rows \cup {n}
        /\ registry'.objects = registry.objects \cup {n}
    BY <2>3, MigratedShape DEF SchemaInv, Shaped
  <2>5. registry'.rows = 1..n /\ registry'.objects = registry'.rows
    BY <1>1, <2>1, <2>2, <2>4 DEF SchemaInv, Current
  <2>6. opener'[p] = IF n = Current THEN [pc |-> "open", next |-> 0]
                     ELSE [pc |-> "migrating", next |-> n + 1]
    BY <1>5, <2>1 DEF ApplySchemaVersion, ChainAfter, SchemaInv, Current
  <2>7. \A q \in Openers : q # p => opener'[q] = opener[q]
    BY <1>5 DEF ApplySchemaVersion, SchemaInv
  <2>8. opener'[p] \in [pc : {"closed", "migrating", "open", "refused"}, next : 0..Current]
    BY <2>1, <2>6 DEF Current
  <2>9. opener' \in [Openers -> [pc : {"closed", "migrating", "open", "refused"}, next : 0..Current]]
    BY <1>5, <2>7, <2>8 DEF ApplySchemaVersion, SchemaInv
  <2>10. /\ opener'[p].pc = "migrating" => opener'[p].next \in 1..Current /\ opener'[p].next <= n + 1
         /\ opener'[p].pc = "open" => n = Current
    BY <2>1, <2>6 DEF Current
  <2>11. ASSUME NEW q \in Openers, q # p
         PROVE  /\ opener'[q].pc = "migrating" => opener'[q].next \in 1..Current /\ opener'[q].next <= n + 1
                /\ opener'[q].pc # "open"
    BY <1>1, <2>2, <2>7, <2>11, SMTT(40) DEF Newer, Current
  <2>12. \A q \in Openers :
          /\ opener'[q].pc = "migrating" => opener'[q].next \in 1..Current /\ opener'[q].next <= n + 1
          /\ opener'[q].pc = "open" => n = Current
    BY <2>10, <2>11
  <2>13. n \in 0..Newer
    BY <2>1 DEF Newer, Current
  <2> HIDE DEF n
  <2> QED
    BY <2>4, <2>5, <2>9, <2>12, <2>13, Zenon DEF SchemaInv
<1>6. CASE OpenerDies(p)
  BY <1>6, ClosingKeepsSchema, Zenon DEF OpenerDies
<1> QED
  BY <1>3, <1>4, <1>5, <1>6 DEF OpenStep

\* So does every step of every process.
LEMMA NextSchema == SchemaInv /\ [Next]_vars => SchemaInv'
<1> SUFFICES ASSUME SchemaInv, [Next]_vars PROVE SchemaInv'
  OBVIOUS
<1>1. CASE UNCHANGED vars
  BY <1>1, ClosingKeepsSchema DEF vars, migrationVars
<1>2. ASSUME NEW p \in Openers, OpenStep(p) \/ OpenerDies(p) PROVE SchemaInv'
  BY <1>2, OpenKeepsSchema
<1>3. ASSUME NEW p \in Servers, ServerCommits(p) PROVE SchemaInv'
  BY <1>3, ClosingKeepsSchema DEF ServerCommits, migrationVars
<1>4. ASSUME NEW k \in Keys, RetireKey(k) PROVE SchemaInv'
  BY <1>4, ClosingKeepsSchema DEF RetireKey, migrationVars
<1>5. ASSUME NEW t \in Tools, Administer(t) PROVE SchemaInv'
  <2>1. UNCHANGED registry /\ (opener' = [opener EXCEPT ![t] = Closed] \/ UNCHANGED opener)
    BY <1>5, Zenon DEF Administer, ListWorkspaces, PrepareAuthorityRotation, GenerateAuthority,
       WriteAuthority, CreateWorkspace, GenerateFails, LoadRotation, RotateAuthority, Exit, migrationVars
  <2> QED
    BY <2>1, ClosingKeepsSchema
<1>6. ASSUME NEW t \in Tools, Backup(t) PROVE SchemaInv'
  <2>1. UNCHANGED registry /\ (opener' = [opener EXCEPT ![t] = Closed] \/ UNCHANGED opener)
    BY <1>6, Zenon DEF Backup, BackupWorkspace, Mkdir, CreateEntry, WriteEntry, InspectSnapshot,
       VerifyCreated, BackupFails, RemoveAll, Exit, migrationVars
  <2> QED
    BY <2>1, ClosingKeepsSchema
<1>7. ASSUME NEW t \in Tools, RestoreTo(t) PROVE SchemaInv'
  <2>1. UNCHANGED registry /\ (opener' = [opener EXCEPT ![t] = Closed] \/ UNCHANGED opener)
    BY <1>7, Zenon DEF RestoreTo, BeginRestore, OpenCopy, FinishCopy, RestoreAuthority,
       WriteRestoredKey, RestoreFails, RemoveRegistry, Exit, migrationVars
  <2> QED
    BY <2>1, ClosingKeepsSchema
<1>8. ASSUME NEW t \in Tools, ToolDies(t) PROVE SchemaInv'
  BY <1>8, ClosingKeepsSchema, Zenon DEF ToolDies, Exit
<1> QED
  BY <1>1, <1>2, <1>3, <1>4, <1>5, <1>6, <1>7, <1>8 DEF Next

\* The schema is in order in every reachable state.
LEMMA SchemaInvariant == Spec => []SchemaInv
<1> QED
  BY InitSchema, NextSchema, PTL DEF Spec

\* However many processes open the registry at once, and wherever they fail, the
\* recorded versions are exactly the applied ones, without a gap.
THEOREM SchemaStaysConsistent == Spec => []SchemaMatchesVersion
<1>1. SchemaInv => SchemaMatchesVersion
  BY VersionOfPrefix DEF SchemaInv, SchemaMatchesVersion, Newer, Current
<1> QED
  BY <1>1, SchemaInvariant, PTL

\* Open returns a store only on the current schema, and no other process can take
\* the registry away from it afterwards.
THEOREM OpenMeansCurrent == Spec => []OpenedIsCurrent
<1>1. SchemaInv => OpenedIsCurrent
  BY VersionOfPrefix DEF SchemaInv, OpenedIsCurrent, Newer, Current
<1> QED
  BY <1>1, SchemaInvariant, PTL

-----------------------------------------------------------------------------
(* What the migrations do to the devices.                                  *)

\* A row of the devices table in a registry of version v: rows without a
\* membership state end with version 4, legacy devices with version 8, only an
\* approved device was certified, and every revocation has its time.
RowOK(v, row) ==
    /\ row = Row(row.state, row.revokedAt, row.certified, row.epoch)
    /\ row.state \in States
    /\ row.state = "plain" => v < 4
    /\ row.state = "legacy_active" => v < 8
    /\ row.state \in {"plain", "legacy_active"} => ~row.certified
    /\ row.state = "approved" => row.certified
    /\ row.state = "revoked" => row.revokedAt # 0

\* The devices of a registry: a certified revocation of version 5 or later has
\* the epoch of its first listing, and a rotation code names a device in service.
DevicesOK(v, db) ==
    /\ db.devices = [d \in Devices |-> db.devices[d]]
    /\ \A d \in Devices : RowOK(v, db.devices[d])
    /\ \A d \in Devices : d \in db.codes => InService(db.devices[d])
    /\ v >= 5 => \A d \in CertifiedRevocations(db) :
                   db.devices[d].epoch = Min({e \in DOMAIN db.rosters : d \in db.rosters[e]})

RowsInv == DevicesOK(Version(registry), registry)

\* What one version may do to a device: it moves no recorded time of revocation
\* and takes nobody into service.
Grants(old, new) ==
    /\ old.revokedAt # 0 => new.revokedAt = old.revokedAt
    /\ InService(new) => InService(old)

\* Version 4 gives a row without a membership state the legacy one.
LEMMA Version4Keeps ==
    ASSUME NEW db, Shaped(db), DevicesOK(3, db)
    PROVE  LET new == Migrated(4, db)
           IN  DevicesOK(4, new) /\ \A d \in Devices : Grants(db.devices[d], new.devices[d])
<1> DEFINE new == Migrated(4, db)
<1>1. new.codes = db.codes /\ new.rosters = db.rosters
  BY DEF Migrated, applySchemaVersion4, Shaped
<1>2. new.devices = [d \in Devices |->
          IF db.devices[d].state = "plain" THEN [db.devices[d] EXCEPT !.state = "legacy_active"]
          ELSE db.devices[d]]
  BY DEF Migrated, applySchemaVersion4, Shaped
<1> HIDE DEF new
<1>3. ASSUME NEW d \in Devices
      PROVE  /\ RowOK(4, new.devices[d]) /\ Grants(db.devices[d], new.devices[d])
             /\ InService(db.devices[d]) => InService(new.devices[d])
  <2>1. RowOK(3, db.devices[d])
    BY DEF DevicesOK
  <2>2. CASE db.devices[d].state = "plain"
    <3>1. new.devices[d] = Row("legacy_active", db.devices[d].revokedAt,
                               db.devices[d].certified, db.devices[d].epoch)
      BY <1>2, <2>1, <2>2 DEF RowOK, Row
    <3> QED
      BY <2>1, <2>2, <3>1 DEF RowOK, Row, Grants, InService, States
  <2>3. CASE db.devices[d].state # "plain"
    <3>1. new.devices[d] = db.devices[d]
      BY <1>2, <2>3
    <3> QED
      BY <2>1, <2>3, <3>1 DEF RowOK, Grants
  <2> QED
    BY <2>2, <2>3
<1>4. new.devices = [d \in Devices |-> new.devices[d]]
  BY <1>2
<1>5. \A d \in Devices : d \in new.codes => InService(new.devices[d])
  BY <1>1, <1>3 DEF DevicesOK
<1>6. DevicesOK(4, new)
  BY <1>3, <1>4, <1>5 DEF DevicesOK
<1> QED
  BY <1>3, <1>6 DEF new

\* Version 5 gives every certified revocation the epoch of its first listing.
LEMMA Version5Keeps ==
    ASSUME NEW db, Shaped(db), DevicesOK(4, db), Applies(5, db)
    PROVE  LET new == Migrated(5, db)
           IN  DevicesOK(5, new) /\ \A d \in Devices : Grants(db.devices[d], new.devices[d])
<1> DEFINE new == Migrated(5, db)
<1>1. new.codes = db.codes /\ new.rosters = db.rosters
  BY DEF Migrated, applySchemaVersion5, Shaped
<1>2. new.devices = [d \in Devices |->
          IF d \in CertifiedRevocations(db)
          THEN [db.devices[d] EXCEPT !.epoch = FirstListing(db.rosters, d)]
          ELSE db.devices[d]]
  BY DEF Migrated, applySchemaVersion5, Shaped
<1> HIDE DEF new
<1>3. ASSUME NEW d \in Devices
      PROVE  \E epoch : /\ new.devices[d] = Row(db.devices[d].state, db.devices[d].revokedAt,
                                                db.devices[d].certified, epoch)
                        /\ d \in CertifiedRevocations(db) => epoch = FirstListing(db.rosters, d)
  <2>1. RowOK(4, db.devices[d])
    BY DEF DevicesOK
  <2>2. CASE d \in CertifiedRevocations(db)
    <3>1. new.devices[d] = Row(db.devices[d].state, db.devices[d].revokedAt,
                               db.devices[d].certified, FirstListing(db.rosters, d))
      BY <1>2, <2>1, <2>2 DEF RowOK, Row
    <3> QED
      BY <3>1
  <2>3. CASE d \notin CertifiedRevocations(db)
    <3>1. new.devices[d] = Row(db.devices[d].state, db.devices[d].revokedAt,
                               db.devices[d].certified, db.devices[d].epoch)
      BY <1>2, <2>1, <2>3, ZenonT(40) DEF RowOK
    <3> QED
      BY <2>3, <3>1
  <2> QED
    BY <2>2, <2>3
<1>4. ASSUME NEW d \in Devices
      PROVE  /\ RowOK(5, new.devices[d]) /\ Grants(db.devices[d], new.devices[d])
             /\ InService(db.devices[d]) => InService(new.devices[d])
             /\ d \in CertifiedRevocations(new) =>
                  /\ d \in CertifiedRevocations(db)
                  /\ new.devices[d].epoch = FirstListing(db.rosters, d)
  <2>1. RowOK(4, db.devices[d])
    BY DEF DevicesOK
  <2>2. PICK epoch : /\ new.devices[d] = Row(db.devices[d].state, db.devices[d].revokedAt,
                                             db.devices[d].certified, epoch)
                     /\ d \in CertifiedRevocations(db) => epoch = FirstListing(db.rosters, d)
    BY <1>3
  <2> QED
    BY <2>1, <2>2 DEF RowOK, Row, Grants, InService, CertifiedRevocations
<1>5. ASSUME NEW d \in CertifiedRevocations(new)
      PROVE  new.devices[d].epoch = Min({e \in DOMAIN new.rosters : d \in new.rosters[e]})
  <2>1. d \in CertifiedRevocations(db) /\ new.devices[d].epoch = FirstListing(db.rosters, d)
    BY <1>4, <1>5 DEF CertifiedRevocations
  <2>2. FirstListing(db.rosters, d) # 0
    BY <2>1 DEF Applies
  <2>3. FirstListing(db.rosters, d) = Min({e \in DOMAIN db.rosters : d \in db.rosters[e]})
    BY <2>2, Zenon DEF FirstListing
  <2> QED
    BY <1>1, <2>1, <2>3
<1>6. new.devices = [d \in Devices |-> new.devices[d]]
  BY <1>2
<1>7. DevicesOK(5, new)
  BY <1>1, <1>4, <1>5, <1>6 DEF DevicesOK
<1> QED
  BY <1>4, <1>7 DEF new

\* Version 8 deletes the rotation codes of the legacy devices and revokes them.
LEMMA Version8Keeps ==
    ASSUME NEW db, Shaped(db), DevicesOK(7, db)
    PROVE  LET new == Migrated(8, db)
           IN  DevicesOK(8, new) /\ \A d \in Devices : Grants(db.devices[d], new.devices[d])
<1> DEFINE new == Migrated(8, db)
           deleted == [db EXCEPT !.codes = @ \ Legacy(db)]
<1>1. deleted.devices = db.devices /\ Legacy(deleted) = Legacy(db)
  BY DEF Shaped, Legacy
<1>2. Shaped(deleted) /\ deleted.codes = db.codes \ Legacy(db) /\ deleted.rosters = db.rosters
  BY DEF Shaped
<1> DEFINE retired == Retired(deleted)
           after == [deleted EXCEPT !.devices = retired]
<1>3. new = [after EXCEPT !.rows = @ \cup {8}, !.objects = @ \cup {8}]
  <2>1. applySchemaVersion8(db) = after
    BY DEF applySchemaVersion8
  <2>2. new = [applySchemaVersion8(db) EXCEPT !.rows = @ \cup {8}, !.objects = @ \cup {8}]
    BY DEF Migrated
  <2> HIDE DEF after
  <2> QED
    BY <2>1, <2>2
<1> HIDE DEF deleted, retired
<1>4. /\ new.codes = db.codes \ Legacy(db) /\ new.rosters = db.rosters
      /\ new.devices = retired
  <2>1. /\ after.codes = deleted.codes /\ after.rosters = deleted.rosters
        /\ after.devices = retired
        /\ Shaped(after)
    BY <1>2 DEF Shaped
  <2> HIDE DEF after, new
  <2> QED
    BY <1>2, <1>3, <2>1 DEF Shaped
<1> HIDE DEF new
<1>5. new.devices = [d \in Devices |->
          IF d \in Legacy(db)
          THEN [db.devices[d] EXCEPT !.state = "revoked", !.revokedAt = IF @ = 0 THEN 2 ELSE @]
          ELSE db.devices[d]]
  BY <1>1, <1>4, Zenon DEF Retired, retired
<1>6. ASSUME NEW d \in Devices
      PROVE  /\ RowOK(8, new.devices[d]) /\ Grants(db.devices[d], new.devices[d])
             /\ d \notin Legacy(db) => new.devices[d] = db.devices[d]
             /\ d \in Legacy(db) => ~new.devices[d].certified
  <2>1. RowOK(7, db.devices[d])
    BY DEF DevicesOK
  <2>2. CASE d \in Legacy(db)
    <3>1. new.devices[d] = Row("revoked", IF db.devices[d].revokedAt = 0 THEN 2
                                          ELSE db.devices[d].revokedAt,
                               db.devices[d].certified, db.devices[d].epoch)
      BY <1>5, <2>1, <2>2, Zenon DEF RowOK, Row
    <3> QED
      BY <2>1, <2>2, <3>1 DEF RowOK, Row, Grants, InService, States, Legacy
  <2>3. CASE d \notin Legacy(db)
    <3>1. new.devices[d] = db.devices[d] /\ db.devices[d].state # "legacy_active"
      BY <1>5, <2>3, Zenon DEF Legacy
    <3> QED
      BY <2>1, <2>3, <3>1 DEF RowOK, Grants
  <2> QED
    BY <2>2, <2>3
<1>7. ASSUME NEW d \in CertifiedRevocations(new)
      PROVE  /\ d \in CertifiedRevocations(db) /\ new.devices[d] = db.devices[d]
  BY <1>6, <1>7 DEF CertifiedRevocations
<1>8. new.devices = [d \in Devices |-> new.devices[d]]
  BY <1>5, Zenon
<1>9. ASSUME NEW d \in CertifiedRevocations(new)
      PROVE  new.devices[d].epoch = Min({e \in DOMAIN new.rosters : d \in new.rosters[e]})
  <2>1. d \in CertifiedRevocations(db) /\ new.devices[d] = db.devices[d]
    BY <1>7, <1>9
  <2>2. db.devices[d].epoch = Min({e \in DOMAIN db.rosters : d \in db.rosters[e]})
    BY <2>1 DEF DevicesOK
  <2> QED
    BY <1>4, <2>1, <2>2
<1>10. \A d \in Devices : d \in new.codes => InService(new.devices[d])
  BY <1>4, <1>6 DEF DevicesOK
<1>11. DevicesOK(8, new)
  BY <1>6, <1>8, <1>9, <1>10 DEF DevicesOK
<1> QED
  BY <1>6, <1>11 DEF new

\* Every version applied to the one before it keeps the devices in order.
LEMMA MigrationKeeps ==
    ASSUME NEW db, NEW v \in 0..(Current - 1), Shaped(db), DevicesOK(v, db), Applies(v + 1, db)
    PROVE  LET new == Migrated(v + 1, db)
           IN  DevicesOK(v + 1, new) /\ \A d \in Devices : Grants(db.devices[d], new.devices[d])
<1>1. CASE v = 3
  BY <1>1, Version4Keeps
<1>2. CASE v = 4
  BY <1>2, Version5Keeps
<1>3. CASE v = 7
  BY <1>3, Version8Keeps
<1>4. CASE v \notin {3, 4, 7}
  <2> DEFINE new == Migrated(v + 1, db)
  <2>1. v + 1 # 4 /\ v + 1 # 5 /\ v + 1 # 8
    BY <1>4 DEF Current
  <2>2. new = [db EXCEPT !.rows = @ \cup {v + 1}, !.objects = @ \cup {v + 1}]
    BY <2>1 DEF Migrated
  <2>3. new.devices = db.devices /\ new.codes = db.codes /\ new.rosters = db.rosters
    BY <2>2, Zenon DEF Shaped
  <2> HIDE DEF new
  <2>4. \A d \in Devices : RowOK(v + 1, new.devices[d]) /\ Grants(db.devices[d], new.devices[d])
    BY <1>4, <2>3 DEF DevicesOK, RowOK, Grants, Current
  <2>5. v + 1 >= 5 => v >= 5
    BY <1>4 DEF Current
  <2>6. CertifiedRevocations(new) = CertifiedRevocations(db)
    BY <2>3 DEF CertifiedRevocations
  <2>7. DevicesOK(v + 1, new)
    BY <2>3, <2>4, <2>5, <2>6 DEF DevicesOK
  <2> QED
    BY <2>4, <2>7 DEF new
<1> QED
  BY <1>1, <1>2, <1>3, <1>4

\* The registries of every earlier release are in order.
LEMMA OldDevicesOK ==
    ASSUME NEW v \in 0..Newer, NEW rosters, NEW devs \in OldDevices(v, rosters), NEW codes,
           NEW db, db = [rows |-> 1..v, objects |-> 1..v, rosters |-> rosters,
                         devices |-> devs, codes |-> codes],
           \A d \in codes : InService(devs[d])
    PROVE  DevicesOK(v, db)
<1>1. db.devices = devs /\ db.codes = codes /\ db.rosters = rosters
  OBVIOUS
<1>2. devs = [d \in Devices |-> devs[d]]
  BY DEF OldDevices
<1>3. ASSUME NEW d \in Devices
      PROVE  /\ RowOK(v, devs[d])
             /\ v >= 5 /\ devs[d].state = "revoked" /\ devs[d].certified =>
                  devs[d].epoch = Min({e \in DOMAIN rosters : d \in rosters[e]})
  <2> DEFINE m == Min({e \in DOMAIN rosters : d \in rosters[e]})
             listed == \E e \in DOMAIN rosters : d \in rosters[e]
  <2>1. devs[d] \in OldRows(v, rosters, d)
    BY DEF OldDevices
  <2>2. CASE listed
    <3>1. devs[d] = Row("revoked", 1, TRUE, IF v < 5 THEN 0 ELSE m)
      BY <2>1, <2>2, Zenon DEF OldRows
    <3> HIDE DEF m, listed
    <3>2. devs[d].state = "revoked" /\ devs[d].revokedAt = 1 /\ devs[d].certified = TRUE
            /\ devs[d] = Row(devs[d].state, devs[d].revokedAt, devs[d].certified, devs[d].epoch)
            /\ (v >= 5 => devs[d].epoch = m)
      BY <3>1 DEF Row, Newer, Current
    <3> QED
      BY <3>2 DEF RowOK, States, m
  <2>3. CASE ~listed
    <3>1. \/ devs[d] = Row("none", 0, FALSE, 0)
          \/ v \in 1..3 /\ \E at : devs[d] = Row("plain", at, FALSE, 0)
          \/ v \in 4..7 /\ \E at : devs[d] = Row("legacy_active", at, FALSE, 0)
          \/ devs[d] = Row("pending", 0, FALSE, 0)
          \/ devs[d] = Row("revoked", 1, FALSE, 0)
          \/ devs[d] = Row("approved", 0, TRUE, 0)
      <4>1. devs[d] \in {Row("none", 0, FALSE, 0)}
             \cup {Row("plain", at, FALSE, 0) : at \in IF v \in 1..3 THEN {0, 1} ELSE {}}
             \cup {Row("legacy_active", at, FALSE, 0) : at \in IF v \in 4..7 THEN {0, 1} ELSE {}}
             \cup (IF v < 4 THEN {} ELSE {Row("pending", 0, FALSE, 0), Row("revoked", 1, FALSE, 0)})
             \cup (IF rosters = <<>> THEN {} ELSE {Row("approved", 0, TRUE, 0)})
        BY <2>1, <2>3, Zenon DEF OldRows
      <4> QED
        BY <4>1, Zenon
    <3> HIDE DEF m, listed
    <3> USE DEF RowOK, Row, States
    <3>2. CASE devs[d] = Row("none", 0, FALSE, 0)
      BY <3>2
    <3>3. CASE v \in 1..3 /\ \E at : devs[d] = Row("plain", at, FALSE, 0)
      <4>1. PICK at : devs[d] = Row("plain", at, FALSE, 0)
        BY <3>3, Zenon
      <4> QED
        BY <3>3, <4>1
    <3>4. CASE v \in 4..7 /\ \E at : devs[d] = Row("legacy_active", at, FALSE, 0)
      <4>1. PICK at : devs[d] = Row("legacy_active", at, FALSE, 0)
        BY <3>4, Zenon
      <4> QED
        BY <3>4, <4>1
    <3>5. CASE devs[d] = Row("pending", 0, FALSE, 0)
      BY <3>5
    <3>6. CASE devs[d] = Row("revoked", 1, FALSE, 0)
      BY <3>6
    <3>7. CASE devs[d] = Row("approved", 0, TRUE, 0)
      BY <3>7
    <3> QED
      BY <3>1, <3>2, <3>3, <3>4, <3>5, <3>6, <3>7, Zenon
  <2> QED
    BY <2>2, <2>3
<1> QED
  BY <1>1, <1>2, <1>3, Zenon DEF DevicesOK, CertifiedRevocations

\* The registry changes only by the next version of the schema: the commands on
\* the files leave it alone, and a process that works from an old version finds
\* its migration applied.
LEMMA OnlyMigrations ==
    ASSUME SchemaInv, [Next]_vars
    PROVE  \/ registry' = registry
           \/ \E v \in 0..(Current - 1) :
                /\ registry.rows = 1..v /\ Applies(v + 1, registry)
                /\ registry' = Migrated(v + 1, registry)
<1>1. CASE UNCHANGED vars
  BY <1>1 DEF vars, migrationVars
<1>2. ASSUME NEW p \in Openers, OpenStep(p) \/ OpenerDies(p), registry' # registry
      PROVE  \E v \in 0..(Current - 1) :
                /\ registry.rows = 1..v /\ Applies(v + 1, registry)
                /\ registry' = Migrated(v + 1, registry)
  <2> DEFINE n == opener[p].next
  <2>1. opener[p].pc = "migrating" /\ Applies(n, registry) /\ registry' = Migrated(n, registry)
    BY <1>2, Zenon DEF OpenStep, ReadVersion, ApplySchemaVersion, OpenerDies
  <2>2. PICK v \in 0..Newer : registry.rows = 1..v /\ n \in 1..Current /\ n <= v + 1
    BY <2>1 DEF SchemaInv
  <2>3. n \notin registry.objects /\ registry.objects = 1..v
    BY <2>1, <2>2 DEF Applies, SchemaInv
  <2>4. n = v + 1 /\ v \in 0..(Current - 1)
    BY <2>2, <2>3 DEF Newer, Current
  <2> QED
    BY <2>1, <2>2, <2>4
<1>3. ASSUME NEW t \in Tools, Administer(t) \/ Backup(t) \/ RestoreTo(t) \/ ToolDies(t)
      PROVE  registry' = registry
  <2>1. CASE Administer(t)
    BY <2>1, Zenon DEF Administer, ListWorkspaces, PrepareAuthorityRotation, GenerateAuthority,
       WriteAuthority, CreateWorkspace, GenerateFails, LoadRotation, RotateAuthority, migrationVars
  <2>2. CASE Backup(t)
    BY <2>2, Zenon DEF Backup, BackupWorkspace, CreateEntry, WriteEntry, InspectSnapshot,
       VerifyCreated, BackupFails, RemoveAll, migrationVars
  <2>3. CASE RestoreTo(t)
    BY <2>3, Zenon DEF RestoreTo, BeginRestore, OpenCopy, FinishCopy, RestoreAuthority,
       WriteRestoredKey, RestoreFails, RemoveRegistry, migrationVars
  <2>4. CASE ToolDies(t)
    BY <2>4 DEF ToolDies
  <2> QED
    BY <1>3, <2>1, <2>2, <2>3, <2>4
<1>4. ASSUME NEW p \in Servers, ServerCommits(p) PROVE registry' = registry
  BY <1>4 DEF ServerCommits, migrationVars
<1>5. ASSUME NEW k \in Keys, RetireKey(k) PROVE registry' = registry
  BY <1>5 DEF RetireKey, migrationVars
<1> QED
  BY <1>1, <1>2, <1>3, <1>4, <1>5, Zenon DEF Next

\* The rows that earlier releases leave satisfy RowsInv.
LEMMA InitRows == Init => RowsInv
<1> SUFFICES ASSUME Init PROVE RowsInv
  OBVIOUS
<1>1. registry \in OldRegistries /\ \A d \in registry.codes : InService(registry.devices[d])
  BY DEF Init, MigrationsInit
<1>2. PICK v \in 0..Newer :
        registry \in UNION {RegistriesOf(v, rosters) : rosters \in OldRosters(v)}
  BY <1>1, Zenon DEF OldRegistries
<1>3. PICK rosters \in OldRosters(v) : registry \in RegistriesOf(v, rosters)
  BY <1>2, Zenon
<1>4. PICK devs \in OldDevices(v, rosters), codes \in SUBSET (IF v < 2 THEN {} ELSE Devices) :
        registry = [rows |-> 1..v, objects |-> 1..v, rosters |-> rosters,
                    devices |-> devs, codes |-> codes]
  BY <1>3 DEF RegistriesOf
<1>5. \A d \in codes : InService(devs[d])
  BY <1>1, <1>4
<1>6. DevicesOK(v, registry)
  BY <1>4, <1>5, OldDevicesOK
<1>7. Version(registry) = v
  BY <1>4, VersionOfPrefix DEF Newer, Current
<1> QED
  BY <1>6, <1>7 DEF RowsInv

\* A step keeps the rows in order, and one that changes them grants nothing.
LEMMA RowsStep ==
    ASSUME SchemaInv, RowsInv, [Next]_vars
    PROVE  /\ RowsInv'
           /\ registry' # registry =>
                \A d \in Devices : Grants(registry.devices[d], registry'.devices[d])
<1>1. CASE registry' = registry
  BY <1>1 DEF RowsInv
<1>2. CASE registry' # registry
  <2>1. PICK v \in 0..(Current - 1) :
           /\ registry.rows = 1..v /\ Applies(v + 1, registry)
           /\ registry' = Migrated(v + 1, registry)
    BY <1>2, OnlyMigrations
  <2>2. Shaped(registry) /\ DevicesOK(v, registry)
    BY <2>1, VersionOfPrefix DEF SchemaInv, RowsInv, Current
  <2>3. /\ DevicesOK(v + 1, registry')
        /\ \A d \in Devices : Grants(registry.devices[d], registry'.devices[d])
    BY <2>1, <2>2, MigrationKeeps
  <2>4. registry'.rows = 1..(v + 1)
    <3>1. registry'.rows = registry.rows \cup {v + 1}
      BY <2>1, <2>2, MigratedShape
    <3>2. v \in Nat
      BY DEF Current
    <3>3. (1..v) \cup {v + 1} = 1..(v + 1)
      BY <3>2
    <3> QED
      BY <2>1, <3>1, <3>3, Zenon
  <2>5. Version(registry') = v + 1
    BY <2>4, VersionOfPrefix DEF Current
  <2> QED
    BY <2>3, <2>5 DEF RowsInv
<1> QED
  BY <1>1, <1>2

\* The rows are in order in every reachable state.
LEMMA RowsInvariant == Spec => [](SchemaInv /\ RowsInv)
<1>1. SchemaInv /\ RowsInv /\ [Next]_vars => RowsInv'
  BY RowsStep
<1> QED
  BY <1>1, InitRows, InitSchema, NextSchema, PTL DEF Spec

\* Whatever release the registry comes from, however many rosters repeat a
\* revocation and whichever processes migrate it, a certified revocation carries
\* the epoch of the first roster that listed it (applySchemaVersion5).
THEOREM RevocationsKeepTheirEpoch == Spec => []RevocationEpochIsFirst
<1>1. RowsInv => RevocationEpochIsFirst
  BY DEF RowsInv, RevocationEpochIsFirst, DevicesOK
<1> QED
  BY <1>1, RowsInvariant, PTL

\* After applySchemaVersion8 no device serves without a certificate, and no
\* rotation code is left that names one which would.
THEOREM LegacyStaysRetired == Spec => []LegacyIsRetired
<1>1. SchemaInv /\ RowsInv => LegacyIsRetired
  <2> SUFFICES ASSUME SchemaInv, RowsInv, Version(registry) >= 8, NEW d \in Devices,
                      ~registry.devices[d].certified
               PROVE  LET row == registry.devices[d]
                      IN  /\ row.state \in {"none", "pending", "revoked"}
                          /\ row.state = "revoked" => row.revokedAt # 0
                          /\ d \notin registry.codes
    BY DEF LegacyIsRetired
  <2>1. Version(registry) \in Nat
    BY VersionOfPrefix DEF SchemaInv, Newer, Current
  <2> QED
    BY <2>1 DEF RowsInv, DevicesOK, RowOK, InService, States
<1> QED
  BY <1>1, RowsInvariant, PTL

\* No migration of any process moves the time of a recorded revocation or takes a
\* device into service that was not.
THEOREM MigrationsNeverGrant == Spec => MigrationsGrantNothing
<1> DEFINE Step == \A d \in Devices :
        /\ registry.devices[d].revokedAt # 0 =>
              registry'.devices[d].revokedAt = registry.devices[d].revokedAt
        /\ InService(registry'.devices[d]) => InService(registry.devices[d])
<1>1. SchemaInv /\ RowsInv /\ [Next]_vars => [Step]_registry
  BY RowsStep DEF Grants
<1> QED
  BY <1>1, RowsInvariant, PTL DEF Spec, MigrationsGrantNothing

-----------------------------------------------------------------------------
(* The admin commands.                                                     *)

\* The fields of a command.
ToolShape ==
    /\ tool = [t \in Tools |-> tool[t]]
    /\ \A t \in Tools :
         tool[t] = [pc |-> tool[t].pc, ws |-> tool[t].ws, key |-> tool[t].key,
                    file |-> tool[t].file, source |-> tool[t].source, opened |-> tool[t].opened]

\* A command that moves on changes only where it stands.
LEMMA GotoKeepsOthers ==
    ASSUME ToolShape, NEW t \in Tools, NEW pc, Goto(t, pc)
    PROVE  /\ ToolShape' /\ tool'[t].pc = pc
           /\ tool'[t].ws = tool[t].ws /\ tool'[t].key = tool[t].key
           /\ tool'[t].source = tool[t].source
           /\ \A u \in Tools : u # t => tool'[u] = tool[u]
<1>1. tool' = [tool EXCEPT ![t] = [tool[t] EXCEPT !.pc = pc]]
  BY Zenon DEF Goto
<1>2. tool'[t] = [tool[t] EXCEPT !.pc = pc] /\ \A u \in Tools : u # t => tool'[u] = tool[u]
  BY <1>1, Zenon DEF ToolShape
<1>3. tool' = [u \in Tools |-> tool'[u]]
  BY <1>1, Zenon DEF ToolShape
<1>4. /\ tool'[t] = [pc |-> pc, ws |-> tool[t].ws, key |-> tool[t].key,
                      file |-> tool[t].file, source |-> tool[t].source,
                      opened |-> tool[t].opened]
  BY <1>2, Zenon DEF ToolShape
<1> QED
  BY <1>2, <1>3, <1>4, Zenon DEF ToolShape

\* A command that turns to something else leaves the other commands alone.
LEMMA ReplaceKeepsOthers ==
    ASSUME ToolShape, NEW t \in Tools, NEW pc, NEW ws, NEW key, NEW file, NEW source, NEW opened,
           tool' = [tool EXCEPT ![t] = [pc |-> pc, ws |-> ws, key |-> key, file |-> file,
                                        source |-> source, opened |-> opened]]
    PROVE  /\ ToolShape' /\ tool'[t].pc = pc
           /\ tool'[t].ws = ws /\ tool'[t].key = key /\ tool'[t].source = source
           /\ \A u \in Tools : u # t => tool'[u] = tool[u]
<1>1. /\ tool'[t] = [pc |-> pc, ws |-> ws, key |-> key, file |-> file, source |-> source,
                     opened |-> opened]
      /\ \A u \in Tools : u # t => tool'[u] = tool[u]
  BY Zenon DEF ToolShape
<1>2. tool' = [u \in Tools |-> tool'[u]]
  BY Zenon DEF ToolShape
<1> QED
  BY <1>1, <1>2, Zenon DEF ToolShape

\* The same for a command that keeps what it has read.
LEMMA BecomeKeepsOthers ==
    ASSUME ToolShape, NEW t \in Tools, NEW pc, NEW ws, NEW key, NEW file,
           Become(t, pc, ws, key, file)
    PROVE  /\ ToolShape' /\ tool'[t].pc = pc /\ tool'[t].ws = ws /\ tool'[t].key = key
           /\ \A u \in Tools : u # t => tool'[u] = tool[u]
<1> DEFINE source == tool[t].source
           opened == tool[t].opened
<1>1. tool' = [tool EXCEPT ![t] = [pc |-> pc, ws |-> ws, key |-> key, file |-> file,
                                   source |-> source, opened |-> opened]]
  BY Zenon DEF Become
<1> HIDE DEF source, opened
<1>2. /\ tool'[t] = [pc |-> pc, ws |-> ws, key |-> key, file |-> file, source |-> source,
                     opened |-> opened]
      /\ \A u \in Tools : u # t => tool'[u] = tool[u]
  BY <1>1, Zenon DEF ToolShape
<1>3. tool' = [u \in Tools |-> tool'[u]]
  BY <1>1, Zenon DEF ToolShape
<1> QED
  BY <1>2, <1>3 DEF ToolShape

\* The same for a restore that has opened the file it copies.
LEMMA OpenKeepsOthers ==
    ASSUME ToolShape, NEW t \in Tools, NEW file,
           tool' = [tool EXCEPT ![t] = [@ EXCEPT !.pc = "copying", !.opened = file]]
    PROVE  /\ ToolShape' /\ tool'[t].pc = "copying" /\ tool'[t].opened = file
           /\ tool'[t].ws = tool[t].ws /\ tool'[t].source = tool[t].source
           /\ \A u \in Tools : u # t => tool'[u] = tool[u]
<1>1. /\ tool'[t] = [tool[t] EXCEPT !.pc = "copying", !.opened = file]
      /\ \A u \in Tools : u # t => tool'[u] = tool[u]
  BY Zenon DEF ToolShape
<1>2. tool' = [u \in Tools |-> tool'[u]]
  BY Zenon DEF ToolShape
<1>3. tool'[t] = [pc |-> "copying", ws |-> tool[t].ws, key |-> tool[t].key,
                  file |-> tool[t].file, source |-> tool[t].source, opened |-> file]
  <2>1. PICK r : r = [tool[t] EXCEPT !.pc = "copying"]
    BY Zenon
  <2>2. r = [pc |-> "copying", ws |-> tool[t].ws, key |-> tool[t].key,
             file |-> tool[t].file, source |-> tool[t].source, opened |-> tool[t].opened]
    BY <2>1, SMTT(40) DEF ToolShape
  <2>3. tool'[t] = [r EXCEPT !.opened = file]
    BY <1>1, <2>1, Zenon
  <2> QED
    BY <2>2, <2>3
<1> QED
  BY <1>1, <1>2, <1>3, Zenon DEF ToolShape

\* The same for a rotation that has loaded its keys.
LEMMA LoadKeepsOthers ==
    ASSUME ToolShape, NEW t \in Tools, NEW w, NEW k, NEW source, NEW opened,
           tool' = [tool EXCEPT ![t] = [pc |-> "rotate", ws |-> w, key |-> k, file |-> 0,
                                        source |-> source, opened |-> opened]]
    PROVE  /\ ToolShape' /\ tool'[t].pc = "rotate" /\ tool'[t].key = k
           /\ \A u \in Tools : u # t => tool'[u] = tool[u]
<1>1. /\ tool'[t] = [pc |-> "rotate", ws |-> w, key |-> k, file |-> 0, source |-> source,
                     opened |-> opened]
      /\ \A u \in Tools : u # t => tool'[u] = tool[u]
  BY Zenon DEF ToolShape
<1>2. tool' = [u \in Tools |-> tool'[u]]
  BY Zenon DEF ToolShape
<1> QED
  BY <1>1, <1>2, Zenon DEF ToolShape

\* The same for one that exits.
LEMMA ExitKeepsOthers ==
    ASSUME ToolShape, NEW t \in Tools, Exit(t)
    PROVE  /\ ToolShape' /\ tool'[t].pc = "idle"
           /\ \A u \in Tools : u # t => tool'[u] = tool[u]
  BY ReplaceKeepsOthers, Zenon DEF Exit, Idle

-----------------------------------------------------------------------------
(* The authority keys.                                                     *)

\* The commits so far, each with the key of every workspace.
LogOK == log \in Seq(Seq(Keys \cup {NullKey})) /\ Len(log) > 0

\* A command that generates a key has it to itself: the file is there, whole
\* before the workspace is inserted, no workspace has had the key and no other
\* command generates it.
Owned(t) ==
    /\ tool[t].key \in Keys
    /\ keyFiles[tool[t].key] # "none"
    /\ tool[t].pc = "insert" => keyFiles[tool[t].key] = "whole"
    /\ \A i \in DOMAIN log : tool[t].key \notin Range(log[i])
    /\ \A u \in Tools : u # t /\ tool[u].pc \in Generating => tool[u].key # tool[t].key

\* A rotation has loaded a whole key that no command is generating: its file stays.
Loaded(t) ==
    /\ tool[t].key \in Keys
    /\ keyFiles[tool[t].key] = "whole"
    /\ \A u \in Tools : tool[u].pc \in Generating => tool[u].key # tool[t].key

KeysInv ==
    /\ ToolShape /\ LogOK
    /\ keyFiles \in [Keys -> {"none", "torn", "whole"}]
    /\ WorkspaceHasItsKey
    /\ \A t \in Tools : tool[t].pc \in Generating => Owned(t)
    /\ \A t \in Tools : tool[t].pc = "rotate" => Loaded(t)

\* The registry only ever gains commits, and no commit loses a workspace.
Kept ==
    /\ \A i \in DOMAIN log : i \in DOMAIN log' /\ log'[i] = log[i]
    /\ DOMAIN Workspaces \subseteq DOMAIN Workspaces'

\* The workspaces are those of the last commit.
LEMMA LastCommit ==
    ASSUME LogOK
    PROVE  Len(log) \in DOMAIN log /\ Workspaces \in Seq(Keys \cup {NullKey})
  BY DEF LogOK, Workspaces

\* A commit adds one entry and leaves the others.
LEMMA CommitGrows ==
    ASSUME LogOK, NEW keys \in Seq(Keys \cup {NullKey}), log' = Append(log, keys)
    PROVE  /\ LogOK' /\ Workspaces' = keys
           /\ \A i \in DOMAIN log : i \in DOMAIN log' /\ log'[i] = log[i]
           /\ \A i \in DOMAIN log' : i \in DOMAIN log \/ log'[i] = keys
  BY DEF LogOK, Workspaces

\* Steps that neither commit nor touch the key directory, and start no generation.
LEMMA KeysQuiet ==
    ASSUME KeysInv, ToolShape', log' = log, keyFiles' = keyFiles,
           \A u \in Tools : tool'[u].pc \in Generating => tool'[u] = tool[u],
           \A u \in Tools : tool'[u].pc = "rotate" => tool'[u] = tool[u] \/ Loaded(u)'
    PROVE  KeysInv' /\ Kept
<1>1. ASSUME NEW u \in Tools, tool'[u].pc \in Generating PROVE Owned(u)'
  BY <1>1, Zenon DEF KeysInv, Owned
<1>2. LogOK' /\ Kept /\ WorkspaceHasItsKey'
  BY Zenon DEF KeysInv, LogOK, Kept, WorkspaceHasItsKey, Workspaces
<1>3. ASSUME NEW u \in Tools, tool'[u].pc = "rotate" PROVE Loaded(u)'
  BY <1>3, ZenonT(30) DEF KeysInv, Loaded
<1> QED
  BY <1>1, <1>2, <1>3, Zenon DEF KeysInv

\* A commit whose keys are whole and in nobody's hands.
LEMMA KeysCommit ==
    ASSUME KeysInv, ToolShape', keyFiles' = keyFiles,
           NEW keys \in Seq(Keys \cup {NullKey}), log' = Append(log, keys),
           DOMAIN Workspaces \subseteq DOMAIN keys,
           \A w \in DOMAIN keys : keys[w] # NullKey => keyFiles[keys[w]] = "whole",
           \A u \in Tools : tool'[u].pc \in Generating =>
               tool'[u] = tool[u] /\ tool[u].key \notin Range(keys),
           \A u \in Tools : tool'[u].pc = "rotate" => tool'[u] = tool[u]
    PROVE  KeysInv' /\ Kept
<1>1. /\ LogOK' /\ Workspaces' = keys
      /\ \A i \in DOMAIN log : i \in DOMAIN log' /\ log'[i] = log[i]
      /\ \A i \in DOMAIN log' : i \in DOMAIN log \/ log'[i] = keys
  BY CommitGrows, Zenon DEF KeysInv
<1>2. ASSUME NEW u \in Tools, tool'[u].pc \in Generating PROVE Owned(u)'
  <2>1. Owned(u) /\ tool'[u] = tool[u] /\ tool[u].key \notin Range(keys)
    BY <1>2, Zenon DEF KeysInv
  <2>2. \A i \in DOMAIN log' : tool'[u].key \notin Range(log'[i])
    BY <1>1, <2>1, Zenon DEF Owned
  <2> QED
    BY <2>1, <2>2, Zenon DEF Owned
<1>3. WorkspaceHasItsKey'
  BY <1>1, Zenon DEF WorkspaceHasItsKey
<1>4. Kept
  BY <1>1, Zenon DEF Kept
<1>5. ASSUME NEW u \in Tools, tool'[u].pc = "rotate" PROVE Loaded(u)'
  BY <1>5, ZenonT(30) DEF KeysInv, Loaded
<1> QED
  BY <1>1, <1>2, <1>3, <1>4, <1>5, Zenon DEF KeysInv

\* A change of one key file, of a key that no workspace has.
LEMMA KeysFile ==
    ASSUME KeysInv, ToolShape', log' = log, NEW k \in Keys,
           NEW value \in {"none", "torn", "whole"},
           keyFiles' = [keyFiles EXCEPT ![k] = value],
           value = "whole" \/ k \notin Range(Workspaces),
           \A u \in Tools : tool'[u].pc \in Generating =>
               \/ tool'[u] = tool[u] /\ tool[u].key # k
               \/ Owned(u)' /\ tool'[u].key = k,
           \A u \in Tools : tool'[u].pc = "rotate" => tool'[u] = tool[u] /\ tool[u].key # k
    PROVE  KeysInv' /\ Kept
<1>1. LogOK' /\ Kept /\ Workspaces' = Workspaces
  BY Zenon DEF KeysInv, LogOK, Kept, Workspaces
<1>2. keyFiles' \in [Keys -> {"none", "torn", "whole"}]
  BY Zenon DEF KeysInv
<1>3. ASSUME NEW w \in DOMAIN Workspaces, Workspaces[w] # NullKey
      PROVE  keyFiles'[Workspaces[w]] = "whole"
  <2>1. Workspaces[w] \in Keys /\ keyFiles[Workspaces[w]] = "whole"
    BY <1>3, LastCommit DEF KeysInv, WorkspaceHasItsKey
  <2>2. Workspaces[w] \in Range(Workspaces)
    BY <1>3, Zenon DEF Range
  <2> QED
    BY <2>1, <2>2, Zenon DEF KeysInv
<1>4. WorkspaceHasItsKey'
  BY <1>1, <1>3, Zenon DEF WorkspaceHasItsKey
<1>5. ASSUME NEW u \in Tools, tool'[u].pc \in Generating PROVE Owned(u)'
  <2>1. CASE tool'[u] = tool[u] /\ tool[u].key # k
    BY <1>5, <2>1 DEF KeysInv, Owned
  <2> QED
    BY <1>5, <2>1, ZenonT(40)
<1>6. ASSUME NEW u \in Tools, tool'[u].pc = "rotate" PROVE Loaded(u)'
  <2>1. Loaded(u) /\ tool'[u] = tool[u] /\ tool[u].key # k
    BY <1>6, Zenon DEF KeysInv
  <2>2. ASSUME NEW v \in Tools, tool'[v].pc \in Generating PROVE tool'[v].key # tool[u].key
    BY <2>1, <2>2, Zenon DEF Loaded
  <2>3. keyFiles'[tool[u].key] = "whole"
    BY <2>1, Zenon DEF Loaded, KeysInv
  <2> QED
    BY <2>1, <2>2, <2>3, Zenon DEF Loaded
<1> QED
  BY <1>1, <1>2, <1>4, <1>5, <1>6, Zenon DEF KeysInv

Backing == {"create", "write", "inspect", "verify", "cleanup"}

\* A step of backup-workspace moves the command within its own states.
LEMMA BackupMoves ==
    ASSUME ToolShape, NEW t \in Tools, Backup(t)
    PROVE  /\ ToolShape' /\ tool'[t].pc \in Backing \cup {"idle"}
           /\ \A u \in Tools : u # t => tool'[u] = tool[u]
<1> DEFINE Moved == /\ ToolShape' /\ tool'[t].pc \in Backing \cup {"idle"}
                    /\ \A u \in Tools : u # t => tool'[u] = tool[u]
<1>1. CASE Exit(t)
  BY <1>1, ExitKeepsOthers, Zenon
<1>2. ASSUME NEW pc \in Backing, Goto(t, pc) PROVE Moved
  BY <1>2, GotoKeepsOthers, Zenon
<1>3. ASSUME NEW ws, NEW key, NEW file, Become(t, "create", ws, key, file) PROVE Moved
  BY <1>3, BecomeKeepsOthers, Zenon DEF Backing
<1>4. CASE BackupWorkspace(t)
  <2>1. PICK w \in DOMAIN Workspaces : Exit(t) \/ Become(t, "create", w, 0, 1)
    BY <1>4, Zenon DEF BackupWorkspace, Mkdir
  <2> QED
    BY <1>1, <1>3, <2>1, Zenon
<1>5. CASE CreateEntry(t)
  BY <1>2, <1>5, Zenon DEF CreateEntry, Backing
<1>6. CASE WriteEntry(t)
  <2>1. \/ Goto(t, "inspect") \/ Goto(t, "verify")
        \/ Become(t, "create", tool[t].ws, tool[t].key, tool[t].file + 1)
    BY <1>6, Zenon DEF WriteEntry
  <2> QED
    BY <1>2, <1>3, <2>1, Zenon DEF Backing
<1>7. CASE InspectSnapshot(t)
  <2>1. \/ Goto(t, "cleanup")
        \/ \E k : Become(t, "create", tool[t].ws, k, 2)
    BY <1>7, Zenon DEF InspectSnapshot
  <2> QED
    BY <1>2, <1>3, <2>1, Zenon DEF Backing
<1>8. CASE VerifyCreated(t)
  <2>1. Goto(t, "cleanup") \/ Exit(t)
    BY <1>8, Zenon DEF VerifyCreated
  <2> QED
    BY <1>1, <1>2, <2>1, Zenon DEF Backing
<1>9. CASE BackupFails(t)
  BY <1>2, <1>9, Zenon DEF BackupFails, Backing
<1>10. CASE RemoveAll(t)
  <2>1. CASE UNCHANGED tool
    BY <1>10, <2>1, Zenon DEF RemoveAll, ToolShape, Backing
  <2>2. Exit(t) \/ UNCHANGED tool
    BY <1>10, Zenon DEF RemoveAll
  <2> QED
    BY <1>1, <2>1, <2>2, Zenon
<1> QED
  BY <1>4, <1>5, <1>6, <1>7, <1>8, <1>9, <1>10, Zenon DEF Backup

\* A step of restore-workspace-backup does too.
LEMMA RestoreMoves ==
    ASSUME ToolShape, NEW t \in Tools, RestoreTo(t)
    PROVE  /\ ToolShape' /\ tool'[t].pc \in Restoring \cup {"copy", "idle"}
           /\ \A u \in Tools : u # t => tool'[u] = tool[u]
<1> DEFINE Moved == /\ ToolShape' /\ tool'[t].pc \in Restoring \cup {"copy", "idle"}
                    /\ \A u \in Tools : u # t => tool'[u] = tool[u]
<1>1. CASE Exit(t)
  BY <1>1, ExitKeepsOthers, Zenon
<1>2. ASSUME NEW pc \in Restoring, Goto(t, pc) PROVE Moved
  BY <1>2, GotoKeepsOthers, Zenon
<1>3. CASE BeginRestore(t)
  <2>1. PICK w, source : tool' = [tool EXCEPT ![t] = [pc |-> "copy", ws |-> w, key |-> 0,
                                                      file |-> 0, source |-> source,
                                                      opened |-> None]]
    BY <1>3, Zenon DEF BeginRestore
  <2> QED
    BY <2>1, ReplaceKeepsOthers, ZenonT(30)
<1>4. CASE OpenCopy(t)
  <2>1. PICK file : \/ Exit(t)
                    \/ tool' = [tool EXCEPT ![t] = [@ EXCEPT !.pc = "copying", !.opened = file]]
    BY <1>4, Zenon DEF OpenCopy
  <2> QED
    BY <1>1, <2>1, OpenKeepsOthers, Zenon DEF Restoring
<1>5. BeginRestore(t) \/ OpenCopy(t) \/ Exit(t) \/ \E pc \in Restoring : Goto(t, pc)
  <2>1. "key" \in Restoring /\ "keying" \in Restoring /\ "undo" \in Restoring
    BY Zenon DEF Restoring
  <2>2. CASE FinishCopy(t)
    BY <2>1, <2>2, Zenon DEF FinishCopy
  <2> QED
    BY <2>1, <2>2, Zenon DEF RestoreTo, RestoreAuthority, WriteRestoredKey,
       RestoreFails, RemoveRegistry
<1> HIDE DEF Moved
<1>6. Moved
  BY <1>1, <1>2, <1>3, <1>4, <1>5, Zenon DEF Moved
<1> QED
  BY <1>6, Zenon DEF Moved

\* The steps of init-workspace, prepare- and rotate-authority keep the keys.
LEMMA AdministerKeys ==
    ASSUME KeysInv, NEW t \in Tools, Administer(t)
    PROVE  KeysInv' /\ Kept
<1>0. ToolShape /\ LogOK
  BY Zenon DEF KeysInv
<1>1. ASSUME Exit(t), log' = log, keyFiles' = keyFiles PROVE KeysInv' /\ Kept
  BY <1>0, <1>1, ExitKeepsOthers, KeysQuiet, Zenon DEF Generating
<1>2. ASSUME NEW pc \in {"generate", "prepare"}, Goto(t, pc), log' = log, keyFiles' = keyFiles
      PROVE  KeysInv' /\ Kept
  BY <1>0, <1>2, GotoKeepsOthers, KeysQuiet, Zenon DEF Generating
<1>3. CASE ListWorkspaces(t)
  BY <1>1, <1>2, <1>3, Zenon DEF ListWorkspaces
<1>4. CASE PrepareAuthorityRotation(t)
  BY <1>2, <1>4, Zenon DEF PrepareAuthorityRotation
<1>5. CASE GenerateAuthority(t)
  <2>1. PICK k \in Keys :
          /\ Fresh(k) /\ log' = log /\ keyFiles' = [keyFiles EXCEPT ![k] = "torn"]
          /\ \/ Become(t, "generating", 0, k, 0)
             \/ Become(t, "preparing", 0, k, 0)
    BY <1>5, Zenon DEF GenerateAuthority
  <2>2. /\ ToolShape' /\ tool'[t].key = k /\ tool'[t].pc \in {"generating", "preparing"}
        /\ \A u \in Tools : u # t => tool'[u] = tool[u]
    BY <1>0, <2>1, BecomeKeepsOthers, Zenon
  <2>3. /\ keyFiles[k] = "none"
        /\ \A i \in DOMAIN log : k \notin Range(log[i])
        /\ k \notin Range(Workspaces)
    BY <1>0, <2>1, LastCommit, Zenon DEF Fresh, Workspaces
  <2>4. ASSUME NEW u \in Tools, u # t, tool[u].pc \in Generating PROVE tool[u].key # k
    BY <2>3, <2>4, ZenonT(40) DEF KeysInv, Owned
  <2>5. Owned(t)'
    BY <2>1, <2>2, <2>3, <2>4 DEF Owned, KeysInv
  <2>6. ASSUME NEW u \in Tools, tool'[u].pc = "rotate" PROVE tool'[u] = tool[u] /\ tool[u].key # k
    <3>1. tool'[u] = tool[u]
      BY <2>2, <2>6, Zenon
    <3> QED
      BY <2>3, <2>6, <3>1, ZenonT(30) DEF KeysInv, Loaded
  <2> QED
    BY <2>1, <2>2, <2>3, <2>4, <2>5, <2>6, KeysFile, ZenonT(30)
<1>6. CASE WriteAuthority(t)
  <2> DEFINE k == tool[t].key
  <2>1. /\ tool[t].pc \in {"generating", "preparing"} /\ log' = log
        /\ keyFiles' = [keyFiles EXCEPT ![k] = "whole"]
        /\ Goto(t, "insert") \/ Exit(t)
    BY <1>6, Zenon DEF WriteAuthority
  <2>2. Owned(t)
    BY <2>1, Zenon DEF KeysInv, Generating
  <2>3. /\ ToolShape' /\ \A u \in Tools : u # t => tool'[u] = tool[u]
        /\ tool'[t].pc = "idle" \/ (tool'[t].pc = "insert" /\ tool'[t].key = k)
    BY <1>0, <2>1, GotoKeepsOthers, ExitKeepsOthers, ZenonT(40)
  <2>4. tool'[t].pc \in Generating => Owned(t)'
    BY <2>1, <2>2, <2>3, Zenon DEF Owned, KeysInv, Generating
  <2>5. \A u \in Tools : u # t /\ tool[u].pc \in Generating => tool[u].key # k
    BY <2>2, Zenon DEF Owned
  <2>6. k \in Keys
    BY <2>2, Zenon DEF Owned
  <2>7. ASSUME NEW u \in Tools, tool'[u].pc = "rotate" PROVE tool'[u] = tool[u] /\ tool[u].key # k
    BY <2>1, <2>3, <2>7, ZenonT(30) DEF KeysInv, Loaded, Generating
  <2> HIDE DEF k
  <2> QED
    BY <2>1, <2>3, <2>4, <2>5, <2>6, <2>7, KeysFile, ZenonT(30) DEF Generating
<1>7. CASE CreateWorkspace(t)
  <2> DEFINE k == tool[t].key
             keys == Append(Workspaces, k)
  <2>1. /\ tool[t].pc = "insert" /\ log' = Append(log, keys) /\ keyFiles' = keyFiles /\ Exit(t)
    BY <1>7, Zenon DEF CreateWorkspace, Commit
  <2>2. Owned(t)
    BY <2>1, Zenon DEF KeysInv, Generating
  <2>3. k \in Keys /\ keyFiles[k] = "whole"
    BY <2>1, <2>2, Zenon DEF Owned
  <2>4. Workspaces \in Seq(Keys \cup {NullKey})
    BY <1>0, LastCommit, Zenon
  <2>5. /\ keys \in Seq(Keys \cup {NullKey}) /\ DOMAIN Workspaces \subseteq DOMAIN keys
        /\ \A w \in DOMAIN keys : \/ w \in DOMAIN Workspaces /\ keys[w] = Workspaces[w]
                                  \/ keys[w] = k
    <3> HIDE DEF k
    <3> QED
      BY <2>3, <2>4
  <2>6. \A w \in DOMAIN keys : keys[w] # NullKey => keyFiles[keys[w]] = "whole"
    BY <2>3, <2>5, Zenon DEF KeysInv, WorkspaceHasItsKey
  <2>7. /\ ToolShape' /\ \A u \in Tools : u # t => tool'[u] = tool[u]
        /\ tool'[t].pc = "idle"
    BY <1>0, <2>1, ExitKeepsOthers, Zenon
  <2>8. ASSUME NEW u \in Tools, u # t, tool[u].pc \in Generating PROVE tool[u].key \notin Range(keys)
    <3>1. tool[u].key # k /\ tool[u].key \notin Range(Workspaces)
      BY <1>0, <2>8, <2>2, LastCommit, Zenon DEF KeysInv, Owned, Workspaces
    <3> HIDE DEF keys
    <3> QED
      BY <2>5, <3>1, Zenon DEF Range
  <2>9. \A u \in Tools : tool'[u].pc \in Generating =>
          tool'[u] = tool[u] /\ tool[u].key \notin Range(keys)
    BY <2>7, <2>8, Zenon DEF Generating
  <2>10. \A u \in Tools : tool'[u].pc = "rotate" => tool'[u] = tool[u]
    BY <2>7, Zenon
  <2> HIDE DEF keys, k
  <2> QED
    BY <2>1, <2>5, <2>6, <2>7, <2>9, <2>10, KeysCommit, Zenon
<1>8. CASE GenerateFails(t)
  <2> DEFINE k == tool[t].key
  <2>1. /\ tool[t].pc \in Generating /\ log' = log /\ Exit(t)
        /\ keyFiles' = [keyFiles EXCEPT ![k] = "none"]
    BY <1>8, Zenon DEF GenerateFails, Generating
  <2>2. Owned(t)
    BY <2>1, Zenon DEF KeysInv
  <2>3. k \in Keys /\ k \notin Range(Workspaces)
          /\ \A u \in Tools : u # t /\ tool[u].pc \in Generating => tool[u].key # k
    BY <1>0, <2>2, LastCommit, Zenon DEF Owned, Workspaces
  <2>4. /\ ToolShape' /\ \A u \in Tools : u # t => tool'[u] = tool[u]
        /\ tool'[t].pc \notin Generating /\ tool'[t].pc # "rotate"
    BY <1>0, <2>1, ExitKeepsOthers, ZenonT(40) DEF Generating
  <2>5. ASSUME NEW u \in Tools, tool'[u].pc = "rotate" PROVE tool'[u] = tool[u] /\ tool[u].key # k
    BY <2>1, <2>4, <2>5, ZenonT(30) DEF KeysInv, Loaded
  <2> HIDE DEF k
  <2> QED
    BY <2>1, <2>3, <2>4, <2>5, KeysFile, Zenon
<1>9. CASE LoadRotation(t)
  <2>1. PICK w \in DOMAIN Workspaces, k \in Keys :
          /\ \A u \in Tools : tool[u].pc \in Generating => tool[u].key # k
          /\ \/ Exit(t)
             \/ /\ keyFiles[k] = "whole"
                /\ tool' = [tool EXCEPT ![t] = [pc |-> "rotate", ws |-> w, key |-> k, file |-> 0,
                                                source |-> Whole(Workspaces[w]), opened |-> None]]
          /\ log' = log /\ keyFiles' = keyFiles
    BY <1>9, Zenon DEF LoadRotation
  <2>2. CASE Exit(t)
    BY <1>1, <2>1, <2>2, Zenon
  <2>3. CASE ~Exit(t)
    <3>1. PICK source, opened : source = Whole(Workspaces[w]) /\ opened = None
      BY Zenon
    <3>2. tool' = [tool EXCEPT ![t] = [pc |-> "rotate", ws |-> w, key |-> k, file |-> 0,
                                       source |-> source, opened |-> opened]]
      BY <2>1, <2>3, <3>1, Zenon
    <3>3. /\ ToolShape' /\ tool'[t].pc = "rotate" /\ tool'[t].key = k
          /\ \A u \in Tools : u # t => tool'[u] = tool[u]
      BY <1>0, <3>2, LoadKeepsOthers, Zenon
    <3>4. \A u \in Tools : tool'[u].pc \in Generating => u # t
      BY <3>3, Zenon DEF Generating
    <3>5. Loaded(t)'
      BY <2>1, <2>3, <3>3, <3>4, Zenon DEF Loaded
    <3> QED
      BY <2>1, <3>3, <3>4, <3>5, KeysQuiet, Zenon
  <2> QED
    BY <2>2, <2>3, Zenon
<1>10. CASE RotateAuthority(t)
  <2>1. CASE log' = log
    BY <1>1, <1>10, <2>1, Zenon DEF RotateAuthority
  <2>2. CASE log' # log
    <3>1. PICK w, k : w = tool[t].ws /\ k = tool[t].key
      BY Zenon
    <3>2. /\ tool[t].pc = "rotate" /\ Exit(t) /\ keyFiles' = keyFiles
          /\ log' = Append(log, [Workspaces EXCEPT ![w] = k])
      BY <1>10, <2>2, <3>1, Zenon DEF RotateAuthority, Commit
    <3>3. /\ k \in Keys /\ keyFiles[k] = "whole"
          /\ \A u \in Tools : tool[u].pc \in Generating => tool[u].key # k
      BY <3>1, <3>2, ZenonT(30) DEF KeysInv, Loaded
    <3> DEFINE keys == [Workspaces EXCEPT ![w] = k]
    <3>4. Workspaces \in Seq(Keys \cup {NullKey})
      BY <1>0, LastCommit, Zenon
    <3>5. /\ keys \in Seq(Keys \cup {NullKey}) /\ DOMAIN keys = DOMAIN Workspaces
          /\ \A v \in DOMAIN keys : keys[v] = Workspaces[v] \/ keys[v] = k
      <4>1. keys = [v \in DOMAIN Workspaces |-> IF v = w THEN k ELSE Workspaces[v]]
        BY Zenon
      <4> HIDE DEF keys
      <4> QED
        BY <3>3, <3>4, <4>1
    <3>6. log' = Append(log, keys)
      BY <3>2, Zenon
    <3> HIDE DEF keys
    <3>7. \A v \in DOMAIN keys : keys[v] # NullKey => keyFiles[keys[v]] = "whole"
      BY <3>3, <3>5, Zenon DEF KeysInv, WorkspaceHasItsKey
    <3>8. /\ ToolShape' /\ \A u \in Tools : u # t => tool'[u] = tool[u]
          /\ tool'[t].pc = "idle"
      BY <1>0, <3>2, ExitKeepsOthers, Zenon
    <3>9. ASSUME NEW u \in Tools, tool[u].pc \in Generating PROVE tool[u].key \notin Range(keys)
      <4>1. tool[u].key # k /\ tool[u].key \notin Range(Workspaces)
        BY <1>0, <3>3, <3>9, LastCommit, ZenonT(40) DEF KeysInv, Owned, Workspaces
      <4> QED
        BY <3>5, <4>1, Zenon DEF Range
    <3>10. /\ \A u \in Tools : tool'[u].pc \in Generating =>
                tool'[u] = tool[u] /\ tool[u].key \notin Range(keys)
           /\ \A u \in Tools : tool'[u].pc = "rotate" => tool'[u] = tool[u]
      BY <3>8, <3>9, Zenon DEF Generating
    <3> QED
      BY <3>2, <3>5, <3>6, <3>7, <3>8, <3>10, KeysCommit, ZenonT(40)
  <2> QED
    BY <2>1, <2>2, Zenon
<1> QED
  BY <1>3, <1>4, <1>5, <1>6, <1>7, <1>8, <1>9, <1>10, Zenon DEF Administer

\* Every step keeps the keys, the commits and the workspaces.
LEMMA KeysStep ==
    ASSUME KeysInv, [Next]_vars
    PROVE  KeysInv' /\ Kept
<1>0. ToolShape /\ LogOK
  BY Zenon DEF KeysInv
<1>1. ASSUME UNCHANGED <<log, keyFiles, tool>> PROVE KeysInv' /\ Kept
  BY <1>0, <1>1, KeysQuiet, Zenon DEF ToolShape
<1>2. CASE UNCHANGED vars \/ UNCHANGED fileVars
  BY <1>1, <1>2, Zenon DEF vars, fileVars
<1>3. ASSUME NEW p \in Servers, ServerCommits(p) PROVE KeysInv' /\ Kept
  <2>1. log' = Append(log, Workspaces) /\ keyFiles' = keyFiles /\ tool' = tool
    BY <1>3, Zenon DEF ServerCommits, Commit
  <2>2. Workspaces \in Seq(Keys \cup {NullKey})
    BY <1>0, LastCommit, Zenon
  <2>3. \A u \in Tools : tool[u].pc \in Generating => tool[u].key \notin Range(Workspaces)
    BY <1>0, LastCommit, Zenon DEF KeysInv, Owned, Workspaces
  <2>4. ToolShape'
    BY <1>0, <2>1, Zenon DEF ToolShape
  <2>5. \A w \in DOMAIN Workspaces : Workspaces[w] # NullKey => keyFiles[Workspaces[w]] = "whole"
    BY Zenon DEF KeysInv, WorkspaceHasItsKey
  <2> QED
    BY <2>1, <2>2, <2>3, <2>4, <2>5, KeysCommit, Zenon
<1>4. ASSUME NEW k \in Keys, RetireKey(k) PROVE KeysInv' /\ Kept
  <2>1. /\ k \notin Range(Workspaces) /\ \E i \in DOMAIN log : k \in Range(log[i])
        /\ \A t \in Tools : tool[t].pc = "rotate" => tool[t].key # k
        /\ keyFiles' = [keyFiles EXCEPT ![k] = "none"] /\ log' = log /\ tool' = tool
    BY <1>4, ZenonT(40) DEF RetireKey
  <2>2. \A u \in Tools : tool[u].pc \in Generating => tool[u].key # k
    BY <2>1, Zenon DEF KeysInv, Owned
  <2>3. ToolShape'
    BY <1>0, <2>1, Zenon DEF ToolShape
  <2> QED
    BY <2>1, <2>2, <2>3, KeysFile, Zenon
<1>5. ASSUME NEW t \in Tools, log' = log, keyFiles' = keyFiles,
             ToolShape', tool'[t].pc \notin Generating, tool'[t].pc # "rotate",
             \A u \in Tools : u # t => tool'[u] = tool[u]
      PROVE  KeysInv' /\ Kept
  BY <1>5, KeysQuiet, Zenon
<1>6. ASSUME NEW t \in Tools, Backup(t) PROVE KeysInv' /\ Kept
  <2>1. log' = log /\ keyFiles' = keyFiles
    BY <1>6, Zenon DEF Backup, BackupWorkspace, CreateEntry, WriteEntry, InspectSnapshot,
       VerifyCreated, BackupFails, RemoveAll
  <2> QED
    BY <1>0, <1>5, <1>6, <2>1, BackupMoves, Zenon DEF Backing, Generating
<1>7. ASSUME NEW t \in Tools, RestoreTo(t) PROVE KeysInv' /\ Kept
  <2>1. log' = log /\ keyFiles' = keyFiles
    BY <1>7, Zenon DEF RestoreTo, BeginRestore, OpenCopy, FinishCopy, RestoreAuthority,
       WriteRestoredKey, RestoreFails, RemoveRegistry
  <2> QED
    BY <1>0, <1>5, <1>7, <2>1, RestoreMoves, Zenon DEF Restoring, Generating
<1>8. ASSUME NEW t \in Tools, ToolDies(t) PROVE KeysInv' /\ Kept
  BY <1>0, <1>5, <1>8, ExitKeepsOthers, Zenon DEF ToolDies, Generating
<1> QED
  BY <1>2, <1>3, <1>4, <1>6, <1>7, <1>8, AdministerKeys, Zenon DEF Next

\* At the start the key files are as the registry says.
LEMMA InitKeys == Init => KeysInv
<1> SUFFICES ASSUME Init PROVE KeysInv
  BY Zenon
<1>1. PICK keys \in {<<>>, <<NullKey>>, <<1>>} : log = <<keys>>
  BY Zenon DEF Init
<1>2. 1 \in Keys
  BY FilesAssumption DEF Keys
<1>3. keys \in Seq(Keys \cup {NullKey})
  <2>1. CASE keys = <<>>
    BY <2>1
  <2>2. CASE keys = <<NullKey>>
    BY <2>2
  <2>3. CASE keys = <<1>>
    BY <1>2, <2>3
  <2> QED
    BY <2>1, <2>2, <2>3, Zenon
<1>4. LogOK /\ Workspaces = keys
  BY <1>1, <1>3 DEF LogOK, Workspaces
<1>5. tool = [t \in Tools |-> [pc |-> "idle", ws |-> 0, key |-> 0, file |-> 0, source |-> None,
                              opened |-> None]]
  BY Zenon DEF Init, Idle
<1>6. ToolShape /\ \A t \in Tools : tool[t].pc \notin Generating /\ tool[t].pc # "rotate"
  BY <1>5, Zenon DEF ToolShape, Generating
<1>7. keyFiles = [k \in Keys |-> IF <<k>> = Workspaces THEN "whole" ELSE "none"]
  BY Zenon DEF Init
<1>8. keyFiles \in [Keys -> {"none", "torn", "whole"}]
  BY <1>7, Zenon
<1>9. WorkspaceHasItsKey
  <2> SUFFICES ASSUME NEW w \in DOMAIN Workspaces, Workspaces[w] # NullKey
               PROVE  keyFiles[Workspaces[w]] = "whole"
    BY Zenon DEF WorkspaceHasItsKey
  <2>1. Workspaces = <<1>> /\ Workspaces[w] = 1
    BY <1>1, <1>4
  <2> QED
    BY <1>2, <1>7, <2>1, Zenon
<1> QED
  BY <1>4, <1>6, <1>8, <1>9, Zenon DEF KeysInv

\* They are in every reachable state.
LEMMA KeysInvariant == Spec => []KeysInv
<1>1. KeysInv /\ [Next]_vars => KeysInv'
  BY KeysStep, Zenon
<1> QED
  BY <1>1, InitKeys, PTL DEF Spec

\* For any number of commands and keys, and wherever a command fails or dies
\* between the key directory and the registry, the registry never names an
\* authority whose key file is not whole: init-workspace writes the file first,
\* rotate-authority loads it first, and a failed command removes only a key that
\* no commit names.
THEOREM WorkspaceAlwaysHasItsKey == Spec => []WorkspaceHasItsKey
<1>1. KeysInv => WorkspaceHasItsKey
  BY Zenon DEF KeysInv
<1> QED
  BY <1>1, KeysInvariant, PTL

-----------------------------------------------------------------------------
(* The backup directory.                                                   *)

\* A snapshot of the current schema is the registry as of one commit.  The
\* backups of earlier releases are not, and Verify accepts none of them.
CommitIn(commits, snapshot) ==
    snapshot.version = Current =>
        snapshot.stamp \in DOMAIN commits /\ snapshot.keys = commits[snapshot.stamp]

SnapshotIn(commits, file) ==
    \/ file = None \/ file = Torn
    \/ file = Whole(file.value) /\ CommitIn(commits, file.value)

Directory(d) == d = [exists |-> d.exists, entries |-> [e \in EntryNames |-> d.entries[e]]]

\* The directory belongs to the one command that made it until it reports the
\* backup; then it verifies, and to nobody.
BackupInv ==
    /\ Directory(dir) /\ SnapshotIn(log, dir.entries["registry"])
    /\ made => dir.exists /\ \E w \in DOMAIN Workspaces : Verifies(w)
    /\ \A t \in Tools : tool[t].pc \in Backing =>
         /\ dir.exists /\ ~made /\ tool[t].ws \in DOMAIN Workspaces
         /\ \A u \in Tools : tool[u].pc \in Backing => u = t

\* What is a snapshot of a commit stays one: the log only grows.
LEMMA SnapshotStays ==
    ASSUME Kept, NEW file, SnapshotIn(log, file)
    PROVE  SnapshotIn(log', file)
  BY Zenon DEF Kept, SnapshotIn, CommitIn

\* A registry in the directory was written by a backup.
LEMMA SnapshotNotForeign ==
    ASSUME NEW file, SnapshotIn(log, file)
    PROVE  file # Foreign
<1>1. None # Foreign /\ Torn # Foreign
  BY Zenon DEF None, Torn, Foreign
<1>2. \A v : Whole(v) # Foreign
  BY Zenon DEF Whole, Foreign
<1> QED
  BY <1>1, <1>2, Zenon DEF SnapshotIn

\* Verify looks at nothing but the directory.
LEMMA VerifiesStays ==
    ASSUME dir' = dir, NEW w
    PROVE  Verifies(w)' <=> Verifies(w)
  BY Zenon DEF Verifies, VerifiesAuthority

\* The registry is always what its last commit left.
LEMMA RegistryIsEntry == "registry" \in EntryNames
<1>1. Entries[1] = "registry" /\ 1 \in DOMAIN Entries
  BY DEF Entries
<1> QED
  BY <1>1, Zenon DEF EntryNames, Range

\* Writing one entry of a directory leaves the others.
LEMMA WriteOneEntry ==
    ASSUME Directory(dir), NEW x, NEW file, dir' = [dir EXCEPT !.entries[x] = file]
    PROVE  /\ Directory(dir') /\ dir'.exists = dir.exists
           /\ dir'.entries["registry"] \in {file, dir.entries["registry"]}
           /\ x # "registry" => dir'.entries["registry"] = dir.entries["registry"]
<1>1. dir'.exists = dir.exists /\ dir'.entries = [dir.entries EXCEPT ![x] = file]
  BY Zenon DEF Directory
<1>2. dir' = [exists |-> dir'.exists, entries |-> dir'.entries]
  BY Zenon DEF Directory
<1>3. dir'.entries = [e \in EntryNames |-> dir'.entries[e]]
  BY <1>1, SMTT(40) DEF Directory
<1> QED
  BY <1>1, <1>2, <1>3, RegistryIsEntry, Zenon DEF Directory

\* Steps that leave the directory alone and start no backup.
LEMMA BackupQuiet ==
    ASSUME BackupInv, Kept, dir' = dir, made' = made,
           \A u \in Tools : tool'[u].pc \in Backing =>
               tool[u].pc \in Backing /\ tool'[u].ws = tool[u].ws
    PROVE  BackupInv'
<1>1. Directory(dir') /\ SnapshotIn(log', dir'.entries["registry"])
  BY SnapshotStays, Zenon DEF BackupInv
<1>2. made' => dir'.exists /\ \E w \in DOMAIN Workspaces' : Verifies(w)'
  BY VerifiesStays, Zenon DEF BackupInv, Kept
<1>3. \A t \in Tools : tool'[t].pc \in Backing =>
         /\ dir'.exists /\ ~made' /\ tool'[t].ws \in DOMAIN Workspaces'
         /\ \A u \in Tools : tool'[u].pc \in Backing => u = t
  BY Zenon DEF BackupInv, Kept
<1> QED
  BY <1>1, <1>2, <1>3, Zenon DEF BackupInv

\* Steps of the command the directory belongs to.
LEMMA BackupWorks ==
    ASSUME BackupInv, Kept, NEW t \in Tools, tool[t].pc \in Backing, made' = made,
           Directory(dir'), SnapshotIn(log, dir'.entries["registry"]),
           \A u \in Tools : u # t => tool'[u] = tool[u],
           tool'[t].pc \in Backing => dir'.exists /\ tool'[t].ws = tool[t].ws
    PROVE  BackupInv'
<1>1. Directory(dir') /\ SnapshotIn(log', dir'.entries["registry"])
  BY SnapshotStays, ZenonT(40)
<1>2. ~made' /\ tool[t].ws \in DOMAIN Workspaces'
  BY Zenon DEF BackupInv, Kept
<1>3. \A u \in Tools : tool'[u].pc \in Backing => u = t
  BY Zenon DEF BackupInv
<1>4. \A u \in Tools : tool'[u].pc \in Backing =>
         /\ dir'.exists /\ ~made' /\ tool'[u].ws \in DOMAIN Workspaces'
         /\ \A v \in Tools : tool'[v].pc \in Backing => v = u
  BY <1>2, <1>3, Zenon
<1> QED
  BY <1>1, <1>2, <1>4, Zenon DEF BackupInv

\* The steps of backup-workspace keep the directory good.
LEMMA BackupSteps ==
    ASSUME KeysInv, BackupInv, Kept, NEW t \in Tools, Backup(t)
    PROVE  BackupInv'
<1>0. ToolShape /\ LogOK /\ Directory(dir)
  BY Zenon DEF KeysInv, BackupInv
<1>1. ASSUME Exit(t), dir' = dir, made' = made PROVE BackupInv'
  BY <1>0, <1>1, ExitKeepsOthers, BackupQuiet, Zenon DEF Backing
<1>2. CASE BackupWorkspace(t)
  <2>1. PICK w \in DOMAIN Workspaces : Starts(t) /\ Mkdir(t, w) /\ made' = made
    BY <1>2, Zenon DEF BackupWorkspace
  <2>2. CASE dir.exists
    BY <1>1, <2>1, <2>2, ZenonT(40) DEF Mkdir
  <2>3. CASE ~dir.exists
    <3>1. dir' = [dir EXCEPT !.exists = TRUE] /\ Become(t, "create", w, 0, 1)
      BY <2>1, <2>3, Zenon DEF Mkdir
    <3>2. Directory(dir') /\ dir'.exists /\ dir'.entries = dir.entries
      <4>1. dir'.exists = TRUE /\ dir'.entries = dir.entries
        BY <1>0, <3>1, Zenon DEF Directory
      <4>2. dir' = [exists |-> dir'.exists, entries |-> dir'.entries]
        BY <1>0, <3>1, Zenon DEF Directory
      <4>3. dir.entries = [e \in EntryNames |-> dir.entries[e]]
        BY <1>0 DEF Directory
      <4> QED
        BY <4>1, <4>2, <4>3, Zenon DEF Directory
    <3>3. ~made /\ \A u \in Tools : tool[u].pc \notin Backing
      BY <2>3, Zenon DEF BackupInv
    <3>4. /\ tool'[t].ws = w /\ w \in DOMAIN Workspaces'
          /\ \A u \in Tools : u # t => tool'[u] = tool[u]
      BY <1>0, <3>1, BecomeKeepsOthers, SMTT(40) DEF Kept
    <3>5. SnapshotIn(log', dir'.entries["registry"])
      BY <3>2, SnapshotStays, Zenon DEF BackupInv
    <3>6. \A u \in Tools : tool'[u].pc \in Backing => u = t
      BY <3>3, <3>4, Zenon
    <3> QED
      BY <2>1, <3>2, <3>3, <3>4, <3>5, <3>6, Zenon DEF BackupInv
  <2> QED
    BY <2>2, <2>3, Zenon
<1>3. ASSUME tool[t].pc \in Backing, made' = made, dir' = dir,
             tool'[t].ws = tool[t].ws, \A u \in Tools : u # t => tool'[u] = tool[u]
      PROVE  BackupInv'
  BY <1>3, BackupQuiet, Zenon
<1>4. ASSUME tool[t].pc \in Backing, made' = made, NEW x, NEW file,
             dir' = [dir EXCEPT !.entries[x] = file],
             x = "registry" => SnapshotIn(log, file),
             tool'[t].ws = tool[t].ws, \A u \in Tools : u # t => tool'[u] = tool[u]
      PROVE  BackupInv'
  <2>1. /\ Directory(dir') /\ dir'.exists = dir.exists
        /\ dir'.entries["registry"] \in {file, dir.entries["registry"]}
        /\ x # "registry" => dir'.entries["registry"] = dir.entries["registry"]
    BY <1>0, <1>4, WriteOneEntry, Zenon
  <2>2. SnapshotIn(log, dir'.entries["registry"])
    BY <1>4, <2>1, Zenon DEF BackupInv
  <2>3. dir'.exists
    BY <1>4, <2>1, Zenon DEF BackupInv
  <2> QED
    BY <1>4, <2>1, <2>2, <2>3, BackupWorks, Zenon
<1>5. CASE CreateEntry(t)
  <2>1. /\ tool[t].pc \in Backing /\ made' = made /\ Goto(t, "write")
        /\ dir' = [dir EXCEPT !.entries[Entries[tool[t].file]] = Torn]
    BY <1>5, Zenon DEF CreateEntry, Backing
  <2>2. SnapshotIn(log, Torn)
    BY Zenon DEF SnapshotIn
  <2> QED
    BY <1>0, <1>4, <2>1, <2>2, GotoKeepsOthers, Zenon
<1>6. CASE WriteEntry(t)
  <2> DEFINE entry == Entries[tool[t].file]
             file == Whole(Content(tool[t].ws, tool[t].key, entry))
  <2>1. /\ tool[t].pc \in Backing /\ made' = made
        /\ dir' = [dir EXCEPT !.entries[entry] = file]
    BY <1>6, Zenon DEF WriteEntry, Backing
  <2>2. tool'[t].ws = tool[t].ws /\ \A u \in Tools : u # t => tool'[u] = tool[u]
    <3>1. \/ Goto(t, "inspect") \/ Goto(t, "verify")
          \/ Become(t, "create", tool[t].ws, tool[t].key, tool[t].file + 1)
      BY <1>6, Zenon DEF WriteEntry
    <3> QED
      BY <1>0, <3>1, GotoKeepsOthers, BecomeKeepsOthers
  <2>3. ASSUME entry = "registry" PROVE SnapshotIn(log, file)
    <3> DEFINE snapshot == Snapshot(Version(registry), Workspaces, Len(log))
    <3>1. file = Whole(snapshot)
      BY <2>3, Zenon DEF Content
    <3>2. snapshot.keys = log[Len(log)] /\ snapshot.stamp = Len(log)
      BY Zenon DEF Snapshot, Workspaces
    <3>3. CommitIn(log, snapshot)
      BY <1>0, <3>2, LastCommit, Zenon DEF CommitIn
    <3> HIDE DEF snapshot, file
    <3>4. file.value = snapshot
      BY <3>1, ZenonT(40) DEF Whole
    <3> QED
      BY <3>1, <3>3, <3>4, Zenon DEF SnapshotIn
  <2> HIDE DEF entry, file
  <2> QED
    BY <1>4, <2>1, <2>2, <2>3, ZenonT(40)
<1>7. CASE InspectSnapshot(t)
  <2>1. /\ tool[t].pc \in Backing /\ made' = made /\ dir' = dir
        /\ Goto(t, "cleanup") \/ \E k : Become(t, "create", tool[t].ws, k, 2)
    BY <1>7, Zenon DEF InspectSnapshot, Backing
  <2>2. tool'[t].ws = tool[t].ws /\ \A u \in Tools : u # t => tool'[u] = tool[u]
    BY <1>0, <2>1, GotoKeepsOthers, BecomeKeepsOthers
  <2> QED
    BY <1>3, <2>1, <2>2, Zenon
<1>8. CASE VerifyCreated(t)
  <2>1. CASE Verifies(tool[t].ws)
    <3>1. tool[t].pc \in Backing /\ made' /\ dir' = dir /\ Exit(t)
      BY <1>8, <2>1, Zenon DEF VerifyCreated, Backing
    <3>2. tool'[t].pc = "idle" /\ \A u \in Tools : u # t => tool'[u] = tool[u]
      BY <1>0, <3>1, ExitKeepsOthers, ZenonT(40)
    <3>3. \A u \in Tools : tool'[u].pc \notin Backing
      BY <3>1, <3>2, ZenonT(40) DEF BackupInv, Backing
    <3>4. tool[t].ws \in DOMAIN Workspaces' /\ dir'.exists
      BY <3>1, ZenonT(40) DEF BackupInv, Kept
    <3>5. \E w \in DOMAIN Workspaces' : Verifies(w)'
      <4>1. PICK w : w = tool[t].ws
        BY Zenon
      <4>2. Verifies(w)'
        BY <2>1, <3>1, <4>1, VerifiesStays, Zenon
      <4> QED
        BY <3>4, <4>1, <4>2, Zenon
    <3>6. Directory(dir') /\ SnapshotIn(log', dir'.entries["registry"])
      BY <3>1, SnapshotStays, ZenonT(40) DEF BackupInv
    <3> QED
      BY <3>3, <3>4, <3>5, <3>6, Zenon DEF BackupInv
  <2>2. CASE ~Verifies(tool[t].ws)
    BY <1>0, <1>3, <1>8, <2>2, GotoKeepsOthers, ZenonT(40) DEF VerifyCreated, Backing
  <2> QED
    BY <2>1, <2>2, ZenonT(40)
<1>9. CASE BackupFails(t)
  BY <1>0, <1>3, <1>9, GotoKeepsOthers, Zenon DEF BackupFails, Backing
<1>10. CASE RemoveAll(t)
  <2>0. tool[t].pc \in Backing /\ made' = made
    BY <1>10, Zenon DEF RemoveAll, Backing
  <2>1. ASSUME NEW e, dir' = [dir EXCEPT !.entries[e] = None], UNCHANGED tool PROVE BackupInv'
    <3>1. SnapshotIn(log, None)
      BY ZenonT(40) DEF SnapshotIn
    <3> QED
      BY <1>4, <2>0, <2>1, <3>1, Zenon
  <2>2. ASSUME dir' = NoDirectory, Exit(t) PROVE BackupInv'
    <3>1. Directory(dir') /\ dir'.entries["registry"] = None
      BY <2>2, RegistryIsEntry, Zenon DEF NoDirectory, NoEntries, Directory
    <3>2. SnapshotIn(log, dir'.entries["registry"])
      BY <3>1, Zenon DEF SnapshotIn
    <3>3. tool'[t].pc \notin Backing /\ \A u \in Tools : u # t => tool'[u] = tool[u]
      BY <1>0, <2>2, ExitKeepsOthers, ZenonT(40) DEF Backing
    <3> QED
      BY <2>0, <3>1, <3>2, <3>3, BackupWorks, Zenon
  <2> QED
    BY <1>10, <2>1, <2>2, Zenon DEF RemoveAll
<1> QED
  BY <1>2, <1>5, <1>6, <1>7, <1>8, <1>9, <1>10, ZenonT(40) DEF Backup

\* The steps of init-workspace, prepare- and rotate-authority move a command
\* within its own states.
LEMMA AdministerMoves ==
    ASSUME ToolShape, NEW t \in Tools, Administer(t)
    PROVE  /\ ToolShape'
           /\ tool'[t].pc \in Generating \cup {"idle", "generate", "prepare", "rotate"}
           /\ \A u \in Tools : u # t => tool'[u] = tool[u]
<1> DEFINE Moved == /\ ToolShape'
                    /\ tool'[t].pc \in Generating \cup {"idle", "generate", "prepare", "rotate"}
                    /\ \A u \in Tools : u # t => tool'[u] = tool[u]
<1>1. ASSUME Exit(t) PROVE Moved
  BY <1>1, ExitKeepsOthers, ZenonT(40)
<1>2. ASSUME NEW pc \in {"generate", "prepare", "insert"}, Goto(t, pc) PROVE Moved
  BY <1>2, GotoKeepsOthers, Zenon DEF Generating
<1>3. ASSUME NEW pc \in {"generating", "preparing"}, NEW k, Become(t, pc, 0, k, 0) PROVE Moved
  BY <1>3, BecomeKeepsOthers, ZenonT(40) DEF Generating
<1>4. ASSUME GenerateAuthority(t) PROVE Moved
  <2> HIDE DEF Moved
  <2> QED
    BY <1>3, <1>4, Zenon DEF GenerateAuthority
<1>5. ASSUME LoadRotation(t) PROVE Moved
  <2>1. PICK w, k, source, opened :
          \/ Exit(t)
          \/ tool' = [tool EXCEPT ![t] = [pc |-> "rotate", ws |-> w, key |-> k, file |-> 0,
                                          source |-> source, opened |-> opened]]
    BY <1>5, Zenon DEF LoadRotation
  <2>2. ASSUME ~Exit(t) PROVE Moved
    <3>1. ToolShape' /\ tool'[t].pc = "rotate" /\ \A u \in Tools : u # t => tool'[u] = tool[u]
      <4>1. tool' = [tool EXCEPT ![t] = [pc |-> "rotate", ws |-> w, key |-> k, file |-> 0,
                                         source |-> source, opened |-> opened]]
        BY <2>1, <2>2, Zenon
      <4> QED
        BY <4>1, LoadKeepsOthers, Zenon
    <3> QED
      BY <3>1, Zenon
  <2> HIDE DEF Moved
  <2> QED
    BY <1>1, <2>2, Zenon
<1>6. ListWorkspaces(t) \/ PrepareAuthorityRotation(t) \/ WriteAuthority(t)
        \/ CreateWorkspace(t) \/ GenerateFails(t) \/ RotateAuthority(t)
        => Exit(t) \/ Goto(t, "generate") \/ Goto(t, "prepare") \/ Goto(t, "insert")
  BY Zenon DEF ListWorkspaces, PrepareAuthorityRotation, WriteAuthority, CreateWorkspace,
     GenerateFails, RotateAuthority
<1> HIDE DEF Moved
<1>7. Moved
  BY <1>1, <1>2, <1>4, <1>5, <1>6, Zenon DEF Administer
<1> QED
  BY <1>7, Zenon DEF Moved

\* Every step keeps BackupInv: only a backup writes in its directory.
LEMMA BackupStep ==
    ASSUME KeysInv, BackupInv, [Next]_vars
    PROVE  BackupInv'
<1>0. ToolShape /\ Kept
  BY KeysStep, Zenon DEF KeysInv
<1>1. ASSUME UNCHANGED <<dir, made, tool>> PROVE BackupInv'
  BY <1>0, <1>1, BackupQuiet, Zenon
<1>2. CASE UNCHANGED vars \/ UNCHANGED fileVars
  BY <1>1, <1>2, Zenon DEF vars, fileVars
<1>3. ASSUME NEW p \in Servers, ServerCommits(p) PROVE BackupInv'
  BY <1>1, <1>3, Zenon DEF ServerCommits
<1>4. ASSUME NEW k \in Keys, RetireKey(k) PROVE BackupInv'
  BY <1>1, <1>4, Zenon DEF RetireKey
<1>5. ASSUME NEW t \in Tools, dir' = dir, made' = made, tool'[t].pc \notin Backing,
             \A u \in Tools : u # t => tool'[u] = tool[u]
      PROVE  BackupInv'
  BY <1>0, <1>5, BackupQuiet, Zenon
<1>6. ASSUME NEW t \in Tools, Administer(t) PROVE BackupInv'
  <2>1. dir' = dir /\ made' = made
    BY <1>6, Zenon DEF Administer, ListWorkspaces, PrepareAuthorityRotation, GenerateAuthority,
       WriteAuthority, CreateWorkspace, GenerateFails, LoadRotation, RotateAuthority
  <2> QED
    BY <1>0, <1>5, <1>6, <2>1, AdministerMoves, Zenon DEF Backing, Generating
<1>7. ASSUME NEW t \in Tools, RestoreTo(t) PROVE BackupInv'
  <2>1. dir' = dir /\ made' = made
    BY <1>7, Zenon DEF RestoreTo, BeginRestore, OpenCopy, FinishCopy, RestoreAuthority,
       WriteRestoredKey, RestoreFails, RemoveRegistry
  <2> QED
    BY <1>0, <1>5, <1>7, <2>1, RestoreMoves, Zenon DEF Backing, Restoring
<1>8. ASSUME NEW t \in Tools, ToolDies(t) PROVE BackupInv'
  BY <1>0, <1>5, <1>8, ExitKeepsOthers, Zenon DEF ToolDies, Backing
<1>9. ASSUME NEW t \in Tools, Backup(t) PROVE BackupInv'
  BY <1>0, <1>9, BackupSteps, Zenon
<1> QED
  BY <1>2, <1>3, <1>4, <1>6, <1>7, <1>8, <1>9, Zenon DEF Next

\* No backup is under way at the start.
LEMMA InitBackup == Init => BackupInv
<1> SUFFICES ASSUME Init PROVE BackupInv
  BY Zenon
<1>1. dir \in {NoDirectory, Occupied, OlderBackup}
  BY Zenon DEF Init
<1>2. \A t \in Tools : tool[t].pc \notin Backing
  BY Zenon DEF Init, Idle, Backing
<1>3. NoEntries = [e \in EntryNames |-> NoEntries[e]] /\ NoEntries["registry"] = None
  BY RegistryIsEntry, Zenon DEF NoEntries
<1>4. /\ Directory(NoDirectory) /\ SnapshotIn(log, NoDirectory.entries["registry"])
      /\ Directory(Occupied) /\ SnapshotIn(log, Occupied.entries["registry"])
  BY <1>3, Zenon DEF NoDirectory, Occupied, Directory, SnapshotIn
<1>5. Directory(OlderBackup) /\ SnapshotIn(log, OlderBackup.entries["registry"])
  <2> DEFINE snapshot == Snapshot(Current - 1, <<1>>, 0)
             a == Whole(snapshot)
             b == Whole(1)
             c == Whole([ws |-> 1, key |-> 1])
             d == Whole([ws |-> 1, registry |-> Whole(snapshot), key |-> 1])
             entries == [registry |-> a, key |-> b, authorityManifest |-> c, manifest |-> d]
  <2>1. OlderBackup = [exists |-> TRUE, entries |-> entries]
    BY Zenon DEF OlderBackup
  <2>2. snapshot.version # Current
    BY DEF Snapshot, Current
  <2>3. SnapshotIn(log, a)
    <3> HIDE DEF snapshot
    <3> QED
      BY <2>2, Zenon DEF Whole, SnapshotIn, CommitIn
  <2> HIDE DEF a, b, c, d
  <2>4. entries.registry = a
    BY Zenon
  <2>5. EntryNames = {"registry", "key", "authorityManifest", "manifest"}
    <3>1. DOMAIN Entries = 1..4
      BY DEF Entries
    <3>2. Entries[1] = "registry" /\ Entries[2] = "key" /\ Entries[3] = "authorityManifest"
            /\ Entries[4] = "manifest"
      BY Zenon DEF Entries
    <3> QED
      BY <3>1, <3>2 DEF EntryNames, Range
  <2>6. entries = [e \in EntryNames |-> entries[e]]
    BY <2>5, ZenonT(40)
  <2> HIDE DEF entries
  <2> QED
    BY <2>1, <2>3, <2>4, <2>6, Zenon DEF Directory
<1>6. ~made
  BY Zenon DEF Init
<1> QED
  BY <1>1, <1>2, <1>3, <1>4, <1>5, <1>6, Zenon DEF BackupInv

\* Keys, backups and destinations are in order in every reachable state.
LEMMA FilesInvariant == Spec => [](KeysInv /\ BackupInv)
<1>1. KeysInv /\ BackupInv /\ [Next]_vars => BackupInv'
  BY BackupStep, Zenon
<1> QED
  BY <1>1, InitBackup, InitKeys, KeysInvariant, PTL DEF Spec

\* For any number of commands, commits and keys: what Verify accepts is the
\* registry as of one commit with the key that commit names, even while another
\* process rotates the authority or other commands work on the directory, and a
\* backup that was reported stays accepted (Create, Verify).
THEOREM BackupIsAlwaysOneCommit == Spec => []BackupIsOneCommit
<1>1. KeysInv /\ BackupInv => BackupIsOneCommit
  <2> SUFFICES ASSUME KeysInv, BackupInv PROVE BackupIsOneCommit
    BY Zenon
  <2>1. ASSUME NEW w \in 1..MaxKeys, Verifies(w)
        PROVE  LET snapshot == dir.entries["registry"].value
               IN  /\ snapshot.stamp \in DOMAIN log
                   /\ snapshot.keys = log[snapshot.stamp]
                   /\ dir.entries["key"] = Whole(log[snapshot.stamp][w])
    <3> DEFINE file == dir.entries["registry"]
    <3>1. file.kind = "whole" /\ file.value.version = Current
            /\ dir.entries["key"] = Whole(file.value.keys[w])
      BY <2>1, Zenon DEF Verifies, Inspects, VerifiesAuthority
    <3>2. SnapshotIn(log, file)
      BY Zenon DEF BackupInv
    <3> HIDE DEF file
    <3>3. file # None /\ file # Torn
      BY <3>1 DEF None, Torn
    <3>4. CommitIn(log, file.value)
      BY <3>2, <3>3, Zenon DEF SnapshotIn
    <3> QED
      BY <3>1, <3>4, ZenonT(40) DEF CommitIn, file
  <2> QED
    BY <2>1, Zenon DEF BackupIsOneCommit, BackupInv
<1> QED
  BY <1>1, FilesInvariant, PTL

-----------------------------------------------------------------------------
(* The destination of a restore.                                           *)

\* What a restore copies: a verified snapshot, whose workspace has a key.
SourceIn(commits, file, w) ==
    /\ file = Whole(file.value) /\ Inspects(file, w) /\ CommitIn(commits, file.value)
    /\ file.value.keys[w] \in Keys

KeyOf(t) == tool[t].source.value.keys[tool[t].ws]

\* A command that created the registry at the destination is the only one, and
\* what it has written so far is its own.
Restores(t) ==
    /\ restored = None /\ dest # None /\ dest # Foreign
    /\ tool[t].pc = "copying" => tool[t].opened # None /\ tool[t].opened # Foreign
    /\ tool[t].pc \in {"key", "keying"} => dest = tool[t].source
    /\ tool[t].pc = "keying" => destKeys[KeyOf(t)] = "torn"
    /\ \A u \in Tools : tool[u].pc \in Restoring => u = t

Reported(report) ==
    /\ dest = Whole(report.value) /\ report.value.version = Current
    /\ report.value.stamp \in DOMAIN log /\ report.value.keys = log[report.value.stamp]
    /\ destKeys[report.value.keys[report.ws]] = "whole"

\* A command that created the registry leaves its steps only by reporting, by
\* removing it, or by dying.
DestinationInv ==
    /\ FailedRestoreLeavesNothing
    /\ destKeys \in [Keys -> {"none", "torn", "alien", "whole"}]
    /\ restored # None => Reported(restored)
    /\ \A t \in Tools : tool[t].pc \in Restoring \cup {"copy"} =>
         SourceIn(log, tool[t].source, tool[t].ws)
    /\ \A t \in Tools : tool[t].pc \in Restoring => Restores(t)

\* What no command does to the destination.
DestinationKept ==
    /\ dest = Foreign => dest' = Foreign
    /\ restored # None => dest' = dest
    /\ \A k \in Keys : destKeys[k] \in {"alien", "whole"} => destKeys'[k] = destKeys[k]

\* What a restore may read from stays readable: the log only grows.
LEMMA SourceStays ==
    ASSUME Kept, NEW file, NEW w, SourceIn(log, file, w)
    PROVE  SourceIn(log', file, w)
  BY ZenonT(40) DEF Kept, SourceIn, CommitIn

\* What Verify accepts can be restored.
LEMMA VerifiedSource ==
    ASSUME KeysInv, BackupInv, NEW w, Verifies(w)
    PROVE  SourceIn(log, dir.entries["registry"], w)
<1> DEFINE file == dir.entries["registry"]
<1>1. Inspects(file, w) /\ SnapshotIn(log, file)
  BY Zenon DEF Verifies, BackupInv
<1> HIDE DEF file
<1>2. file.kind = "whole" /\ file.value.version = Current
        /\ w \in DOMAIN file.value.keys /\ file.value.keys[w] # NullKey
  BY <1>1, Zenon DEF Inspects
<1>3. file # None /\ file # Torn
  BY <1>2 DEF None, Torn
<1>4. file = Whole(file.value) /\ CommitIn(log, file.value)
  BY <1>1, <1>3, Zenon DEF SnapshotIn
<1>5. file.value.keys[w] \in Keys
  <2>1. file.value.stamp \in DOMAIN log /\ file.value.keys = log[file.value.stamp]
    BY <1>2, <1>4, ZenonT(40) DEF CommitIn
  <2>2. file.value.keys \in Seq(Keys \cup {NullKey})
    BY <2>1, SMTT(40) DEF KeysInv, LogOK
  <2> QED
    BY <1>2, <2>2
<1> QED
  BY <1>1, <1>4, <1>5, Zenon DEF SourceIn, file

\* Steps that leave the destination alone and start no restore.
LEMMA DestinationQuiet ==
    ASSUME DestinationInv, Kept, dest' = dest, destKeys' = destKeys, restored' = restored,
           abandoned => abandoned',
           \A u \in Tools : tool'[u].pc \in Restoring \cup {"copy"} => tool'[u] = tool[u],
           \A u \in Tools : tool[u].pc \in Restoring => tool'[u] = tool[u] \/ abandoned'
    PROVE  DestinationInv' /\ DestinationKept
<1>0. FailedRestoreLeavesNothing'
  BY Zenon DEF DestinationInv, FailedRestoreLeavesNothing
<1>1. restored' # None => Reported(restored)'
  BY Zenon DEF DestinationInv, Reported, Kept
<1>2. ASSUME NEW u \in Tools, tool'[u].pc \in Restoring \cup {"copy"}
      PROVE  SourceIn(log', tool'[u].source, tool'[u].ws)
  BY <1>2, SourceStays, ZenonT(40) DEF DestinationInv
<1>3. ASSUME NEW u \in Tools, tool'[u].pc \in Restoring PROVE Restores(u)'
  BY <1>3, ZenonT(30) DEF DestinationInv, Restores, KeyOf
<1>4. DestinationKept
  BY Zenon DEF DestinationKept
<1> QED
  BY <1>0, <1>1, <1>2, <1>3, <1>4, Zenon DEF DestinationInv

\* Steps of the command that created the registry there, before it reports.
LEMMA DestinationWorks ==
    ASSUME DestinationInv, Kept, NEW t \in Tools, tool[t].pc \in Restoring,
           restored' = restored, dest' # Foreign,
           destKeys' \in [Keys -> {"none", "torn", "alien", "whole"}],
           \A k \in Keys : destKeys[k] \in {"alien", "whole"} => destKeys'[k] = destKeys[k],
           \A u \in Tools : u # t => tool'[u] = tool[u],
           \/ tool'[t].pc = "idle" /\ dest' = None
           \/ /\ tool'[t].pc \in Restoring \ {"copying"} /\ dest' # None
              /\ tool'[t].source = tool[t].source /\ tool'[t].ws = tool[t].ws
              /\ tool'[t].pc \in {"key", "keying"} => dest' = tool[t].source
              /\ tool'[t].pc = "keying" => destKeys'[KeyOf(t)] = "torn"
    PROVE  DestinationInv' /\ DestinationKept
<1>0. FailedRestoreLeavesNothing'
  BY SMTT(40) DEF FailedRestoreLeavesNothing, None
<1>1. Restores(t) /\ SourceIn(log, tool[t].source, tool[t].ws)
  BY ZenonT(40) DEF DestinationInv
<1>2. restored' = None /\ DestinationKept
  BY <1>1, ZenonT(40) DEF Restores, DestinationKept
<1>3. ASSUME NEW u \in Tools, tool'[u].pc \in Restoring \cup {"copy"}
      PROVE  SourceIn(log', tool'[u].source, tool'[u].ws)
  <2>1. CASE u = t
    BY <1>1, <1>3, <2>1, SourceStays, Zenon DEF Restoring
  <2>2. CASE u # t
    BY <1>3, <2>2, SourceStays, Zenon DEF DestinationInv
  <2> QED
    BY <2>1, <2>2, ZenonT(40)
<1>4. ASSUME NEW u \in Tools, tool'[u].pc \in Restoring PROVE u = t
  BY <1>1, <1>4, ZenonT(40) DEF Restores
<1>5. "idle" \notin Restoring
  BY Zenon DEF Restoring
<1>6. tool'[t].pc \in Restoring => Restores(t)'
  BY <1>2, <1>4, <1>5, Zenon DEF Restores, KeyOf
<1>7. ASSUME NEW u \in Tools, tool'[u].pc \in Restoring PROVE Restores(u)'
  BY <1>4, <1>6, <1>7, Zenon
<1> QED
  BY <1>0, <1>2, <1>3, <1>7, Zenon DEF DestinationInv

\* The step in which the command reports what it restored.
LEMMA DestinationReports ==
    ASSUME DestinationInv, Kept, NEW t \in Tools, tool[t].pc \in {"key", "keying"},
           Report(t), tool'[t].pc = "idle", dest' = dest,
           \A u \in Tools : u # t => tool'[u] = tool[u],
           destKeys' \in [Keys -> {"none", "torn", "alien", "whole"}],
           \A k \in Keys : destKeys[k] \in {"alien", "whole"} => destKeys'[k] = destKeys[k],
           destKeys'[KeyOf(t)] = "whole"
    PROVE  DestinationInv' /\ DestinationKept
<1> DEFINE value == tool[t].source.value
<1>0. FailedRestoreLeavesNothing'
  BY Zenon DEF FailedRestoreLeavesNothing, Report, None
<1>1. Restores(t) /\ SourceIn(log, tool[t].source, tool[t].ws)
  BY Zenon DEF DestinationInv, Restoring
<1>2. DestinationKept
  BY <1>1, ZenonT(40) DEF Restores, DestinationKept
<1>3. \A u \in Tools : tool'[u].pc \notin Restoring
  BY <1>1, ZenonT(40) DEF Restores, Restoring
<1>4. ASSUME NEW u \in Tools, tool'[u].pc \in Restoring \cup {"copy"}
      PROVE  SourceIn(log', tool'[u].source, tool'[u].ws)
  BY <1>4, SourceStays, Zenon DEF DestinationInv, Restoring
<1>5. Reported(restored)'
  <2>1. restored'.value = value /\ restored'.ws = tool[t].ws
    BY ZenonT(40) DEF Report
  <2>2. dest' = Whole(value)
    BY <1>1, ZenonT(40) DEF Restores, SourceIn
  <2>3. value.version = Current /\ CommitIn(log, value)
    BY <1>1, Zenon DEF SourceIn, Inspects
  <2>4. value.stamp \in DOMAIN log' /\ value.keys = log'[value.stamp]
    BY <2>3, ZenonT(40) DEF CommitIn, Kept
  <2>5. destKeys'[value.keys[tool[t].ws]] = "whole"
    BY Zenon DEF KeyOf
  <2> HIDE DEF value
  <2> QED
    BY <2>1, <2>2, <2>3, <2>4, <2>5, Zenon DEF Reported
<1> QED
  BY <1>0, <1>2, <1>3, <1>4, <1>5, ZenonT(40) DEF DestinationInv

\* The steps of restore-workspace-backup keep the destination good.
LEMMA RestoreSteps ==
    ASSUME KeysInv, BackupInv, DestinationInv, Kept, NEW t \in Tools, RestoreTo(t)
    PROVE  DestinationInv' /\ DestinationKept
<1>0. ToolShape /\ destKeys \in [Keys -> {"none", "torn", "alien", "whole"}]
  BY Zenon DEF KeysInv, DestinationInv
<1>1. ASSUME tool[t].pc \in {"key", "keying"} PROVE KeyOf(t) \in Keys
  BY <1>1, Zenon DEF DestinationInv, SourceIn, KeyOf, Restoring
<1>2. ASSUME tool[t].pc \in Restoring, Goto(t, "undo"), restored' = restored, dest' = dest,
             destKeys' = destKeys
      PROVE  DestinationInv' /\ DestinationKept
  <2>1. dest # None /\ dest # Foreign
    BY <1>2, Zenon DEF DestinationInv, Restores
  <2>2. /\ tool'[t].pc = "undo" /\ tool'[t].source = tool[t].source /\ tool'[t].ws = tool[t].ws
        /\ \A u \in Tools : u # t => tool'[u] = tool[u]
    BY <1>0, <1>2, GotoKeepsOthers, ZenonT(40)
  <2> QED
    BY <1>0, <1>2, <2>1, <2>2, DestinationWorks, Zenon DEF Restoring
<1>3. CASE BeginRestore(t)
  <2>1. PICK w \in 1..MaxKeys :
          /\ Verifies(w)
          /\ tool' = [tool EXCEPT ![t] = [pc |-> "copy", ws |-> w, key |-> 0, file |-> 0,
                                          source |-> dir.entries["registry"], opened |-> None]]
          /\ tool[t] = Idle /\ UNCHANGED <<dest, destKeys, restored, abandoned>>
    BY <1>3, ZenonT(40) DEF BeginRestore
  <2>2. SourceIn(log', dir.entries["registry"], w)
    BY <2>1, VerifiedSource, SourceStays, Zenon
  <2>3. PICK file : file = dir.entries["registry"]
    BY Zenon
  <2>4. SourceIn(log', file, w)
    BY <2>2, <2>3, ZenonT(40)
  <2>5. tool' = [tool EXCEPT ![t] = [pc |-> "copy", ws |-> w, key |-> 0, file |-> 0,
                                     source |-> file, opened |-> None]]
    BY <2>1, <2>3, ZenonT(40)
  <2>6. /\ tool'[t].pc = "copy" /\ tool'[t].ws = w /\ tool'[t].source = file
        /\ \A u \in Tools : u # t => tool'[u] = tool[u]
    <3>1. /\ tool'[t] = [pc |-> "copy", ws |-> w, key |-> 0, file |-> 0, source |-> file,
                         opened |-> None]
          /\ \A u \in Tools : u # t => tool'[u] = tool[u]
      BY <1>0, <2>5, ZenonT(40) DEF ToolShape
    <3> QED
      BY <3>1, SMTT(40)
  <2>7. ASSUME NEW u \in Tools, tool'[u].pc \in Restoring \cup {"copy"}
        PROVE  SourceIn(log', tool'[u].source, tool'[u].ws)
    BY <2>4, <2>6, <2>7, SourceStays, Zenon DEF DestinationInv
  <2>8. ASSUME NEW u \in Tools, tool'[u].pc \in Restoring PROVE Restores(u)'
    BY <2>1, <2>6, <2>8, ZenonT(40) DEF DestinationInv, Restores, KeyOf, Restoring
  <2>9. restored' # None => Reported(restored)'
    BY <2>1, Zenon DEF DestinationInv, Reported, Kept
  <2>10. DestinationKept
    BY <2>1, Zenon DEF DestinationKept
  <2>11. FailedRestoreLeavesNothing'
    <3>1. tool[t].pc \notin Restoring
      BY <2>1 DEF Idle, Restoring
    <3> QED
      BY <2>1, <2>6, <3>1, Zenon DEF DestinationInv, FailedRestoreLeavesNothing
  <2> QED
    BY <1>0, <2>1, <2>7, <2>8, <2>9, <2>10, <2>11, Zenon DEF DestinationInv
<1>4. CASE OpenCopy(t)
  <2>1. CASE dest' = dest
    <3>1. tool[t].pc = "copy" /\ Exit(t) /\ UNCHANGED <<destKeys, restored, abandoned>>
      <4>1. Torn # None
        BY Zenon DEF Torn, None
      <4> QED
        BY <1>4, <2>1, <4>1, Zenon DEF OpenCopy
    <3>2. tool'[t].pc = "idle" /\ \A u \in Tools : u # t => tool'[u] = tool[u]
      BY <1>0, <3>1, ExitKeepsOthers, Zenon
    <3> QED
      BY <2>1, <3>1, <3>2, DestinationQuiet, Zenon DEF Restoring
  <2>2. CASE dest' # dest
    <3>0. PICK file : file = dir.entries["registry"]
      BY Zenon
    <3>1. /\ tool[t].pc = "copy" /\ dest = None /\ dest' = Torn /\ file # None
          /\ tool' = [tool EXCEPT ![t] = [@ EXCEPT !.pc = "copying", !.opened = file]]
          /\ UNCHANGED <<destKeys, restored>>
      BY <1>4, <2>2, <3>0, Zenon DEF OpenCopy
    <3>2. Torn # None /\ Torn # Foreign /\ None # Foreign /\ \A v : Whole(v) # None
      BY ZenonT(40) DEF Torn, None, Foreign, Whole
    <3>3. restored = None /\ \A u \in Tools : tool[u].pc \notin Restoring
      BY <3>1, <3>2, ZenonT(40) DEF DestinationInv, Reported, Restores
    <3>4. /\ tool'[t].pc = "copying" /\ tool'[t].source = tool[t].source
          /\ tool'[t].opened # None /\ tool'[t].opened # Foreign
          /\ tool'[t].ws = tool[t].ws /\ \A u \in Tools : u # t => tool'[u] = tool[u]
      <4>1. file # Foreign
        BY <3>0, SnapshotNotForeign, Zenon DEF BackupInv
      <4> QED
        BY <1>0, <3>1, <4>1, OpenKeepsOthers, ZenonT(40)
    <3>5. ASSUME NEW u \in Tools, tool'[u].pc \in Restoring \cup {"copy"}
          PROVE  SourceIn(log', tool'[u].source, tool'[u].ws)
      BY <3>1, <3>4, <3>5, SourceStays, ZenonT(40) DEF DestinationInv
    <3>6. ASSUME NEW u \in Tools, tool'[u].pc \in Restoring PROVE Restores(u)'
      BY <3>1, <3>2, <3>3, <3>4, <3>6, ZenonT(40) DEF Restores
    <3>7. DestinationKept
      BY <3>1, <3>2, <3>3, Zenon DEF DestinationKept
    <3>8. FailedRestoreLeavesNothing'
      BY <3>4, Zenon DEF FailedRestoreLeavesNothing, Restoring
    <3> QED
      BY <1>0, <3>1, <3>3, <3>5, <3>6, <3>7, <3>8, Zenon DEF DestinationInv
  <2> QED
    BY <2>1, <2>2, Zenon
<1>5. CASE FinishCopy(t)
  <2>1. PICK copy :
          /\ tool[t].pc = "copying" /\ dest' = copy
          /\ copy = tool[t].opened \/ (copy = dir.entries["registry"] /\ copy # None)
          /\ Goto(t, "undo") \/ (Goto(t, "key") /\ copy = tool[t].source)
          /\ UNCHANGED <<destKeys, restored>>
    BY <1>5, Zenon DEF FinishCopy, AcceptsCopy
  <2>2. /\ tool'[t].pc \in {"key", "undo"} /\ tool'[t].source = tool[t].source
        /\ tool'[t].pc = "key" => dest' = tool[t].source
        /\ tool'[t].ws = tool[t].ws /\ \A u \in Tools : u # t => tool'[u] = tool[u]
    <3>1. CASE Goto(t, "undo")
      <4>1. /\ tool'[t].pc = "undo" /\ tool'[t].source = tool[t].source
            /\ tool'[t].ws = tool[t].ws /\ \A u \in Tools : u # t => tool'[u] = tool[u]
        BY <1>0, <3>1, GotoKeepsOthers, ZenonT(30)
      <4>2. "undo" # "key"
        OBVIOUS
      <4> QED
        BY <4>1, <4>2, Zenon
    <3>2. CASE Goto(t, "key") /\ copy = tool[t].source
      <4>1. /\ tool'[t].pc = "key" /\ tool'[t].source = tool[t].source
            /\ tool'[t].ws = tool[t].ws /\ \A u \in Tools : u # t => tool'[u] = tool[u]
        BY <1>0, <3>2, GotoKeepsOthers, ZenonT(30)
      <4> QED
        BY <2>1, <3>2, <4>1, Zenon
    <3> QED
      BY <2>1, <3>1, <3>2, Zenon
  <2>3. dest' # None /\ dest' # Foreign
    <3>1. CASE copy = tool[t].opened
      BY <2>1, <3>1, Zenon DEF DestinationInv, Restores, Restoring
    <3>2. CASE copy = dir.entries["registry"] /\ copy # None
      BY <2>1, <3>2, SnapshotNotForeign, Zenon DEF BackupInv
    <3> QED
      BY <2>1, <3>1, <3>2, Zenon
  <2> QED
    BY <1>0, <2>1, <2>2, <2>3, DestinationWorks, Zenon DEF Restoring
<1>6. ASSUME tool[t].pc = "key", destKeys[KeyOf(t)] = "none", Goto(t, "keying"),
             destKeys' = [destKeys EXCEPT ![KeyOf(t)] = "torn"],
             UNCHANGED <<dest, restored>>
      PROVE  DestinationInv' /\ DestinationKept
  <2> DEFINE k == KeyOf(t)
  <2>1. k \in Keys
    BY <1>1, <1>6, Zenon
  <2>2. destKeys[k] = "none" /\ destKeys' = [destKeys EXCEPT ![k] = "torn"]
    BY <1>6, ZenonT(40)
  <2>3. /\ tool'[t].pc = "keying" /\ tool'[t].source = tool[t].source
        /\ tool'[t].ws = tool[t].ws /\ \A u \in Tools : u # t => tool'[u] = tool[u]
    BY <1>0, <1>6, GotoKeepsOthers, ZenonT(40)
  <2>4. dest # None /\ dest # Foreign /\ dest = tool[t].source
    BY <1>6, Zenon DEF DestinationInv, Restores, Restoring
  <2> HIDE DEF k
  <2>5. /\ destKeys' \in [Keys -> {"none", "torn", "alien", "whole"}] /\ destKeys'[k] = "torn"
        /\ \A i \in Keys : destKeys[i] \in {"alien", "whole"} => destKeys'[i] = destKeys[i]
    BY <1>0, <2>1, <2>2, Zenon
  <2>6. destKeys'[KeyOf(t)] = "torn"
    BY <2>5, ZenonT(40) DEF k
  <2> QED
    BY <1>6, <2>3, <2>4, <2>5, <2>6, DestinationWorks, Zenon DEF Restoring

<1>7. ASSUME tool[t].pc \in {"key", "keying"}, Report(t), Exit(t), dest' = dest,
             destKeys' = [destKeys EXCEPT ![KeyOf(t)] = "whole"],
             destKeys[KeyOf(t)] \in {"torn", "whole"}
      PROVE  DestinationInv' /\ DestinationKept
  <2> DEFINE k == KeyOf(t)
  <2>1. k \in Keys
    BY <1>1, <1>7, Zenon
  <2>2. destKeys[k] \in {"torn", "whole"} /\ destKeys' = [destKeys EXCEPT ![k] = "whole"]
    BY <1>7, Zenon
  <2> HIDE DEF k
  <2>3. /\ destKeys' \in [Keys -> {"none", "torn", "alien", "whole"}] /\ destKeys'[k] = "whole"
        /\ \A i \in Keys : destKeys[i] \in {"alien", "whole"} => destKeys'[i] = destKeys[i]
    BY <1>0, <2>1, <2>2, Zenon
  <2>4. destKeys'[KeyOf(t)] = "whole"
    BY <2>3, ZenonT(40) DEF k
  <2>5. tool'[t].pc = "idle" /\ \A u \in Tools : u # t => tool'[u] = tool[u]
    BY <1>0, <1>7, ExitKeepsOthers, Zenon
  <2> QED
    BY <1>7, <2>3, <2>4, <2>5, DestinationReports, ZenonT(40)
<1>8. CASE RestoreAuthority(t)
  <2>1. /\ tool[t].pc = "key" /\ dest' = dest
        /\ \/ Goto(t, "undo") /\ UNCHANGED <<destKeys, restored>>
           \/ /\ destKeys[KeyOf(t)] = "none" /\ Goto(t, "keying") /\ restored' = restored
              /\ destKeys' = [destKeys EXCEPT ![KeyOf(t)] = "torn"]
           \/ /\ AcceptsExisting(destKeys[KeyOf(t)]) /\ Report(t) /\ Exit(t)
              /\ destKeys' = destKeys
    BY <1>8, Zenon DEF RestoreAuthority, KeyOf
  <2>2. AcceptsExisting(destKeys[KeyOf(t)]) /\ destKeys' = destKeys =>
          /\ destKeys[KeyOf(t)] = "whole"
          /\ destKeys' = [destKeys EXCEPT ![KeyOf(t)] = "whole"]
    BY <1>0, Zenon DEF AcceptsExisting
  <2> QED
    BY <1>2, <1>6, <1>7, <2>1, <2>2, Zenon DEF Restoring
<1>9. CASE WriteRestoredKey(t)
  <2>1. /\ tool[t].pc = "keying" /\ Report(t) /\ Exit(t) /\ dest' = dest
        /\ destKeys' = [destKeys EXCEPT ![KeyOf(t)] = "whole"]
    BY <1>9, Zenon DEF WriteRestoredKey, KeyOf
  <2>2. destKeys[KeyOf(t)] = "torn"
    BY <2>1, Zenon DEF DestinationInv, Restores, Restoring
  <2> QED
    BY <1>7, <2>1, <2>2, Zenon
<1>10. CASE RestoreFails(t)
  <2>1. /\ tool[t].pc \in {"copying", "key", "keying"} /\ Goto(t, "undo")
        /\ dest' = dest /\ restored' = restored
        /\ \/ destKeys' = destKeys
           \/ /\ tool[t].pc = "keying"
              /\ \E f \in {"none", "whole"} : destKeys' = [destKeys EXCEPT ![KeyOf(t)] = f]
    BY <1>10, Zenon DEF RestoreFails, KeyOf
  <2>2. CASE destKeys' = destKeys
    BY <1>2, <2>1, <2>2, ZenonT(40) DEF Restoring
  <2>3. CASE destKeys' # destKeys
    <3> DEFINE k == KeyOf(t)
    <3>1. PICK f \in {"none", "whole"} :
            tool[t].pc = "keying" /\ destKeys' = [destKeys EXCEPT ![k] = f]
      BY <2>1, <2>3, ZenonT(40)
    <3>2. k \in Keys /\ destKeys[k] = "torn"
      BY <1>1, <3>1, Zenon DEF DestinationInv, Restores, Restoring
    <3> HIDE DEF k
    <3>3. /\ destKeys' \in [Keys -> {"none", "torn", "alien", "whole"}]
          /\ \A i \in Keys : destKeys[i] \in {"alien", "whole"} => destKeys'[i] = destKeys[i]
      BY <1>0, <3>1, <3>2, ZenonT(40)
    <3>4. /\ tool'[t].pc = "undo" /\ tool'[t].source = tool[t].source
          /\ tool'[t].ws = tool[t].ws /\ \A u \in Tools : u # t => tool'[u] = tool[u]
      BY <1>0, <2>1, GotoKeepsOthers, ZenonT(40)
    <3>5. dest # None /\ dest # Foreign
      BY <2>1, ZenonT(40) DEF DestinationInv, Restores, Restoring
    <3> QED
      BY <2>1, <3>3, <3>4, <3>5, DestinationWorks, ZenonT(40) DEF Restoring
  <2> QED
    BY <2>2, <2>3, Zenon
<1>11. CASE RemoveRegistry(t)
  <2>1. tool[t].pc = "undo" /\ dest' = None /\ Exit(t) /\ UNCHANGED <<destKeys, restored>>
    BY <1>11, Zenon DEF RemoveRegistry
  <2>2. tool'[t].pc = "idle" /\ \A u \in Tools : u # t => tool'[u] = tool[u]
    BY <1>0, <2>1, ExitKeepsOthers, ZenonT(40)
  <2>3. dest' # Foreign
    BY <2>1, Zenon DEF None, Foreign
  <2> QED
    BY <1>0, <2>1, <2>2, <2>3, DestinationWorks, ZenonT(40) DEF Restoring
<1> QED
  BY <1>3, <1>4, <1>5, <1>8, <1>9, <1>10, <1>11, Zenon DEF RestoreTo

\* Every step keeps the destination good and what it must not touch.
LEMMA DestinationStep ==
    ASSUME KeysInv, BackupInv, DestinationInv, [Next]_vars
    PROVE  DestinationInv' /\ DestinationKept
<1>0. ToolShape /\ Kept
  BY KeysStep, Zenon DEF KeysInv
<1>1. ASSUME UNCHANGED <<dest, destKeys, restored, tool, abandoned>> PROVE DestinationInv' /\ DestinationKept
  BY <1>0, <1>1, DestinationQuiet, Zenon
<1>2. CASE UNCHANGED vars \/ UNCHANGED fileVars
  BY <1>1, <1>2, Zenon DEF vars, fileVars
<1>3. ASSUME NEW p \in Servers, ServerCommits(p) PROVE DestinationInv' /\ DestinationKept
  BY <1>1, <1>3, Zenon DEF ServerCommits
<1>4. ASSUME NEW k \in Keys, RetireKey(k) PROVE DestinationInv' /\ DestinationKept
  BY <1>1, <1>4, Zenon DEF RetireKey
<1>5. ASSUME NEW t \in Tools, UNCHANGED <<dest, destKeys, restored>>, abandoned => abandoned',
             tool[t].pc \notin Restoring \/ abandoned', tool'[t].pc \notin Restoring \cup {"copy"},
             \A u \in Tools : u # t => tool'[u] = tool[u]
      PROVE  DestinationInv' /\ DestinationKept
  BY <1>0, <1>5, DestinationQuiet, ZenonT(40)
<1>6. ASSUME NEW t \in Tools, Administer(t) PROVE DestinationInv' /\ DestinationKept
  <2>1. UNCHANGED <<dest, destKeys, restored, abandoned>>
    BY <1>6, Zenon DEF Administer, ListWorkspaces, PrepareAuthorityRotation, GenerateAuthority,
       WriteAuthority, CreateWorkspace, GenerateFails, LoadRotation, RotateAuthority
  <2>2. tool[t] = Idle \/ tool[t].pc \in Generating \cup {"generate", "prepare", "rotate"}
    BY <1>6, Zenon DEF Administer, ListWorkspaces, PrepareAuthorityRotation, GenerateAuthority,
       WriteAuthority, CreateWorkspace, GenerateFails, LoadRotation, RotateAuthority, Starts, Generating
  <2>3. tool[t].pc \notin Restoring
    BY <2>2, SMTT(40) DEF Idle, Generating, Restoring
  <2> QED
    BY <1>0, <1>5, <1>6, <2>1, <2>3, AdministerMoves, Zenon DEF Restoring, Generating
<1>7. ASSUME NEW t \in Tools, Backup(t) PROVE DestinationInv' /\ DestinationKept
  <2>1. UNCHANGED <<dest, destKeys, restored, abandoned>>
    BY <1>7, Zenon DEF Backup, BackupWorkspace, CreateEntry, WriteEntry, InspectSnapshot,
       VerifyCreated, BackupFails, RemoveAll
  <2>2. tool'[t].pc \in Backing \cup {"idle"} /\ \A u \in Tools : u # t => tool'[u] = tool[u]
    BY <1>0, <1>7, BackupMoves, Zenon
  <2>3. tool[t] = Idle \/ tool[t].pc \in {"create", "write", "inspect", "verify", "cleanup"}
    BY <1>7, Zenon DEF Backup, BackupWorkspace, CreateEntry, WriteEntry, InspectSnapshot,
       VerifyCreated, BackupFails, RemoveAll, Starts
  <2>4. tool[t].pc \notin Restoring
    BY <2>3, SMTT(40) DEF Idle, Restoring
  <2> QED
    BY <1>5, <2>1, <2>2, <2>4, Zenon DEF Restoring, Backing
<1>8. ASSUME NEW t \in Tools, ToolDies(t) PROVE DestinationInv' /\ DestinationKept
  BY <1>0, <1>5, <1>8, ExitKeepsOthers, Zenon DEF ToolDies, Restoring
<1>9. ASSUME NEW t \in Tools, RestoreTo(t) PROVE DestinationInv' /\ DestinationKept
  BY <1>0, <1>9, RestoreSteps, Zenon
<1> QED
  BY <1>2, <1>3, <1>4, <1>6, <1>7, <1>8, <1>9, ZenonT(40) DEF Next

\* A backup that was reported stays as it is: no later command works on it.
LEMMA ReportedBackupStays ==
    ASSUME BackupInv, [Next]_vars, made
    PROVE  dir' = dir
<1>1. dir.exists /\ \A t \in Tools : tool[t].pc \notin Backing
  BY Zenon DEF BackupInv
<1>2. CASE UNCHANGED vars \/ UNCHANGED fileVars
  BY <1>2, Zenon DEF vars, fileVars
<1>3. ASSUME NEW t \in Tools, Backup(t) PROVE dir' = dir
  <2>1. CASE BackupWorkspace(t)
    BY <1>1, <2>1, Zenon DEF BackupWorkspace, Mkdir
  <2>2. CASE ~BackupWorkspace(t)
    <3>1. tool[t].pc \in {"create", "write", "inspect", "verify", "cleanup"}
      BY <1>3, <2>2, Zenon DEF Backup, CreateEntry, WriteEntry, InspectSnapshot,
         VerifyCreated, BackupFails, RemoveAll
    <3> QED
      BY <1>1, <3>1, Zenon DEF Backing
  <2> QED
    BY <2>1, <2>2, Zenon
<1>4. ASSUME NEW t \in Tools, Administer(t) \/ RestoreTo(t) \/ ToolDies(t) PROVE dir' = dir
  BY <1>4, Zenon DEF Administer, ListWorkspaces, PrepareAuthorityRotation, GenerateAuthority,
     WriteAuthority, CreateWorkspace, GenerateFails, LoadRotation, RotateAuthority, RestoreTo, BeginRestore,
     OpenCopy, FinishCopy, RestoreAuthority, WriteRestoredKey, RestoreFails, RemoveRegistry,
     ToolDies
<1>5. ASSUME NEW p \in Servers, ServerCommits(p) PROVE dir' = dir
  BY <1>5, Zenon DEF ServerCommits
<1>6. ASSUME NEW k \in Keys, RetireKey(k) PROVE dir' = dir
  BY <1>6, Zenon DEF RetireKey
<1> QED
  BY <1>2, <1>3, <1>4, <1>5, <1>6, Zenon DEF Next

\* At the start nothing was restored, and the destination may hold anything.
LEMMA InitDestination == Init => DestinationInv
<1> SUFFICES ASSUME Init PROVE DestinationInv
  BY Zenon
<1>1. PICK f \in {"none", "alien", "whole"} :
        destKeys = [k \in Keys |-> IF k = 1 THEN f ELSE "none"]
  BY Zenon DEF Init
<1>2. destKeys \in [Keys -> {"none", "torn", "alien", "whole"}]
  BY <1>1, Zenon
<1>3. restored = None
  BY ZenonT(40) DEF Init
<1>4. \A t \in Tools : tool[t].pc \notin Restoring \cup {"copy"}
  BY ZenonT(40) DEF Init, Idle, Restoring
<1>5. FailedRestoreLeavesNothing
  BY DEF Init, FailedRestoreLeavesNothing, None, Foreign
<1> QED
  BY <1>2, <1>3, <1>4, <1>5, Zenon DEF DestinationInv

\* The commands keep the key directory, the backup and the destination together.
LEMMA RestoresInvariant == Spec => [](KeysInv /\ BackupInv /\ DestinationInv)
<1>1. KeysInv /\ BackupInv /\ DestinationInv /\ [Next]_vars => DestinationInv'
  BY DestinationStep, Zenon
<1> QED
  BY <1>1, InitDestination, FilesInvariant, PTL DEF Spec

\* For any number of commands, commits and keys: a restore that was reported has
\* left, and still has, a registry of the current schema as of one commit together
\* with the whole key of its workspace, although backups are made and removed and
\* other restores run, fail and die meanwhile (RestoreTo, RestoreAuthorityBackup).
THEOREM RestoreIsAlwaysWhole == Spec => []RestoreIsWhole
<1>1. DestinationInv => RestoreIsWhole
  BY ZenonT(40) DEF DestinationInv, Reported, RestoreIsWhole
<1> QED
  BY <1>1, RestoresInvariant, PTL

\* However many commands restore to one destination, and wherever one of them fails,
\* a restore that did not report success and was not killed leaves no registry.
THEOREM FailedRestoreIsUndone == Spec => []FailedRestoreLeavesNothing
<1>1. DestinationInv => FailedRestoreLeavesNothing
  BY ZenonT(40) DEF DestinationInv
<1> QED
  BY <1>1, RestoresInvariant, PTL

\* For any number of commands: none of them, failing or dying anywhere, replaces
\* or removes a registry or a key it found at the destination, a reported restore
\* or a reported backup (Create's and copyExclusive's exclusive creates, and the
\* deferred removals, which run only for what the command itself created).
THEOREM ExistingFilesStay == Spec => ExistingFilesAreKept
<1> DEFINE Stay == DestinationKept /\ (made => dir' = dir)
<1>1. KeysInv /\ BackupInv /\ DestinationInv /\ [Next]_vars => Stay
  BY DestinationStep, ReportedBackupStays, Zenon
<1>2. Stay => [/\ dest = Foreign => dest' = Foreign
               /\ restored # None => dest' = dest
               /\ \A k \in Keys : destKeys[k] \in {"alien", "whole"} =>
                     destKeys'[k] = destKeys[k]
               /\ made => dir' = dir]_<<dest, destKeys, restored, dir, made>>
  BY Zenon DEF DestinationKept
<1> HIDE DEF Stay
<1> QED
  BY <1>1, <1>2, RestoresInvariant, PTL DEF Spec, ExistingFilesAreKept

=============================================================================
