-------------------------- MODULE WorkspaceBackup --------------------------
(***************************************************************************)
(* The files of a workspace: the registry, the authority key directory,    *)
(* the backup directory and the destination of a restore                   *)
(* (cmd/admin/main.go, internal/workspacebackup/backup.go,                 *)
(* internal/admission/backup.go, internal/membership/authority_backup.go   *)
(* and authority_key.go).                                                  *)
(*                                                                         *)
(* The admin commands are processes of their own.  init-workspace,         *)
(* prepare- and rotate-authority and backup-workspace open the registry    *)
(* first; restore-workspace-backup does not.  A file is created empty and  *)
(* written in a second step, so a command that stops leaves it torn.  A    *)
(* failed command undoes what it did, step by step; one that dies does     *)
(* not.                                                                    *)
(***************************************************************************)
EXTENDS Migrations

CONSTANTS MaxKeys, MaxCommits

ASSUME FilesAssumption == MaxKeys \in Nat \ {0} /\ MaxCommits \in Nat \ {0}

VARIABLES
    log,        \* log[i]: the authority key of each workspace after commit i
    keyFiles,   \* the live authority key directory
    dir,        \* the backup directory
    dest,       \* the registry file at the destination of a restore
    destKeys,   \* the authority key directory there
    tool,       \* the admin commands
    made,       \* a backup-workspace has reported success
    restored,   \* what a restore-workspace-backup has reported
    abandoned   \* a restore died after it created the registry file

fileVars == <<log, keyFiles, dir, dest, destKeys, tool, made, restored, abandoned>>
vars == <<migrationVars, fileVars>>

Keys == 1..MaxKeys

\* The key of a workspace older than schema version 3, authority_public_key NULL.
NullKey == 0

None == [kind |-> "none"]
Torn == [kind |-> "torn"]
Foreign == [kind |-> "foreign"]
Whole(value) == [kind |-> "whole", value |-> value]

\* In the order Create writes them; the authority directory holds the middle two.
Entries == <<"registry", "key", "authorityManifest", "manifest">>
EntryNames == Range(Entries)

NoEntries == [e \in EntryNames |-> None]
NoDirectory == [exists |-> FALSE, entries |-> NoEntries]

\* The output path of backup-workspace exists and is no backup.
Occupied == [exists |-> TRUE, entries |-> NoEntries]

Snapshot(version, keys, stamp) == [version |-> version, keys |-> keys, stamp |-> stamp]

\* A complete backup made by the release before this one.
OlderBackup ==
    LET snapshot == Snapshot(Current - 1, <<1>>, 0)
    IN  [exists |-> TRUE,
         entries |-> [registry |-> Whole(snapshot), key |-> Whole(1),
                      authorityManifest |-> Whole([ws |-> 1, key |-> 1]),
                      manifest |-> Whole([ws |-> 1, registry |-> Whole(snapshot), key |-> 1])]]

\* What a command works on.  source is what it read first: the current authority
\* of a rotation, the verified registry of a restore; opened is the file it copies.
Idle == [pc |-> "idle", ws |-> 0, key |-> 0, file |-> 0, source |-> None, opened |-> None]

Workspaces == log[Len(log)]

Init ==
    /\ MigrationsInit
    /\ log \in {<<keys>> : keys \in {<<>>, <<NullKey>>, <<1>>}}
    /\ \A d \in Devices : registry.devices[d].state # "none" => Workspaces # <<>>
    /\ registry.rosters # <<>> => Workspaces = <<1>>
    /\ Workspaces = <<1>> => Version(registry) >= 3
    /\ Version(registry) = 0 => Workspaces = <<>>
    /\ keyFiles = [k \in Keys |-> IF <<k>> = Workspaces THEN "whole" ELSE "none"]
    /\ dir \in {NoDirectory, Occupied} \cup (IF Workspaces = <<1>> THEN {OlderBackup} ELSE {})
    /\ dest \in {None, Foreign}
    /\ destKeys \in {[k \in Keys |-> IF k = 1 THEN f ELSE "none"] : f \in {"none", "alien", "whole"}}
    /\ tool = [t \in Tools |-> Idle]
    /\ made = FALSE /\ restored = None /\ abandoned = FALSE

-----------------------------------------------------------------------------
(* Control of a command.                                                   *)

Goto(t, pc) == tool' = [tool EXCEPT ![t].pc = pc]

\* The same, and what the command works on.
Become(t, pc, ws, key, file) ==
    tool' = [tool EXCEPT ![t] = [pc |-> pc, ws |-> ws, key |-> key, file |-> file,
                                 source |-> tool[t].source, opened |-> tool[t].opened]]

\* The process exits, successfully or through fatal, and the store closes.
Exit(t) ==
    /\ tool' = [tool EXCEPT ![t] = Idle]
    /\ opener' = [opener EXCEPT ![t] = Closed]

Starts(t) == opener[t].pc = "open" /\ tool[t] = Idle

-----------------------------------------------------------------------------
(* init-workspace, prepare-authority-rotation and rotate-authority.        *)

\* CreateWorkspace, RotateWorkspaceAuthority and every other write of the store.
Commit(keys) == Len(log) < MaxCommits /\ log' = Append(log, keys)

\* initializeWorkspace 99-109: a registry with a workspace is left alone.
ListWorkspaces(t) ==
    /\ Starts(t)
    /\ IF Workspaces # <<>> THEN Exit(t)
       ELSE Goto(t, "generate") /\ UNCHANGED opener
    /\ UNCHANGED <<registry, faults, log, keyFiles, dir, dest, destKeys, made, restored, abandoned>>

PrepareAuthorityRotation(t) ==
    /\ Starts(t)
    /\ Goto(t, "prepare")
    /\ UNCHANGED <<migrationVars, log, keyFiles, dir, dest, destKeys, made, restored, abandoned>>

\* A key no file, workspace or backup has had.
Fresh(k) ==
    /\ keyFiles[k] = "none"
    /\ \A i \in DOMAIN log : k \notin Range(log[i])

\* The workspace is inserted before the key file is written.
MutInsertFirst(t) ==
    \E k \in Keys :
        /\ tool[t].pc \in {"generate", "prepare"} /\ Fresh(k)
        /\ keyFiles' = [keyFiles EXCEPT ![k] = "torn"]
        /\ Become(t, IF tool[t].pc = "generate" THEN "insert" ELSE "preparing", 0, k, 0)
        /\ UNCHANGED <<migrationVars, log, dir, dest, destKeys, made, restored, abandoned>>

\* GenerateAuthority up to the exclusive create.
GenerateAuthority(t) ==
    \E k \in Keys :
        /\ tool[t].pc \in {"generate", "prepare"} /\ Fresh(k)
        /\ keyFiles' = [keyFiles EXCEPT ![k] = "torn"]
        /\ Become(t, IF tool[t].pc = "generate" THEN "generating" ELSE "preparing", 0, k, 0)
        /\ UNCHANGED <<migrationVars, log, dir, dest, destKeys, made, restored, abandoned>>

\* GenerateAuthority from the write: the key is whole before it is returned.
WriteAuthority(t) ==
    /\ tool[t].pc \in {"generating", "preparing"}
    /\ keyFiles' = [keyFiles EXCEPT ![tool[t].key] = "whole"]
    /\ IF tool[t].pc = "generating" THEN Goto(t, "insert") /\ UNCHANGED opener ELSE Exit(t)
    /\ UNCHANGED <<registry, faults, log, dir, dest, destKeys, made, restored, abandoned>>

CreateWorkspace(t) ==
    /\ tool[t].pc = "insert"
    /\ Commit(Append(Workspaces, tool[t].key))
    /\ Exit(t)
    /\ UNCHANGED <<registry, faults, keyFiles, dir, dest, destKeys, made, restored, abandoned>>

Generating == {"generating", "preparing", "insert"}

\* The write or the insert fails: the file this command created is removed.
GenerateFails(t) ==
    /\ tool[t].pc \in Generating
    /\ faults < MaxFaults
    /\ faults' = faults + 1
    /\ keyFiles' = [keyFiles EXCEPT ![tool[t].key] = "none"]
    /\ Exit(t)
    /\ UNCHANGED <<registry, log, dir, dest, destKeys, made, restored, abandoned>>

\* rotateAuthority 226-243: the new key file is loaded, then the file of the
\* current authority.  Any key file will do, that of a superseded authority too,
\* but the operator passes none that a command is still generating.  A rotation
\* that is completed already, or to the current key, ends here.
LoadRotation(t) ==
    \E w \in DOMAIN Workspaces, k \in Keys :
        /\ Starts(t)
        /\ \A u \in Tools : tool[u].pc \in Generating => tool[u].key # k
        /\ IF /\ keyFiles[k] = "whole" /\ k # Workspaces[w]
              /\ Workspaces[w] # NullKey /\ keyFiles[Workspaces[w]] = "whole"
           THEN /\ tool' = [tool EXCEPT ![t] = [pc |-> "rotate", ws |-> w, key |-> k, file |-> 0,
                                                source |-> Whole(Workspaces[w]), opened |-> None]]
                /\ UNCHANGED opener
           ELSE Exit(t)
        /\ UNCHANGED <<registry, faults, log, keyFiles, dir, dest, destKeys, made, restored, abandoned>>

\* RotateWorkspaceAuthority: one transaction (module Registry has its steps) moves
\* the workspace to the new key if its authority is still the one that was loaded.
RotateAuthority(t) ==
    /\ tool[t].pc = "rotate"
    /\ IF Workspaces[tool[t].ws] = tool[t].source.value
       THEN Commit([Workspaces EXCEPT ![tool[t].ws] = tool[t].key])
       ELSE UNCHANGED log
    /\ Exit(t)
    /\ UNCHANGED <<registry, faults, keyFiles, dir, dest, destKeys, made, restored, abandoned>>

\* The operator deletes the file of a key that a rotation has replaced and no
\* rotation is about to bring back.
RetireKey(k) ==
    /\ keyFiles[k] = "whole"
    /\ k \notin Range(Workspaces) /\ \E i \in DOMAIN log : k \in Range(log[i])
    /\ \A t \in Tools : tool[t].pc = "rotate" => tool[t].key # k
    /\ keyFiles' = [keyFiles EXCEPT ![k] = "none"]
    /\ UNCHANGED <<migrationVars, log, dir, dest, destKeys, tool, made, restored, abandoned>>

\* Any other transaction of a running server.
ServerCommits(p) ==
    /\ opener[p].pc = "open" /\ Workspaces # <<>>
    /\ Commit(Workspaces)
    /\ UNCHANGED <<migrationVars, keyFiles, dir, dest, destKeys, tool, made, restored, abandoned>>

-----------------------------------------------------------------------------
(* backup-workspace: Create.                                               *)

\* InspectRegistryBackup: a whole snapshot of the current schema that has the
\* workspace, with an authority.
Inspects(file, w) ==
    /\ file.kind = "whole"
    /\ file.value.version = Current
    /\ w \in DOMAIN file.value.keys
    /\ file.value.keys[w] # NullKey

\* VerifyAuthorityBackup, against the key read from the registry.
VerifiesAuthority(w, k) ==
    /\ dir.entries["authorityManifest"] = Whole([ws |-> w, key |-> k])
    /\ dir.entries["key"] = Whole(k)

\* Verify: nothing is trusted that the snapshot itself does not say.
Verifies(w) ==
    LET file == dir.entries["registry"]
    IN  /\ dir.exists
        /\ dir.entries["manifest"].kind = "whole"
        /\ Inspects(file, w)
        /\ dir.entries["manifest"].value =
              [ws |-> w, registry |-> file, key |-> file.value.keys[w]]
        /\ VerifiesAuthority(w, file.value.keys[w])

\* Create 62-69: the directory is made by exactly one command.
Mkdir(t, w) ==
    IF dir.exists THEN Exit(t) /\ UNCHANGED dir
    ELSE /\ dir' = [dir EXCEPT !.exists = TRUE]
         /\ Become(t, "create", w, 0, 1)
         /\ UNCHANGED opener

BackupWorkspace(t) ==
    \E w \in DOMAIN Workspaces :
        /\ Starts(t)
        /\ Mkdir(t, w)
        /\ UNCHANGED <<registry, faults, log, keyFiles, dest, destKeys, made, restored, abandoned>>

CreateEntry(t) ==
    /\ tool[t].pc = "create"
    /\ dir' = [dir EXCEPT !.entries[Entries[tool[t].file]] = Torn]
    /\ Goto(t, "write")
    /\ UNCHANGED <<migrationVars, log, keyFiles, dest, destKeys, made, restored, abandoned>>

\* Pages copied while the registry is written: the keys of one commit under the
\* counters of the next.
MutPageByPage(w, k, entry) ==
    CASE entry = "registry" -> Snapshot(Version(registry), log[1], Len(log))
      [] entry = "key" -> k
      [] entry = "authorityManifest" -> [ws |-> w, key |-> k]
      [] entry = "manifest" -> [ws |-> w, registry |-> dir.entries["registry"], key |-> k]

\* What each entry holds.  backup.Step(-1) copies the registry as of one commit.
Content(w, k, entry) ==
    CASE entry = "registry" -> Snapshot(Version(registry), Workspaces, Len(log))
      [] entry = "key" -> k
      [] entry = "authorityManifest" -> [ws |-> w, key |-> k]
      [] entry = "manifest" -> [ws |-> w, registry |-> dir.entries["registry"], key |-> k]

WriteEntry(t) ==
    LET entry == Entries[tool[t].file]
    IN  /\ tool[t].pc = "write"
        /\ dir' = [dir EXCEPT !.entries[entry] =
                     Whole(Content(tool[t].ws, tool[t].key, entry))]
        /\ CASE entry = "registry" -> Goto(t, "inspect")
             [] entry = "manifest" -> Goto(t, "verify")
             [] OTHER -> Become(t, "create", tool[t].ws, tool[t].key, tool[t].file + 1)
        /\ UNCHANGED <<migrationVars, log, keyFiles, dest, destKeys, made, restored, abandoned>>

\* Create 75-88: the key is the one the snapshot names, whatever the registry
\* says by now, and its file is loaded from the live key directory.
InspectSnapshot(t) ==
    LET file == dir.entries["registry"]
        k == file.value.keys[tool[t].ws]
    IN  /\ tool[t].pc = "inspect"
        /\ IF Inspects(file, tool[t].ws) /\ keyFiles[k] = "whole"
           THEN Become(t, "create", tool[t].ws, k, 2)
           ELSE Goto(t, "cleanup")
        /\ UNCHANGED <<migrationVars, log, keyFiles, dir, dest, destKeys, made, restored, abandoned>>

VerifyCreated(t) ==
    /\ tool[t].pc = "verify"
    /\ IF Verifies(tool[t].ws)
       THEN made' = TRUE /\ Exit(t)
       ELSE Goto(t, "cleanup") /\ UNCHANGED <<made, opener>>
    /\ UNCHANGED <<registry, faults, log, keyFiles, dir, dest, destKeys, restored, abandoned>>

BackupFails(t) ==
    /\ tool[t].pc \in {"create", "write", "inspect", "verify"}
    /\ faults < MaxFaults
    /\ faults' = faults + 1
    /\ Goto(t, "cleanup")
    /\ UNCHANGED <<registry, opener, log, keyFiles, dir, dest, destKeys, made, restored, abandoned>>

\* os.RemoveAll removes the entries one by one, then the directory.
RemoveAll(t) ==
    LET present == {e \in EntryNames : dir.entries[e] # None}
    IN  /\ tool[t].pc = "cleanup"
        /\ \/ /\ \E e \in present : dir' = [dir EXCEPT !.entries[e] = None]
              /\ UNCHANGED <<tool, opener>>
           \/ /\ present = {}
              /\ dir' = NoDirectory
              /\ Exit(t)
        /\ UNCHANGED <<registry, faults, log, keyFiles, dest, destKeys, made, restored, abandoned>>

-----------------------------------------------------------------------------
(* restore-workspace-backup: RestoreTo.                                    *)

BeginRestore(t) ==
    \E w \in 1..MaxKeys :
        /\ opener[t].pc = "closed" /\ tool[t] = Idle
        /\ Verifies(w)
        /\ tool' = [tool EXCEPT ![t] = [pc |-> "copy", ws |-> w, key |-> 0, file |-> 0,
                                        source |-> dir.entries["registry"], opened |-> None]]
        /\ UNCHANGED <<migrationVars, log, keyFiles, dir, dest, destKeys, made, restored, abandoned>>

\* copyExclusive: opens the source, creates the destination or leaves it alone.
OpenCopy(t) ==
    /\ tool[t].pc = "copy"
    /\ IF dir.entries["registry"] = None \/ dest # None
       THEN Exit(t) /\ UNCHANGED dest
       ELSE /\ dest' = Torn
            /\ tool' = [tool EXCEPT ![t] = [@ EXCEPT !.pc = "copying",
                                                     !.opened = dir.entries["registry"]]]
            /\ UNCHANGED opener
    /\ UNCHANGED <<registry, faults, log, keyFiles, dir, destKeys, made, restored, abandoned>>

\* The inspection alone decides.
MutNoDigest(copy, source, w) == Inspects(copy, w)

\* RestoreTo 148-158: the digest of the verified registry, then the inspection.
AcceptsCopy(copy, source, w) == copy = source /\ Inspects(copy, w)

\* The open file outlives the removal of its name; one that was still being
\* written is read as far as it has come.
FinishCopy(t) ==
    \E copy \in {tool[t].opened, dir.entries["registry"]} :
        /\ tool[t].pc = "copying"
        /\ copy = tool[t].opened \/ (tool[t].opened = Torn /\ copy # None)
        /\ dest' = copy
        /\ Goto(t, IF AcceptsCopy(copy, tool[t].source, tool[t].ws) THEN "key" ELSE "undo")
        /\ UNCHANGED <<migrationVars, log, keyFiles, dir, destKeys, made, restored, abandoned>>

\* Only the exact key at the key's path is taken for a completed restore.
AcceptsExisting(file) == file = "whole"

Report(t) == restored' = [kind |-> "whole", value |-> tool[t].source.value, ws |-> tool[t].ws]

\* RestoreAuthorityBackup: verifies the source again, then creates the key file.
RestoreAuthority(t) ==
    LET k == tool[t].source.value.keys[tool[t].ws]
    IN  /\ tool[t].pc = "key"
        /\ \/ /\ ~VerifiesAuthority(tool[t].ws, k)
              /\ Goto(t, "undo")
              /\ UNCHANGED <<opener, destKeys, restored>>
           \/ /\ VerifiesAuthority(tool[t].ws, k) /\ destKeys[k] = "none"
              /\ destKeys' = [destKeys EXCEPT ![k] = "torn"]
              /\ Goto(t, "keying")
              /\ UNCHANGED <<opener, restored>>
           \/ /\ VerifiesAuthority(tool[t].ws, k) /\ destKeys[k] # "none"
              /\ IF AcceptsExisting(destKeys[k]) THEN Report(t) /\ Exit(t)
                 ELSE Goto(t, "undo") /\ UNCHANGED <<opener, restored>>
              /\ UNCHANGED destKeys
        /\ UNCHANGED <<registry, faults, log, keyFiles, dir, dest, made, abandoned>>

WriteRestoredKey(t) ==
    LET k == tool[t].source.value.keys[tool[t].ws]
    IN  /\ tool[t].pc = "keying"
        /\ destKeys' = [destKeys EXCEPT ![k] = "whole"]
        /\ Report(t) /\ Exit(t)
        /\ UNCHANGED <<registry, faults, log, keyFiles, dir, dest, made, abandoned>>

\* A failed write removes the key file it created; a failed sync or check after
\* the write leaves the key whole.  Either way the registry is removed next.
RestoreFails(t) ==
    LET k == tool[t].source.value.keys[tool[t].ws]
    IN  /\ tool[t].pc \in {"copying", "key", "keying"}
        /\ faults < MaxFaults
        /\ faults' = faults + 1
        /\ Goto(t, "undo")
        /\ IF tool[t].pc = "keying"
           THEN \E f \in {"none", "whole"} : destKeys' = [destKeys EXCEPT ![k] = f]
           ELSE UNCHANGED destKeys
        /\ UNCHANGED <<registry, opener, log, keyFiles, dir, dest, made, restored, abandoned>>

\* The deferred removal is missing.
MutKeepsRegistry(t) ==
    /\ tool[t].pc = "undo"
    /\ Exit(t)
    /\ UNCHANGED <<registry, faults, log, keyFiles, dir, dest, destKeys, made, restored, abandoned>>

RemoveRegistry(t) ==
    /\ tool[t].pc = "undo"
    /\ dest' = None
    /\ Exit(t)
    /\ UNCHANGED <<registry, faults, log, keyFiles, dir, destKeys, made, restored, abandoned>>

-----------------------------------------------------------------------------

Restoring == {"copying", "key", "keying", "undo"}

\* The process is killed: nothing deferred runs.
ToolDies(t) ==
    /\ tool[t] # Idle
    /\ faults < MaxFaults
    /\ faults' = faults + 1
    /\ abandoned' = (abandoned \/ tool[t].pc \in Restoring)
    /\ Exit(t)
    /\ UNCHANGED <<registry, log, keyFiles, dir, dest, destKeys, made, restored>>

Administer(t) ==
    \/ ListWorkspaces(t) \/ PrepareAuthorityRotation(t) \/ GenerateAuthority(t)
    \/ WriteAuthority(t) \/ CreateWorkspace(t) \/ GenerateFails(t)
    \/ LoadRotation(t) \/ RotateAuthority(t)

Backup(t) ==
    \/ BackupWorkspace(t) \/ CreateEntry(t) \/ WriteEntry(t) \/ InspectSnapshot(t)
    \/ VerifyCreated(t) \/ BackupFails(t) \/ RemoveAll(t)

RestoreTo(t) ==
    \/ BeginRestore(t) \/ OpenCopy(t) \/ FinishCopy(t) \/ RestoreAuthority(t)
    \/ WriteRestoredKey(t) \/ RestoreFails(t) \/ RemoveRegistry(t)

\* A tool that has begun a command does not open the registry a second time.
MayOpen(p) == p \in Servers \/ tool[p] = Idle

Next ==
    \/ \E p \in {q \in Openers : MayOpen(q)} : (OpenStep(p) \/ OpenerDies(p)) /\ UNCHANGED fileVars
    \/ \E p \in Servers : ServerCommits(p)
    \/ \E k \in Keys : RetireKey(k)
    \/ \E t \in Tools : Administer(t) \/ Backup(t) \/ RestoreTo(t) \/ ToolDies(t)

\* The deployment starts a stopped server again (deploy/compose/compose.yaml,
\* restart: unless-stopped), and a server that is opening keeps running.
Spec ==
    /\ Init /\ [][Next]_vars
    /\ \A p \in Servers : WF_vars(OpenStep(p) /\ UNCHANGED fileVars)

-----------------------------------------------------------------------------
(* Properties.                                                             *)

\* Every file holds nothing, a part of what was to be written, or a value of its
\* kind, and a directory that does not exist has no entries.
TypeOK ==
    /\ opener \in [Openers -> [pc : {"closed", "migrating", "open", "refused"}, next : 0..Current]]
    /\ registry.devices \in [Devices -> [state : States, revokedAt : 0..2,
                                         certified : BOOLEAN, epoch : 0..MaxEpoch]]
    /\ faults \in 0..MaxFaults
    /\ Len(log) \in 1..MaxCommits
    /\ \A i \in DOMAIN log : Range(log[i]) \subseteq Keys \cup {NullKey}
    /\ keyFiles \in [Keys -> {"none", "torn", "whole"}]
    /\ ~dir.exists => dir = NoDirectory
    /\ destKeys \in [Keys -> {"none", "torn", "alien", "whole"}]
    /\ \A t \in Tools : tool[t].pc \in Restoring => dest.kind \in {"torn", "whole"}
    /\ made \in BOOLEAN /\ abandoned \in BOOLEAN

\* What Verify accepts, at any moment and whoever else writes the directory, is the
\* registry as of one commit together with the key that commit names, although the
\* workspace may have rotated since; and a backup that was reported stays accepted.
BackupIsOneCommit ==
    /\ \A w \in 1..MaxKeys : Verifies(w) =>
          LET snapshot == dir.entries["registry"].value
          IN  /\ snapshot.stamp \in DOMAIN log
              /\ snapshot.keys = log[snapshot.stamp]
              /\ dir.entries["key"] = Whole(log[snapshot.stamp][w])
    /\ made => \E w \in DOMAIN Workspaces : Verifies(w)

\* A reported restore has left a registry of the current schema as of one commit,
\* and the key of the workspace in that registry, whole.
RestoreIsWhole ==
    restored # None =>
        /\ dest = Whole(restored.value)
        /\ restored.value.version = Current
        /\ restored.value.keys = log[restored.value.stamp]
        /\ destKeys[restored.value.keys[restored.ws]] = "whole"

\* A restore that failed has left no registry at the destination: one is there
\* only if it was before, was reported, is being written, or its command died.
FailedRestoreLeavesNothing ==
    dest.kind \in {"torn", "whole"} =>
        restored # None \/ abandoned \/ \E t \in Tools : tool[t].pc \in Restoring

\* No command replaces or removes a registry or a key that was at the destination
\* before it, a restore that was reported, or a backup that was reported.
ExistingFilesAreKept ==
    [][/\ dest = Foreign => dest' = Foreign
       /\ restored # None => dest' = dest
       /\ \A k \in Keys : destKeys[k] \in {"alien", "whole"} => destKeys'[k] = destKeys[k]
       /\ made => dir' = dir]_<<dest, destKeys, restored, dir, made>>

\* The registry never names an authority whose key file is not whole, whichever
\* commands fail or die between the key directory and the registry.
WorkspaceHasItsKey ==
    \A w \in DOMAIN Workspaces :
        Workspaces[w] # NullKey => keyFiles[Workspaces[w]] = "whole"

\* init-workspace is "where the product decision that there is exactly one is
\* enforced" (cmd/admin/main.go).  It does not hold: two commands that both list no
\* workspace each create one.
OneWorkspace == Len(Workspaces) <= 1
=============================================================================
