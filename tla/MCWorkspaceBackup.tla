------------------------- MODULE MCWorkspaceBackup -------------------------
(***************************************************************************)
(* One server and two admin commands.  The initial states are split: a     *)
(* registry that holds a device is opened where the backup directory and   *)
(* the restore destination are taken, and the files are worked on with a   *)
(* registry of the last two releases that holds none, with no backup made  *)
(* yet.  No command reads a device, so the two halves meet only in the     *)
(* version.  A destination that is taken is combined with a workspace of   *)
(* the current release.                                                    *)
(***************************************************************************)
EXTENDS WorkspaceBackup

CONSTANTS relay, t1, t2, d1

OneServer == {relay}
TwoTools == {t1, t2}
OneDevice == {d1}

HoldsNone == \A d \in Devices : registry.devices[d].state = "none"

RecentWithoutDevice ==
    /\ HoldsNone /\ registry.rosters = <<>>
    /\ Version(registry) \in {Current - 1, Current}
    /\ ~dir.exists
    /\ dest = Foreign \/ destKeys # [k \in Keys |-> "none"]
           => Version(registry) = Current /\ Workspaces = <<1>>
    /\ dest = Foreign => destKeys = [k \in Keys |-> "none"]

FilesTaken ==
    /\ HoldsNone => Version(registry) \in {0, Newer}
    /\ Len(registry.rosters) # 2
    /\ dest = Foreign /\ \A k \in Keys : destKeys[k] = "none"
    /\ dir = IF Workspaces = <<1>> THEN OlderBackup ELSE Occupied

MCInit == Init /\ (RecentWithoutDevice \/ FilesTaken)

MCSpec ==
    /\ MCInit /\ [][Next]_vars
    /\ \A p \in Servers : WF_vars(OpenStep(p) /\ UNCHANGED fileVars)
=============================================================================
