------------------------------ MODULE HubProofs -------------------------------
(***************************************************************************)
(* The hub's handover for any number of devices, connection attempts and    *)
(* credential versions: the slot, the operation boundary, the release       *)
(* signal and the monitor's disconnections.                                 *)
(***************************************************************************)
EXTENDS Hub, TLAPS

Places == {"new", "registering", "awaiting", "refused", "serving", "draining", "releasing",
           "closed"}
OpStates == {"none", "waiting", "locked", "admitted"}

\* The shape of the variables the argument is about; a slot holds a session of
\* its device.
Types ==
    /\ devices \in [Devices -> Conns \cup {None}]
    /\ pc \in [Conns -> Places]
    /\ retired \in [Conns -> {"no", "superseded", "revoked"}]
    /\ released \subseteq Conns
    /\ op \in [Conns -> [Loops -> OpStates]]
    /\ lock \in [Conns -> [by : {"serve", "monitor", None}, held : BOOLEAN]]
    /\ monitor \in [pc : {"idle", "lookup", "disconnect", "draining", "releasing"},
                    todo : SUBSET Conns, target : Conns \cup {None}]
    /\ unauthorized \subseteq Conns
    /\ \A d \in Devices : devices[d] # None => DeviceOf[devices[d]] = d

Gone(c) == Slot(c) # c /\ retired[c] # "no"

(***************************************************************************)
(* The slot is the pivot: a session has its slot from Register until        *)
(* somebody who holds its operation lock drops it, which needs it retired;  *)
(* work is admitted only in between.                                        *)
(***************************************************************************)
SessionInv(c) ==
    /\ Slot(c) = c => pc[c] \in {"serving", "draining"}
    /\ pc[c] = "serving" /\ retired[c] = "no" => Slot(c) = c
    /\ \A l \in Loops : op[c][l] = "admitted" => Slot(c) = c
    /\ pc[c] \in {"new", "registering", "awaiting"} => retired[c] = "no"
    /\ pc[c] \in {"draining", "releasing"} => retired[c] # "no"
    /\ lock[c].held => Gone(c)
    /\ c \in released => Gone(c)
    /\ retired[c] = "revoked" /\ pc[c] = "serving" => c \in unauthorized

MonitorInv ==
    /\ monitor.pc \in {"disconnect", "draining", "releasing"} => monitor.target \in unauthorized
    /\ monitor.pc \in {"draining", "releasing"} => retired[monitor.target] # "no"

Inv == Types /\ (\A c \in Conns : SessionInv(c)) /\ MonitorInv

-----------------------------------------------------------------------------
\* The invariant holds at the start.
LEMMA InitInv == Init => Inv
<1> SUFFICES ASSUME Init PROVE Inv
  OBVIOUS
<1> USE HubAssumption DEF Init
<1>1. Types
  BY DEF Types, Places, OpStates, Free, IdleMonitor
<1>2. ASSUME NEW c \in Conns PROVE SessionInv(c)
  <2>1. Slot(c) = None /\ c # None
    BY DEF Slot
  <2> QED
    BY <2>1 DEF SessionInv, Free
<1>3. MonitorInv
  BY DEF MonitorInv, IdleMonitor
<1> QED
  BY <1>1, <1>2, <1>3 DEF Inv

\* A step that leaves slots, sessions and the monitor alone.
LEMMA Unaffected ==
    ASSUME Inv, UNCHANGED <<devices, pc, sessionVars, monitor, unauthorized>>
    PROVE  Inv'
BY DEF Inv, Types, SessionInv, MonitorInv, Slot, Gone, sessionVars

\* A step of an attempt that is not served and does not get a slot.
LEMMA AttemptMoves ==
    ASSUME Inv, NEW c \in Conns, NEW where \in {"registering", "refused"},
           pc[c] \in {"new", "registering", "awaiting"}, pc' = [pc EXCEPT ![c] = where],
           UNCHANGED <<devices, sessionVars, monitor, unauthorized>>
    PROVE  Inv'
<1>1. Types'
  BY DEF Inv, Types, Places, sessionVars
<1>2. MonitorInv'
  BY DEF Inv, MonitorInv, sessionVars
<1>3. ASSUME NEW e \in Conns PROVE SessionInv(e)'
  <2>1. pc'[e] = IF e = c THEN where ELSE pc[e]
    BY DEF Inv, Types
  <2>2. SessionInv(e)
    BY DEF Inv
  <2> QED
    BY <2>1, <2>2 DEF SessionInv, Slot, Gone, sessionVars
<1> QED
  BY <1>1, <1>2, <1>3 DEF Inv

\* An attempt takes a slot that is free.
LEMMA StepRegisterFree ==
    ASSUME Inv, NEW c \in Conns, RegisterFree(c)
    PROVE  Inv'
<1>1. /\ pc[c] = "registering" /\ Slot(c) = None
      /\ devices' = [devices EXCEPT ![DeviceOf[c]] = c]
      /\ pc' = [pc EXCEPT ![c] = "serving"]
      /\ UNCHANGED <<sessionVars, monitor, unauthorized>>
  BY DEF RegisterFree
<1>2. Types'
  BY <1>1, HubAssumption, Zenon DEF Inv, Types, Places, sessionVars
<1>3. MonitorInv'
  BY <1>1 DEF Inv, MonitorInv, sessionVars
<1>4. ASSUME NEW e \in Conns PROVE SessionInv(e)'
  <2>1. pc'[e] = IF e = c THEN "serving" ELSE pc[e]
    BY <1>1 DEF Inv, Types
  <2>2. Slot(e)' = IF DeviceOf[e] = DeviceOf[c] THEN c ELSE Slot(e)
    BY <1>1, HubAssumption, Zenon DEF Inv, Types, Slot
  <2>3. SessionInv(e) /\ SessionInv(c) /\ e # None
    BY HubAssumption DEF Inv
  <2>4. CASE e = c
    BY <1>1, <2>1, <2>2, <2>3, <2>4 DEF SessionInv, Gone, sessionVars
  <2>5. CASE e # c
    <3>1. Slot(e)' = e <=> Slot(e) = e
      BY <1>1, <2>2, <2>3, <2>5 DEF Slot
    <3> QED
      BY <1>1, <2>1, <2>3, <2>5, <3>1 DEF SessionInv, Gone, sessionVars
  <2> QED
    BY <2>4, <2>5
<1> QED
  BY <1>2, <1>3, <1>4 DEF Inv

\* Retiring the session in the slot, for a successor or by the monitor.
LEMMA Retires ==
    ASSUME Inv, NEW t \in Conns, NEW reason \in {"superseded", "revoked"}, Retire(t, reason)
    PROVE  /\ (retired \in [Conns -> {"no", "superseded", "revoked"}])'
           /\ \A e \in Conns : /\ e # t => retired'[e] = retired[e]
                               /\ retired[e] # "no" => retired'[e] = retired[e]
           /\ retired'[t] = IF retired[t] = "no" THEN reason ELSE retired[t]
BY DEF Inv, Types, Retire

\* An attempt retires the session whose slot it wants, and waits.
LEMMA StepRegisterDisplace ==
    ASSUME Inv, NEW c \in Conns, RegisterDisplace(c)
    PROVE  Inv'
<1> DEFINE t == Slot(c)
<1>1. /\ pc[c] = "registering" /\ t # None /\ Retire(t, "superseded")
      /\ pc' = [pc EXCEPT ![c] = "awaiting"]
      /\ UNCHANGED <<devices, released, op, lock, monitor, unauthorized>>
  BY DEF RegisterDisplace
<1>2. t \in Conns
  BY <1>1, HubAssumption, ZenonT(40) DEF Inv, Types, Slot
<1> HIDE DEF t
<1>3. /\ (retired \in [Conns -> {"no", "superseded", "revoked"}])'
      /\ \A e \in Conns : /\ e # t => retired'[e] = retired[e]
                          /\ retired[e] # "no" => retired'[e] = retired[e]
      /\ retired'[t] = IF retired[t] = "no" THEN "superseded" ELSE retired[t]
  BY <1>1, <1>2, Retires
<1>4. Types'
  BY <1>1, <1>3, Zenon DEF Inv, Types, Places
<1>5. MonitorInv'
  BY <1>1, <1>3 DEF Inv, MonitorInv, Types
<1>6. Slot(t) = t
  BY <1>1, HubAssumption, Zenon DEF t, Slot, Inv, Types
<1>7. ASSUME NEW e \in Conns PROVE SessionInv(e)'
  <2>1. pc'[e] = IF e = c THEN "awaiting" ELSE pc[e]
    BY <1>1 DEF Inv, Types
  <2>2. SessionInv(e) /\ SessionInv(t) /\ SessionInv(c)
    BY <1>2 DEF Inv
  <2>3. pc[t] \in {"serving", "draining"} /\ t # c
    BY <1>1, <1>6, <2>2 DEF SessionInv
  <2>4. Slot(e)' = Slot(e)
    BY <1>1 DEF Slot
  <2>5. CASE e = t
    BY <1>1, <1>3, <1>6, <2>1, <2>2, <2>3, <2>4, <2>5 DEF SessionInv, Gone
  <2>6. CASE e # t
    BY <1>1, <1>3, <2>1, <2>2, <2>4, <2>6 DEF SessionInv, Gone
  <2> QED
    BY <2>5, <2>6
<1> QED
  BY <1>4, <1>5, <1>7 DEF Inv

-----------------------------------------------------------------------------
(* The operation boundary.                                                  *)

\* One loop's operation changes; it is admitted only in the session's own slot.
LEMMA OperationMoves ==
    ASSUME Inv, NEW c \in Conns, NEW l \in Loops, NEW state \in OpStates, SetOp(c, l, state),
           state = "admitted" => Slot(c) = c, OnlyOp
    PROVE  Inv'
<1>1. /\ op' = [op EXCEPT ![c][l] = state]
      /\ UNCHANGED <<devices, pc, retired, released, lock, monitor, unauthorized>>
  BY DEF SetOp, OnlyOp
<1>2. op \in [Conns -> [Loops -> OpStates]]
  BY DEF Inv, Types
<1>3. /\ op' \in [Conns -> [Loops -> OpStates]]
      /\ \A e \in Conns, m \in Loops :
             op'[e][m] = IF e = c /\ m = l THEN state ELSE op[e][m]
  BY <1>1, <1>2
<1>4. Types'
  BY <1>1, <1>3 DEF Inv, Types
<1>5. MonitorInv'
  BY <1>1 DEF Inv, MonitorInv
<1>6. ASSUME NEW e \in Conns PROVE SessionInv(e)'
  <2>1. SessionInv(e)
    BY DEF Inv
  <2>2. Slot(e)' = Slot(e) /\ Gone(e)' = Gone(e)
    BY <1>1 DEF Slot, Gone
  <2>3. \A m \in Loops : op'[e][m] = "admitted" => Slot(e) = e
    BY <1>3, <2>1 DEF SessionInv
  <2> QED
    BY <1>1, <2>1, <2>2, <2>3 DEF SessionInv
<1> QED
  BY <1>4, <1>5, <1>6 DEF Inv

\* Work is admitted only for the session that has the slot, and ends.
LEMMA StepOperation ==
    ASSUME Inv, NEW c \in Conns, Operation(c) \/ \E l \in Loops : BeginOperation(c, l)
    PROVE  Inv'
<1>1. PICK l \in Loops : RLock(c, l) \/ Admit(c, l) \/ Finish(c, l) \/ BeginOperation(c, l)
  BY DEF Operation
<1>2. CASE Admit(c, l)
  <2>1. CASE Slot(c) = c /\ retired[c] = "no"
    BY <1>2, <2>1, OperationMoves DEF Admit, OpStates
  <2>2. CASE ~(Slot(c) = c /\ retired[c] = "no")
    BY <1>2, <2>2, OperationMoves DEF Admit, OpStates
  <2> QED
    BY <2>1, <2>2
<1>3. CASE RLock(c, l)
  BY <1>3, OperationMoves DEF RLock, OpStates
<1>4. CASE Finish(c, l)
  BY <1>4, OperationMoves DEF Finish, OpStates
<1>5. CASE BeginOperation(c, l)
  BY <1>5, OperationMoves DEF BeginOperation, OpStates
<1> QED
  BY <1>1, <1>2, <1>3, <1>4, <1>5

-----------------------------------------------------------------------------
(* Disconnect.                                                              *)

\* Queueing for the operation lock stops new work and changes nothing else.
LEMMA Announces ==
    ASSUME Inv, NEW c \in Conns, NEW who \in {"serve", "monitor"}, AnnounceLock(c, who),
           UNCHANGED <<devices, pc, retired, released, op, monitor, unauthorized>>
    PROVE  Inv'
<1>1. lock \in [Conns -> [by : {"serve", "monitor", None}, held : BOOLEAN]]
  BY DEF Inv, Types
<1>2. /\ lock' \in [Conns -> [by : {"serve", "monitor", None}, held : BOOLEAN]]
      /\ ~lock'[c].held /\ \A e \in Conns : e # c => lock'[e] = lock[e]
  BY <1>1 DEF AnnounceLock
<1>3. Types'
  BY <1>2 DEF Inv, Types
<1>4. MonitorInv'
  BY DEF Inv, MonitorInv
<1>5. ASSUME NEW e \in Conns PROVE SessionInv(e)'
  <2>1. SessionInv(e)
    BY DEF Inv
  <2>2. Slot(e)' = Slot(e)
    BY DEF Slot
  <2> QED
    BY <1>2, <2>1, <2>2 DEF SessionInv, Gone
<1> QED
  BY <1>3, <1>4, <1>5 DEF Inv

\* The slot is dropped: no work is admitted any more, and the session is retired.
LEMMA Drops ==
    ASSUME Inv, NEW c \in Conns, NEW who, DropSlot(c, who), retired[c] # "no",
           NEW where \in {"same", "releasing"},
           pc' = IF where = "same" THEN pc ELSE [pc EXCEPT ![c] = where],
           where = "releasing" => pc[c] = "draining",
           monitor' \in [pc : {"idle", "lookup", "disconnect", "draining", "releasing"},
                         todo : SUBSET Conns, target : Conns \cup {None}],
           MonitorInv', UNCHANGED <<retired, released, op, unauthorized>>
    PROVE  Inv'
<1>1. /\ lock[c] = [by |-> who, held |-> FALSE]
      /\ \A l \in Loops : op[c][l] \in {"none", "waiting"}
      /\ lock' = [lock EXCEPT ![c].held = TRUE]
      /\ devices' = [devices EXCEPT ![DeviceOf[c]] = IF @ = c THEN None ELSE @]
  BY DEF DropSlot
<1>2. /\ lock' \in [Conns -> [by : {"serve", "monitor", None}, held : BOOLEAN]]
      /\ \A e \in Conns : e # c => lock'[e] = lock[e]
  BY <1>1, Zenon DEF Inv, Types
<1>3. /\ devices' \in [Devices -> Conns \cup {None}]
      /\ \A d \in Devices : devices'[d] = IF devices[d] = c THEN None ELSE devices[d]
  <2>1. \A d \in Devices : devices[d] = c => d = DeviceOf[c]
    BY HubAssumption DEF Inv, Types
  <2> QED
    BY <1>1, <2>1, HubAssumption, Zenon DEF Inv, Types
<1>4. /\ pc' \in [Conns -> Places]
      /\ \A e \in Conns : pc'[e] = IF e = c /\ where = "releasing" THEN "releasing" ELSE pc[e]
  BY DEF Inv, Types, Places
<1>5. Types'
  BY <1>2, <1>3, <1>4 DEF Inv, Types
<1>6. ASSUME NEW e \in Conns PROVE SessionInv(e)'
  <2>1. SessionInv(e) /\ e # None
    BY HubAssumption DEF Inv
  <2>2. Slot(e)' = IF Slot(e) = c THEN None ELSE Slot(e)
    BY <1>3, HubAssumption DEF Slot
  <2>3. CASE e = c
    <3>1. Slot(e)' # e
      BY <2>1, <2>2, <2>3
    <3> QED
      BY <1>1, <1>4, <2>1, <2>3, <3>1 DEF SessionInv, Gone
  <2>4. CASE e # c
    <3>1. Slot(e)' = e <=> Slot(e) = e
      BY <2>1, <2>2, <2>4
    <3> QED
      BY <1>2, <1>4, <2>1, <2>4, <3>1 DEF SessionInv, Gone
  <2> QED
    BY <2>3, <2>4
<1> QED
  BY <1>5, <1>6 DEF Inv

\* The release signal: whoever holds the lock has dropped the slot.
LEMMA Releases ==
    ASSUME Inv, NEW c \in Conns, NEW who, MarkReleased(c, who),
           NEW where \in {"same", "closed"},
           pc' = IF where = "same" THEN pc ELSE [pc EXCEPT ![c] = where],
           where = "closed" => pc[c] = "releasing",
           monitor' \in [pc : {"idle", "lookup", "disconnect", "draining", "releasing"},
                         todo : SUBSET Conns, target : Conns \cup {None}],
           MonitorInv', UNCHANGED <<devices, retired, unauthorized>>
    PROVE  Inv'
<1>1. /\ lock[c] = [by |-> who, held |-> TRUE] /\ released' = released \cup {c}
      /\ lock' = [lock EXCEPT ![c] = Free]
      /\ op' = [op EXCEPT ![c] = [l \in Loops |-> IF op[c][l] = "waiting" THEN "locked"
                                                  ELSE op[c][l]]]
  BY DEF MarkReleased
<1>2. /\ lock' \in [Conns -> [by : {"serve", "monitor", None}, held : BOOLEAN]]
      /\ ~lock'[c].held /\ \A e \in Conns : e # c => lock'[e] = lock[e]
  BY <1>1 DEF Inv, Types, Free
<1>3. /\ op' \in [Conns -> [Loops -> OpStates]]
      /\ \A e \in Conns, l \in Loops : op'[e][l] = "admitted" => op[e][l] = "admitted"
  <2>1. op \in [Conns -> [Loops -> OpStates]]
    BY DEF Inv, Types
  <2>2. [l \in Loops |-> IF op[c][l] = "waiting" THEN "locked" ELSE op[c][l]]
            \in [Loops -> OpStates]
    BY <2>1 DEF OpStates
  <2>3. op' \in [Conns -> [Loops -> OpStates]]
    BY <1>1, <2>1, <2>2
  <2>4. \A e \in Conns, l \in Loops :
            op'[e][l] = IF e = c /\ op[e][l] = "waiting" THEN "locked" ELSE op[e][l]
    BY <1>1, <2>1
  <2> QED
    BY <2>3, <2>4
<1>4. /\ pc' \in [Conns -> Places]
      /\ \A e \in Conns : pc'[e] = IF e = c /\ where = "closed" THEN "closed" ELSE pc[e]
  BY DEF Inv, Types, Places
<1>5. Types'
  BY <1>1, <1>2, <1>3, <1>4 DEF Inv, Types
<1>6. Gone(c)
  BY <1>1 DEF Inv, SessionInv
<1>7. ASSUME NEW e \in Conns PROVE SessionInv(e)'
  <2>1. SessionInv(e)
    BY DEF Inv
  <2>2. Slot(e)' = Slot(e) /\ Gone(e)' = Gone(e)
    BY DEF Slot, Gone
  <2>3. \A l \in Loops : op'[e][l] = "admitted" => Slot(e) = e
    BY <1>3, <2>1 DEF SessionInv
  <2>4. CASE e = c
    BY <1>2, <1>4, <1>6, <2>1, <2>2, <2>3, <2>4, SMTT(30) DEF SessionInv, Gone
  <2>5. CASE e # c
    BY <1>1, <1>2, <1>4, <2>1, <2>2, <2>3, <2>5 DEF SessionInv
  <2> QED
    BY <2>4, <2>5
<1> QED
  BY <1>5, <1>7 DEF Inv

\* A session whose transport ends retires itself.
LEMMA StepUnregister ==
    ASSUME Inv, NEW c \in Conns, Unregister(c)
    PROVE  Inv'
<1>1. /\ pc[c] = "serving"
      /\ UNCHANGED <<devices, released, op, lock, monitor, unauthorized>>
  BY DEF Unregister
<1>2. \A e \in Conns : SessionInv(e) /\ Slot(e)' = Slot(e)
  BY <1>1, SMTT(30) DEF Inv, Slot
<1>3. CASE Slot(c) = c
  <2>1. Retire(c, "revoked") /\ pc' = [pc EXCEPT ![c] = "draining"]
    BY <1>3 DEF Unregister
  <2>2. /\ (retired \in [Conns -> {"no", "superseded", "revoked"}])'
        /\ \A e \in Conns : /\ e # c => retired'[e] = retired[e]
                            /\ retired[e] # "no" => retired'[e] = retired[e]
        /\ retired'[c] # "no"
    BY <2>1, Retires
  <2>3. Types' /\ \A e \in Conns : pc'[e] = IF e = c THEN "draining" ELSE pc[e]
    BY <1>1, <2>1, <2>2, Zenon DEF Inv, Types, Places
  <2>4. MonitorInv'
    BY <1>1, <2>2 DEF Inv, MonitorInv, Types
  <2>5. ASSUME NEW e \in Conns PROVE SessionInv(e)'
    <3>1. CASE e = c
      BY <1>1, <1>2, <1>3, <2>2, <2>3, <3>1, SMTT(30) DEF SessionInv, Gone
    <3>2. CASE e # c
      BY <1>1, <1>2, <2>2, <2>3, <3>2 DEF SessionInv, Gone
    <3> QED
      BY <3>1, <3>2
  <2> QED
    BY <2>3, <2>4, <2>5 DEF Inv
<1>4. CASE Slot(c) # c
  <2>1. retired' = retired /\ pc' = [pc EXCEPT ![c] = "closed"]
    BY <1>4 DEF Unregister
  <2>2. Types' /\ \A e \in Conns : pc'[e] = IF e = c THEN "closed" ELSE pc[e]
    BY <1>1, <2>1 DEF Inv, Types, Places
  <2>3. MonitorInv'
    BY <1>1, <2>1 DEF Inv, MonitorInv
  <2>4. ASSUME NEW e \in Conns PROVE SessionInv(e)'
    BY <1>1, <1>2, <1>4, <2>1, <2>2 DEF SessionInv, Gone
  <2> QED
    BY <2>2, <2>3, <2>4 DEF Inv
<1> QED
  BY <1>3, <1>4

\* The serving goroutine drops its slot under the lock and releases.
LEMMA StepServeDisconnect ==
    ASSUME Inv, NEW c \in Conns, ServeDisconnect(c)
    PROVE  Inv'
<1>1. CASE ServeAnnounce(c)
  BY <1>1, Announces DEF ServeAnnounce
<1>2. CASE ServeDropSlot(c)
  <2>1. /\ pc[c] = "draining" /\ DropSlot(c, "serve") /\ pc' = [pc EXCEPT ![c] = "releasing"]
        /\ UNCHANGED <<retired, released, op, monitor, unauthorized>>
    BY <1>2 DEF ServeDropSlot
  <2>2. retired[c] # "no"
    BY <2>1 DEF Inv, SessionInv
  <2>3. /\ MonitorInv'
        /\ monitor' \in [pc : {"idle", "lookup", "disconnect", "draining", "releasing"},
                         todo : SUBSET Conns, target : Conns \cup {None}]
    BY <2>1 DEF Inv, Types, MonitorInv
  <2> QED
    BY <2>1, <2>2, <2>3, Drops, Zenon
<1>3. CASE ServeMarkReleased(c)
  <2>1. /\ pc[c] = "releasing" /\ MarkReleased(c, "serve") /\ pc' = [pc EXCEPT ![c] = "closed"]
        /\ UNCHANGED <<devices, retired, monitor, unauthorized>>
    BY <1>3 DEF ServeMarkReleased
  <2>2. /\ MonitorInv'
        /\ monitor' \in [pc : {"idle", "lookup", "disconnect", "draining", "releasing"},
                         todo : SUBSET Conns, target : Conns \cup {None}]
    BY <2>1 DEF Inv, Types, MonitorInv
  <2> QED
    BY <2>1, <2>2, Releases, Zenon
<1> QED
  BY <1>1, <1>2, <1>3 DEF ServeDisconnect

-----------------------------------------------------------------------------
(* The monitor.                                                             *)

MonitorRecord == [pc : {"idle", "lookup", "disconnect", "draining", "releasing"},
                  todo : SUBSET Conns, target : Conns \cup {None}]

\* A step of the sweep itself: a session is only added to those found unauthorized.
LEMMA SweepMoves ==
    ASSUME Inv, OnlyMonitor, monitor' \in MonitorRecord, MonitorInv',
           unauthorized' \subseteq Conns, unauthorized \subseteq unauthorized'
    PROVE  Inv'
<1>1. UNCHANGED <<devices, pc, retired, released, op, lock>>
  BY DEF OnlyMonitor, sessionVars
<1>2. Types'
  BY <1>1 DEF Inv, Types, MonitorRecord
<1>3. ASSUME NEW e \in Conns PROVE SessionInv(e)'
  <2>1. SessionInv(e) /\ Slot(e)' = Slot(e)
    BY <1>1 DEF Inv, Slot
  <2> QED
    BY <1>1, <2>1 DEF SessionInv, Gone
<1> QED
  BY <1>2, <1>3 DEF Inv

\* The monitor takes its snapshot and looks its sessions up.
LEMMA StepSweep ==
    ASSUME Inv, \/ MonitorSnapshot \/ MonitorSweepDone \/ \E c \in Conns : MonitorLookup(c)
    PROVE  Inv'
<1>0. monitor \in MonitorRecord /\ unauthorized \subseteq Conns
  BY DEF Inv, Types, MonitorRecord
<1>1. CASE MonitorSnapshot
  <2>1. /\ monitor' = [pc |-> "lookup", todo |-> {devices[d] : d \in Devices} \ {None},
                       target |-> None]
        /\ unauthorized' = unauthorized /\ OnlyMonitor
    BY <1>1 DEF MonitorSnapshot
  <2>2. {devices[d] : d \in Devices} \ {None} \in SUBSET Conns
    BY DEF Inv, Types
  <2>3. monitor' \in MonitorRecord /\ monitor'.pc = "lookup"
    BY <2>1, <2>2 DEF MonitorRecord
  <2>4. MonitorInv'
    BY <2>3 DEF MonitorInv
  <2> QED
    BY <1>0, <2>1, <2>3, <2>4, SweepMoves
<1>2. CASE MonitorSweepDone
  <2>1. monitor' = IdleMonitor /\ unauthorized' = unauthorized /\ OnlyMonitor
    BY <1>2 DEF MonitorSweepDone
  <2>2. monitor' \in MonitorRecord /\ monitor'.pc = "idle"
    BY <2>1 DEF MonitorRecord, IdleMonitor
  <2>3. MonitorInv'
    BY <2>2 DEF MonitorInv
  <2> QED
    BY <1>0, <2>1, <2>2, <2>3, SweepMoves
<1>3. ASSUME NEW c \in Conns, MonitorLookup(c) PROVE Inv'
  <2>1. PICK authorized \in {IsSessionAuthorized(c), FALSE} :
          /\ monitor' = [pc |-> IF authorized THEN "lookup" ELSE "disconnect",
                         todo |-> monitor.todo \ {c},
                         target |-> IF authorized THEN None ELSE c]
          /\ unauthorized' = IF authorized THEN unauthorized ELSE unauthorized \cup {c}
    BY <1>3, Zenon DEF MonitorLookup
  <2>2. OnlyMonitor /\ monitor.todo \ {c} \in SUBSET Conns
    BY <1>0, <1>3 DEF MonitorLookup, MonitorRecord
  <2>3. CASE authorized
    <3>1. /\ monitor' = [pc |-> "lookup", todo |-> monitor.todo \ {c}, target |-> None]
          /\ unauthorized' = unauthorized
      BY <2>1, <2>3
    <3>2. monitor' \in MonitorRecord /\ monitor'.pc = "lookup"
      BY <2>2, <3>1 DEF MonitorRecord
    <3>3. MonitorInv'
      BY <3>2 DEF MonitorInv
    <3> QED
      BY <1>0, <2>2, <3>1, <3>2, <3>3, SweepMoves
  <2>4. CASE ~authorized
    <3>1. /\ monitor' = [pc |-> "disconnect", todo |-> monitor.todo \ {c}, target |-> c]
          /\ unauthorized' = unauthorized \cup {c}
      BY <2>1, <2>4
    <3>2. /\ monitor' \in MonitorRecord /\ monitor'.pc = "disconnect" /\ monitor'.target = c
      BY <2>2, <3>1 DEF MonitorRecord
    <3>3. MonitorInv'
      BY <3>1, <3>2 DEF MonitorInv
    <3>4. unauthorized' \subseteq Conns /\ unauthorized \subseteq unauthorized'
      BY <1>0, <3>1
    <3> QED
      BY <2>2, <3>2, <3>3, <3>4, SweepMoves
  <2> QED
    BY <2>3, <2>4
<1> QED
  BY <1>1, <1>2, <1>3

At(where) == [monitor EXCEPT !.pc = where]
\* The monitor moves on with the session it is at.
LEMMA MonitorAt ==
    ASSUME Inv, NEW where \in {"lookup", "draining", "releasing"}, monitor' = At(where)
    PROVE  monitor' \in MonitorRecord /\ monitor'.pc = where /\ monitor'.target = monitor.target
<1>1. monitor \in MonitorRecord
  BY DEF Inv, Types, MonitorRecord
<1> QED
  BY <1>1 DEF At, MonitorRecord

\* The monitor retires a session it found unauthorized.
LEMMA StepMonitorDisconnect ==
    ASSUME Inv, MonitorDisconnect
    PROVE  Inv'
<1> DEFINE c == monitor.target
<1>1. /\ monitor.pc = "disconnect"
      /\ UNCHANGED <<devices, pc, released, op, lock, unauthorized>>
  BY DEF MonitorDisconnect
<1>2. c \in Conns /\ c \in unauthorized
  BY <1>1 DEF Inv, Types, MonitorInv
<1>3. \A e \in Conns : SessionInv(e) /\ Slot(e)' = Slot(e)
  BY <1>1 DEF Inv, Slot
<1>4. CASE Slot(c) = c
  <2>1. Retire(c, "revoked") /\ monitor' = At("draining")
    BY <1>4 DEF MonitorDisconnect, At
  <2>2. monitor' \in MonitorRecord /\ monitor'.pc = "draining" /\ monitor'.target = c
    BY <2>1, MonitorAt
  <2> HIDE DEF c
  <2>3. /\ (retired \in [Conns -> {"no", "superseded", "revoked"}])'
        /\ \A e \in Conns : /\ e # c => retired'[e] = retired[e]
                            /\ retired[e] # "no" => retired'[e] = retired[e]
        /\ retired'[c] # "no"
    BY <1>2, <2>1, Retires
  <2>4. Types'
    BY <1>1, <2>2, <2>3, SMTT(30) DEF Inv, Types, MonitorRecord
  <2>5. MonitorInv'
    BY <1>1, <1>2, <2>2, <2>3 DEF MonitorInv
  <2>6. ASSUME NEW e \in Conns PROVE SessionInv(e)'
    <3>1. CASE e = c
      <4>1. pc[c] \in {"serving", "draining"}
        BY <1>2, <1>3, <1>4, SMTT(30) DEF SessionInv
      <4> QED
        BY <1>1, <1>2, <1>3, <1>4, <2>3, <3>1, <4>1 DEF SessionInv, Gone
    <3>2. CASE e # c
      BY <1>1, <1>3, <2>3, <3>2 DEF SessionInv, Gone
    <3> QED
      BY <3>1, <3>2, SMTT(30)
  <2> QED
    BY <2>4, <2>5, <2>6 DEF Inv
<1>5. CASE Slot(c) # c
  <2>1. retired' = retired /\ monitor' = At("lookup")
    BY <1>5 DEF MonitorDisconnect, At
  <2>2. monitor' \in MonitorRecord /\ monitor'.pc = "lookup"
    BY <2>1, MonitorAt
  <2>3. Types' /\ MonitorInv'
    BY <1>1, <2>1, <2>2 DEF Inv, Types, MonitorRecord, MonitorInv
  <2>4. ASSUME NEW e \in Conns PROVE SessionInv(e)'
    BY <1>1, <1>3, <2>1 DEF SessionInv, Gone
  <2> QED
    BY <2>3, <2>4 DEF Inv
<1> QED
  BY <1>4, <1>5

\* The monitor drops the slot of that session under the lock and releases it.
LEMMA StepMonitorReleases ==
    ASSUME Inv, MonitorAnnounce \/ MonitorDropSlot \/ MonitorMarkReleased
    PROVE  Inv'
<1> DEFINE c == monitor.target
<1>1. /\ monitor.pc \in {"draining", "releasing"} /\ c \in Conns /\ c \in unauthorized
      /\ retired[c] # "no"
  <2>1. monitor.pc \in {"draining", "releasing"}
    BY DEF MonitorAnnounce, MonitorDropSlot, MonitorMarkReleased
  <2> QED
    BY <2>1 DEF Inv, Types, MonitorInv
<1>2. CASE MonitorAnnounce
  <2>1. AnnounceLock(c, "monitor")
        /\ UNCHANGED <<devices, pc, retired, released, op, monitor, unauthorized>>
    BY <1>2 DEF MonitorAnnounce
  <2> HIDE DEF c
  <2> QED
    BY <1>1, <2>1, Announces
<1>3. CASE MonitorDropSlot
  <2>1. /\ DropSlot(c, "monitor") /\ monitor' = At("releasing")
        /\ UNCHANGED <<pc, retired, released, op, unauthorized>>
    BY <1>3 DEF MonitorDropSlot, At
  <2>2. monitor' \in MonitorRecord /\ monitor'.pc = "releasing" /\ monitor'.target = c
    BY <2>1, MonitorAt
  <2> HIDE DEF c
  <2>3. MonitorInv'
    BY <1>1, <2>1, <2>2 DEF MonitorInv
  <2>4. "same" \in {"same", "releasing"} /\ "same" # "releasing"
        /\ pc' = IF "same" = "same" THEN pc ELSE [pc EXCEPT ![c] = "same"]
    BY <2>1
  <2> QED
    BY <1>1, <2>1, <2>2, <2>3, <2>4, Drops DEF MonitorRecord
<1>4. CASE MonitorMarkReleased
  <2>1. /\ MarkReleased(c, "monitor") /\ monitor' = At("lookup")
        /\ UNCHANGED <<devices, pc, retired, unauthorized>>
    BY <1>4 DEF MonitorMarkReleased, At
  <2>2. monitor' \in MonitorRecord /\ monitor'.pc = "lookup"
    BY <2>1, MonitorAt
  <2> HIDE DEF c
  <2>3. MonitorInv'
    BY <2>2 DEF MonitorInv
  <2>4. "same" \in {"same", "closed"} /\ "same" # "closed"
        /\ pc' = IF "same" = "same" THEN pc ELSE [pc EXCEPT ![c] = "same"]
    BY <2>1
  <2> QED
    BY <1>1, <2>1, <2>2, <2>3, <2>4, Releases DEF MonitorRecord
<1> QED
  BY <1>2, <1>3, <1>4

-----------------------------------------------------------------------------
\* Each outcome of an attempt to register preserves the invariant.
LEMMA StepAttempt ==
    ASSUME Inv, NEW c \in Conns, AuthenticateConnection(c) \/ Register(c)
    PROVE  Inv'
<1>1. CASE AuthenticateConnection(c)
  BY <1>1, AttemptMoves, Zenon DEF AuthenticateConnection
<1>2. CASE RegisterFree(c)
  BY <1>2, StepRegisterFree
<1>3. CASE RegisterStale(c)
  BY <1>3, AttemptMoves, Zenon DEF RegisterStale
<1>4. CASE RegisterDisplace(c)
  BY <1>4, StepRegisterDisplace
<1>5. CASE AwaitReleased(c)
  <2> DEFINE where == IF attempt[c] + 1 < MaxHandoverAttempts THEN "registering" ELSE "refused"
  <2>1. /\ pc[c] = "awaiting" /\ pc' = [pc EXCEPT ![c] = where]
        /\ UNCHANGED <<devices, sessionVars, monitor, unauthorized>>
    BY <1>5 DEF AwaitReleased
  <2>2. where \in {"registering", "refused"}
    OBVIOUS
  <2> HIDE DEF where
  <2> QED
    BY <2>1, <2>2, AttemptMoves, Zenon
<1>6. CASE AwaitTimeout(c)
  BY <1>6, AttemptMoves, Zenon DEF AwaitTimeout
<1> QED
  BY <1>1, <1>2, <1>3, <1>4, <1>5, <1>6 DEF Register

\* Every step preserves the invariant.
LEMMA StepInv == Inv /\ [Next]_vars => Inv'
<1> SUFFICES ASSUME Inv, [Next]_vars PROVE Inv'
  OBVIOUS
<1>1. CASE UNCHANGED vars
  BY <1>1, Unaffected DEF vars
<1>2. ASSUME NEW d \in Devices, RotateCredential(d) \/ RevokeDevice(d) PROVE Inv'
  BY <1>2, Unaffected DEF RotateCredential, RevokeDevice
<1>3. ASSUME NEW c \in Conns,
             \/ AuthenticateConnection(c) \/ Register(c) \/ Unregister(c)
             \/ ServeDisconnect(c) \/ Operation(c) \/ \E l \in Loops : BeginOperation(c, l)
      PROVE  Inv'
  BY <1>3, StepAttempt, StepUnregister, StepServeDisconnect, StepOperation
<1>4. CASE Monitor
  BY <1>4, StepSweep, StepMonitorDisconnect, StepMonitorReleases DEF Monitor
<1> QED
  BY <1>1, <1>2, <1>3, <1>4 DEF Next

\* The invariant holds in every reachable state.
LEMMA AlwaysInv == Spec => []Inv
BY InitInv, StepInv, PTL DEF Spec

\* Admitted work of one session never runs while another session of its device
\* has the slot: work is admitted only in one's own slot, and the slot is dropped
\* only after the work (beginOperation, Disconnect, Register).
THEOREM SessionsNeverOverlap == Spec => []NoOverlap
<1>1. Inv => NoOverlap
  BY DEF Inv, SessionInv, NoOverlap, Admitted, Slot
<1> QED
  BY <1>1, AlwaysInv, PTL

\* The release signal a replacement waits for is true (markReleased).
THEOREM ReleaseIsFinal == Spec => []ReleasedIsDone
<1>1. Inv => ReleasedIsDone
  BY SMTT(30) DEF Inv, Types, SessionInv, Gone, ReleasedIsDone, Admitted
<1> QED
  BY <1>1, AlwaysInv, PTL

\* A sweep retires only the instance some lookup of it found unauthorized
\* (RunAuthorizationMonitor, Disconnect).
THEOREM MonitorRetiresWhatItSaw == Spec => []RevocationIsObserved
<1>1. Inv => RevocationIsObserved
  BY DEF Inv, SessionInv, RevocationIsObserved
<1> QED
  BY <1>1, AlwaysInv, PTL

\* Whoever is in a slot is served or on its way out, and a served session nobody
\* retired has its slot (Register, Disconnect).
THEOREM SlotsMatchSessions == Spec => []SlotMatchesSession
<1>1. Inv => SlotMatchesSession
  BY DEF Inv, SessionInv, SlotMatchesSession
<1> QED
  BY <1>1, AlwaysInv, PTL

=============================================================================
