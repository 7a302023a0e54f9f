------------------------ MODULE DeviceRequestsProofs -------------------------
(***************************************************************************)
(* What the registry's statements guarantee to devices, for any number of   *)
(* devices, requests in flight, tokens, codes and revisions.                *)
(***************************************************************************)
EXTENDS DeviceRequests, TLAPS

Authors == Devices \cup {None}
Origins == Devices \cup {Idle.from}
Where == {"idle", "sent", "rotating", "authorizing", "matching", "loading", "reading",
          "writing", "appending", "answered"}
RequestRecord ==
    [pc : Where, kind : Kinds, from : Origins, token : Nat, to : Authors, number : Nat,
     pending : Nat, payload : Authors, base : Authors, late : BOOLEAN,
     answer : [revision : Nat, payload : Authors]]
DeviceRecord == [token : Nat \ {0}, version : Nat, revoked : BOOLEAN]
ClientRecord == [current : Nat \ {0}, pending : Nat, revision : Nat, payload : Authors]

Types ==
    /\ devices \in [Devices -> DeviceRecord]
    /\ codes \in [Devices -> Seq({"live", "spent"})]
    /\ preference \in [revision : Nat, payload : Authors]
    /\ client \in [Devices -> ClientRecord]
    /\ req \in [Slots -> RequestRecord]
    /\ log \in Seq([base : Authors, payload : Authors])

(***************************************************************************)
(* The inductive invariant, in terms of the values of the variables: a      *)
(* request in flight already satisfies what its effect will need.           *)
(***************************************************************************)
WrittenIn(lg, n, p) ==
    IF n = 0 THEN p = None ELSE n <= Len(lg) /\ lg[n].payload = p

\* Which kinds of request reach which place, and what a sent one names.
FlowOK(r) ==
    /\ r.pc # "idle" => r.from \in Devices
    /\ r.pc \in {"sent", "authorizing", "appending"} /\ r.kind = "route" => r.to \in Devices
    /\ r.pc = "rotating" => r.kind = "rotate"
    /\ r.pc \in {"authorizing", "appending"} => r.kind = "route"
    /\ r.pc \in {"matching", "loading"} => r.kind \in {"read", "write", "connect"}
    /\ r.pc = "reading" => r.kind = "read"
    /\ r.pc = "writing" => r.kind = "write"
    /\ r.kind = "connect" /\ r.pc # "idle" => r.token # 0

\* A rotation in flight asks for the successor of a token the device has, or
\* had before a later rotation.
RotationOK(r, cl) ==
    r.kind = "rotate" /\ r.pc \in {"sent", "rotating"} =>
        /\ r.pending = r.token + 1
        /\ r.token <= cl[r.from].current
        /\ r.token = cl[r.from].current => cl[r.from].pending = r.token + 1

\* A token the relay has accepted has been stored by then.
AcceptedOK(r, devs) ==
    r.kind = "connect" /\ r.pc = "answered" => r.token <= devs[r.from].token

\* A write carries the value of the revision it replaces; an answer the value of
\* the revision it names.
ValueOK(r, lg) ==
    /\ r.kind = "write" /\ r.pc \in {"sent", "matching", "loading", "writing"} =>
           WrittenIn(lg, r.number, r.base)
    /\ r.kind \in {"read", "write"} /\ r.pc = "answered" =>
           WrittenIn(lg, r.answer.revision, r.answer.payload)

\* A late request stays late and is before its check.
LateOK(r, devs) ==
    r.late =>
        /\ r.pc \in {"matching", "rotating", "authorizing"}
        /\ IF r.kind = "route" THEN devs[r.to].revoked
           ELSE devs[r.from].revoked \/ r.token < devs[r.from].token

RequestOK(r, devs, cl, lg) ==
    FlowOK(r) /\ RotationOK(r, cl) /\ AcceptedOK(r, devs) /\ ValueOK(r, lg) /\ LateOK(r, devs)

TokensOK(row, cl) ==
    /\ cl.pending \in {0, cl.current + 1}
    /\ row.token \in {cl.current, cl.pending}
    /\ row.version = row.token

Inv ==
    /\ Types
    /\ \A s \in Slots : RequestOK(req[s], devices, client, log)
    /\ \A d \in Devices : TokensOK(devices[d], client[d])
    /\ \A d \in Devices : WrittenIn(log, client[d].revision, client[d].payload)
    /\ WrittenIn(log, preference.revision, preference.payload)
    /\ preference.revision = Len(log)
    /\ NoLostUpdate
    /\ lateEffects = {}

-----------------------------------------------------------------------------
(* The records the devices and the handlers build.                          *)

\* An empty slot holds a request that is nobody's.
LEMMA IdleRecord ==
    /\ Idle \in RequestRecord /\ Idle.pc = "idle" /\ Idle.kind = "read"
    /\ Idle.late = FALSE
<1> DEFINE anyone == CHOOSE d \in Devices : TRUE
<1>1. anyone \in Origins
  BY DEF Origins, Idle
<1> HIDE DEF anyone
<1>2. Idle = [pc |-> "idle", kind |-> "read", from |-> anyone, token |-> 0,
         to |-> None, number |-> 0, pending |-> 0, payload |-> None, base |-> None,
         late |-> FALSE, answer |-> NoAnswer]
  BY DEF Idle, anyone
<1> QED
  BY <1>1, <1>2 DEF RequestRecord, Where, Kinds, Authors, NoAnswer

\* A read, a connection or a rotation as a device sends it.
Sent(kind, d, t) ==
    [Idle EXCEPT !.pc = "sent", !.kind = kind, !.from = d, !.token = t]
LEMMA SentRecord ==
    ASSUME NEW d \in Devices, NEW kind \in Kinds, NEW t \in Nat,
           NEW v, v = Sent(kind, d, t)
    PROVE  /\ v \in RequestRecord
           /\ v.pc = "sent" /\ v.kind = kind /\ v.from = d /\ v.token = t
           /\ ~v.late
BY IdleRecord, Zenon DEF Sent, RequestRecord, Where, Origins

\* A write as a device sends it: its own payload over the value it knows.
SentWriteOf(d, t, n, b) ==
    [Idle EXCEPT !.pc = "sent", !.kind = "write", !.from = d, !.token = t,
        !.number = n, !.payload = d, !.base = b]
LEMMA WriteRecord ==
    ASSUME NEW d \in Devices, NEW t \in Nat, NEW n \in Nat, NEW b \in Authors,
           NEW v, v = SentWriteOf(d, t, n, b)
    PROVE  /\ v \in RequestRecord
           /\ v.pc = "sent" /\ v.kind = "write" /\ v.from = d /\ v.token = t
           /\ v.number = n /\ v.payload = d /\ v.base = b /\ ~v.late
BY IdleRecord, Zenon DEF SentWriteOf, RequestRecord, Where, Origins, Kinds, Authors

\* An envelope as a device sends it.
SentRoute(d, to) ==
    [Idle EXCEPT !.pc = "sent", !.kind = "route", !.from = d, !.to = to]
LEMMA EnvelopeRecord ==
    ASSUME NEW d \in Devices, NEW to \in Devices,
           NEW v, v = SentRoute(d, to)
    PROVE  /\ v \in RequestRecord
           /\ v.pc = "sent" /\ v.kind = "route" /\ v.from = d /\ v.to = to
           /\ ~v.late
BY IdleRecord, Zenon DEF SentRoute, RequestRecord, Where, Origins, Kinds, Authors

\* A rotation as a device sends it: its token, a code and the token to come.
SentRotate(d, t, c, p) ==
    [Idle EXCEPT !.pc = "sent", !.kind = "rotate", !.from = d, !.token = t,
        !.number = c, !.pending = p]
LEMMA RotationRecord ==
    ASSUME NEW d \in Devices, NEW t \in Nat, NEW c \in Nat, NEW p \in Nat,
           NEW v, v = SentRotate(d, t, c, p)
    PROVE  /\ v \in RequestRecord
           /\ v.pc = "sent" /\ v.kind = "rotate" /\ v.from = d /\ v.token = t
           /\ v.pending = p /\ ~v.late
BY IdleRecord, Zenon DEF SentRotate, RequestRecord, Where, Origins, Kinds

\* A request that has been answered.
Answered(kind, d, t, n, p) ==
    [Idle EXCEPT !.pc = "answered", !.kind = kind, !.from = d, !.token = t,
        !.answer = [revision |-> n, payload |-> p]]
LEMMA AnswerRecord ==
    ASSUME NEW kind \in Kinds, NEW d \in Devices, NEW t \in Nat, NEW n \in Nat, NEW p \in Authors,
           NEW v, v = Answered(kind, d, t, n, p)
    PROVE  /\ v \in RequestRecord
           /\ v.pc = "answered" /\ v.kind = kind /\ v.from = d /\ v.token = t
           /\ v.answer.revision = n /\ v.answer.payload = p /\ ~v.late
BY IdleRecord, Zenon DEF Answered, RequestRecord, Where, Origins

-----------------------------------------------------------------------------
(* What the rest of the system may do under a request in flight.            *)

\* Tokens only advance and revocations stay, which keeps what is known of a request.
LEMMA RegistryGrows ==
    ASSUME NEW devs \in [Devices -> DeviceRecord], NEW devs2 \in [Devices -> DeviceRecord],
           \A d \in Devices : devs[d].token <= devs2[d].token,
           \A d \in Devices : devs[d].revoked => devs2[d].revoked,
           NEW r \in RequestRecord, FlowOK(r), AcceptedOK(r, devs), LateOK(r, devs)
    PROVE  AcceptedOK(r, devs2) /\ LateOK(r, devs2)
<1>1. \A d \in Devices : devs[d].token \in Nat /\ devs2[d].token \in Nat
  BY Zenon DEF DeviceRecord
<1>2. r.token \in Nat
  BY DEF RequestRecord
<1>3. AcceptedOK(r, devs2)
  BY <1>1, <1>2 DEF AcceptedOK, FlowOK
<1>4. ASSUME r.late PROVE LateOK(r, devs2)
  <2>1. r.pc \in {"matching", "rotating", "authorizing"} /\ r.from \in Devices
    BY <1>4 DEF LateOK, FlowOK
  <2>2. CASE r.kind = "route"
    <3>1. r.to \in Devices
      BY <2>1, <2>2 DEF FlowOK
    <3> QED
      BY <1>4, <2>1, <2>2, <3>1 DEF LateOK
  <2>3. CASE r.kind # "route"
    BY <1>1, <1>2, <1>4, <2>1, <2>3 DEF LateOK
  <2> QED
    BY <2>2, <2>3
<1> QED
  BY <1>3, <1>4 DEF LateOK

\* A device that adopts or remembers a newer token keeps what is known of a rotation.
LEMMA ClientAdvances ==
    ASSUME NEW cl \in [Devices -> ClientRecord], NEW cl2 \in [Devices -> ClientRecord],
           \A d \in Devices :
               \/ cl[d].current < cl2[d].current
               \/ /\ cl[d].current = cl2[d].current
                  /\ cl[d].pending \in {0, cl2[d].pending},
           NEW r \in RequestRecord, FlowOK(r), RotationOK(r, cl)
    PROVE  RotationOK(r, cl2)
<1>1. \A d \in Devices : /\ cl[d].current \in Nat /\ cl2[d].current \in Nat
                         /\ cl[d].pending \in Nat /\ cl2[d].pending \in Nat
  BY Zenon DEF ClientRecord
<1>2. r.token \in Nat /\ r.pending \in Nat
  BY DEF RequestRecord
<1> QED
  BY <1>1, <1>2 DEF RotationOK, FlowOK

\* A revision goes on naming its value when another is written.
LEMMA LogGrows ==
    ASSUME NEW lg \in Seq([base : Authors, payload : Authors]),
           NEW e \in [base : Authors, payload : Authors],
           NEW n \in Nat, NEW p, WrittenIn(lg, n, p)
    PROVE  WrittenIn(Append(lg, e), n, p)
BY DEF WrittenIn

\* So does what a request has read.
LEMMA LogGrowsRequest ==
    ASSUME NEW lg \in Seq([base : Authors, payload : Authors]),
           NEW e \in [base : Authors, payload : Authors],
           NEW r \in RequestRecord, ValueOK(r, lg)
    PROVE  ValueOK(r, Append(lg, e))
<1>1. r.number \in Nat /\ r.answer.revision \in Nat
  BY DEF RequestRecord
<1> QED
  BY <1>1, LogGrows, Zenon DEF ValueOK

\* An empty slot satisfies whatever is asked of a request.
LEMMA IdleIsOK ==
    ASSUME NEW devs, NEW cl, NEW lg
    PROVE  RequestOK(Idle, devs, cl, lg)
BY IdleRecord DEF RequestOK, FlowOK, RotationOK, AcceptedOK, ValueOK, LateOK

\* A step on one slot: its new request is in order, and the others stay so.
LEMMA SlotStep ==
    ASSUME req \in [Slots -> RequestRecord], NEW s \in Slots, NEW v \in RequestRecord,
           req' = [req EXCEPT ![s] = v],
           RequestOK(v, devices', client', log'),
           \A t \in Slots : RequestOK(req[t], devices', client', log')
                            \/ t = s
    PROVE  /\ (req \in [Slots -> RequestRecord])'
           /\ \A t \in Slots : RequestOK(req'[t], devices', client', log')
<1>1. (req \in [Slots -> RequestRecord])'
  OBVIOUS
<1>2. \A t \in Slots : req'[t] = IF t = s THEN v ELSE req[t]
  OBVIOUS
<1>3. \A t \in Slots : RequestOK(req'[t], devices', client', log')
  <2> TAKE t \in Slots
  <2>1. CASE t = s
    BY <1>2, <2>1
  <2>2. CASE t # s
    BY <1>2, <2>2
  <2> QED
    BY <2>1, <2>2
<1> QED
  BY <1>1, <1>3

-----------------------------------------------------------------------------
(* Steps.                                                                   *)

\* The invariant holds at the start.
LEMMA InitInv == Init => Inv
<1> SUFFICES ASSUME Init PROVE Inv
  OBVIOUS
<1> USE DEF Init
<1>1. Types
  <2>1. devices \in [Devices -> DeviceRecord]
    BY DEF DeviceRecord
  <2>2. client \in [Devices -> ClientRecord]
    BY DEF ClientRecord, Authors
  <2>3. preference \in [revision : Nat, payload : Authors]
    BY DEF Authors
  <2>4. req \in [Slots -> RequestRecord]
    BY IdleRecord
  <2>5. log \in Seq([base : Authors, payload : Authors])
    OBVIOUS
  <2>6. codes \in [Devices -> Seq({"live", "spent"})]
    OBVIOUS
  <2> QED
    BY <2>1, <2>2, <2>3, <2>4, <2>5, <2>6 DEF Types
<1>2. \A s \in Slots : RequestOK(req[s], devices, client, log)
  BY IdleIsOK
<1>3. \A d \in Devices : TokensOK(devices[d], client[d])
  BY Zenon DEF TokensOK
<1>4. \A d \in Devices : WrittenIn(log, client[d].revision, client[d].payload)
  BY Zenon DEF WrittenIn
<1>5. WrittenIn(log, preference.revision, preference.payload) /\ preference.revision = Len(log)
  BY DEF WrittenIn
<1>6. NoLostUpdate
  BY DEF NoLostUpdate
<1> QED
  BY <1>1, <1>2, <1>3, <1>4, <1>5, <1>6, Zenon DEF Inv

\* A step that only replaces one request.
LEMMA OnlyRequest ==
    ASSUME Inv, NEW s \in Slots, NEW v \in RequestRecord, req' = [req EXCEPT ![s] = v],
           RequestOK(v, devices, client, log),
           UNCHANGED <<devices, codes, preference, client, log, lateEffects>>
    PROVE  Inv'
<1>1. /\ devices' = devices /\ codes' = codes /\ preference' = preference
      /\ client' = client /\ log' = log /\ lateEffects' = lateEffects
  OBVIOUS
<1>2. req \in [Slots -> RequestRecord]
  BY DEF Inv, Types
<1>3. \A t \in Slots : RequestOK(req[t], devices', client', log')
  BY <1>1 DEF Inv
<1>4. RequestOK(v, devices', client', log')
  BY <1>1
<1>5. /\ (req \in [Slots -> RequestRecord])'
      /\ \A t \in Slots : RequestOK(req'[t], devices', client', log')
  BY <1>2, <1>3, <1>4, SlotStep, Zenon
<1> QED
  BY <1>1, <1>5 DEF Inv, Types, NoLostUpdate

\* A step that only ends one request.
LEMMA OnlyFinish ==
    ASSUME Inv, NEW s \in Slots, Finish(s),
           UNCHANGED <<devices, codes, preference, client, log, lateEffects>>
    PROVE  Inv'
BY OnlyRequest, IdleIsOK, IdleRecord, Zenon DEF Finish

\* What the invariant says of one slot.
LEMMA RequestFacts ==
    ASSUME Inv, NEW s \in Slots
    PROVE  /\ req[s] \in RequestRecord
           /\ RequestOK(req[s], devices, client, log)
           /\ FlowOK(req[s]) /\ RotationOK(req[s], client) /\ AcceptedOK(req[s], devices)
           /\ ValueOK(req[s], log) /\ LateOK(req[s], devices)
BY DEF Inv, Types, RequestOK

\* What the invariant says of one device.
LEMMA DeviceFacts ==
    ASSUME Inv, NEW d \in Devices
    PROVE  /\ client[d] \in ClientRecord /\ devices[d] \in DeviceRecord
           /\ client[d].current \in Nat \ {0} /\ client[d].pending \in Nat
           /\ client[d].revision \in Nat /\ client[d].payload \in Authors
           /\ devices[d].token \in Nat \ {0} /\ devices[d].version \in Nat
           /\ TokensOK(devices[d], client[d])
           /\ WrittenIn(log, client[d].revision, client[d].payload)
<1>1. client[d] \in ClientRecord /\ devices[d] \in DeviceRecord
  BY DEF Inv, Types
<1>2. TokensOK(devices[d], client[d]) /\ WrittenIn(log, client[d].revision, client[d].payload)
  BY DEF Inv
<1> QED
  BY <1>1, <1>2 DEF ClientRecord, DeviceRecord

\* A device sends a request with a token it holds.
LEMMA StepSend ==
    ASSUME Inv, NEW s \in Slots, NEW d \in Devices, SendRequest(s, d)
    PROVE  Inv'
<1>0. UNCHANGED <<devices, codes, preference, client, log, lateEffects>>
  BY DEF SendRequest
<1>1. ASSUME NEW kind \in {"read", "connect"}, Send(s, d, kind) PROVE Inv'
  <2>1. PICK t \in {client[d].current, client[d].pending} \ {0} :
          req' = [req EXCEPT ![s] = [Idle EXCEPT !.pc = "sent", !.kind = kind, !.from = d,
                      !.token = t]]
    BY <1>1, Zenon DEF Send
  <2>2. t \in Nat /\ t # 0 /\ kind \in Kinds
    BY <1>1, DeviceFacts DEF Kinds
  <2> DEFINE value == Sent(kind, d, t)
  <2>3. value \in RequestRecord /\ value.pc = "sent" /\ value.kind = kind /\ value.from = d
        /\ value.token = t /\ ~value.late
    BY <2>2, SentRecord
  <2>4. req' = [req EXCEPT ![s] = value]
    BY <2>1 DEF Sent
  <2> HIDE DEF value
  <2>5. RequestOK(value, devices, client, log)
    BY <1>1, <2>2, <2>3 DEF RequestOK, FlowOK, RotationOK, AcceptedOK, ValueOK, LateOK
  <2> QED
    BY <1>0, <2>3, <2>4, <2>5, OnlyRequest, Zenon
<1>2. ASSUME SendEnvelope(s, d) PROVE Inv'
  <2>1. PICK to \in Managed \ {d} :
          req' = [req EXCEPT ![s] = [Idle EXCEPT !.pc = "sent", !.kind = "route", !.from = d,
                      !.to = to]]
    BY <1>2, Zenon DEF SendEnvelope
  <2>2. to \in Devices
    BY RequestsAssumption
  <2> DEFINE value == SentRoute(d, to)
  <2>3. value \in RequestRecord /\ value.pc = "sent" /\ value.kind = "route" /\ value.from = d
        /\ value.to = to /\ ~value.late
    BY <2>2, EnvelopeRecord
  <2>4. req' = [req EXCEPT ![s] = value]
    BY <2>1 DEF SentRoute
  <2> HIDE DEF value
  <2>5. RequestOK(value, devices, client, log)
    BY <2>2, <2>3 DEF RequestOK, FlowOK, RotationOK, AcceptedOK, ValueOK, LateOK
  <2> QED
    BY <1>0, <2>3, <2>4, <2>5, OnlyRequest, Zenon
<1>3. ASSUME SendWrite(s, d) PROVE Inv'
  <2>1. PICK t \in {client[d].current, client[d].pending} \ {0} :
          req' = [req EXCEPT ![s] = [Idle EXCEPT !.pc = "sent", !.kind = "write",
                      !.from = d, !.token = t, !.number = client[d].revision,
                      !.payload = d, !.base = client[d].payload]]
    BY <1>3, Zenon DEF SendWrite
  <2>2. t \in Nat /\ client[d].revision \in Nat /\ client[d].payload \in Authors
        /\ WrittenIn(log, client[d].revision, client[d].payload)
    BY DeviceFacts
  <2> DEFINE value == SentWriteOf(d, t, client[d].revision, client[d].payload)
  <2>3. value \in RequestRecord /\ value.pc = "sent" /\ value.kind = "write" /\ value.from = d
        /\ value.number = client[d].revision /\ value.base = client[d].payload
        /\ ~value.late
    BY <2>2, WriteRecord
  <2>4. req' = [req EXCEPT ![s] = value]
    BY <2>1 DEF SentWriteOf
  <2> HIDE DEF value
  <2>5. RequestOK(value, devices, client, log)
    BY <2>2, <2>3 DEF RequestOK, FlowOK, RotationOK, AcceptedOK, ValueOK, LateOK
  <2> QED
    BY <1>0, <2>3, <2>4, <2>5, OnlyRequest, Zenon
<1> QED
  BY <1>1, <1>2, <1>3 DEF SendRequest

\* The device's side of a rotation: a new or repeated request with one pending
\* token.
LEMMA StepSendRotation ==
    ASSUME Inv, NEW s \in Slots, NEW d \in Devices, SendRotation(s, d)
    PROVE  Inv'
<1> DEFINE pending == client[d].current + 1
<1>1. /\ client[d] \in ClientRecord
      /\ client[d].current \in Nat \ {0} /\ client[d].pending \in {0, pending}
      /\ devices[d].token \in {client[d].current, client[d].pending}
      /\ devices[d].version = devices[d].token
  BY DeviceFacts DEF TokensOK
<1>2. PICK c \in DOMAIN codes[d] :
        /\ client' = [client EXCEPT ![d].pending = pending]
        /\ req' = [req EXCEPT ![s] = [Idle EXCEPT !.pc = "sent", !.kind = "rotate",
                          !.from = d, !.token = client[d].current, !.number = c,
                          !.pending = pending]]
        /\ UNCHANGED <<devices, codes, preference, log, lateEffects>>
  <2>1. pending = IF client[d].pending = 0 THEN client[d].current + 1 ELSE client[d].pending
    BY <1>1
  <2> QED
    BY <2>1, Zenon DEF SendRotation
<1>n. c \in Nat
  BY DEF Inv, Types
<1>3. /\ pending \in Nat /\ c \in Nat /\ pending = client[d].current + 1
      /\ client[d].current \in Nat /\ devices[d].token # 0
  BY <1>1, <1>n, DeviceFacts
<1>c. req' = [req EXCEPT ![s] = SentRotate(d, client[d].current, c, pending)]
  BY <1>2 DEF SentRotate
<1> HIDE DEF pending
<1> DEFINE value == SentRotate(d, client[d].current, c, pending)
<1>4. value \in RequestRecord /\ value.pc = "sent" /\ value.kind = "rotate" /\ value.from = d
      /\ value.token = client[d].current /\ value.pending = pending /\ ~value.late
  <2> HIDE DEF value
  <2>1. value = SentRotate(d, client[d].current, c, pending)
    BY DEF value
  <2> QED
    BY <1>3, <2>1, RotationRecord, SMTT(30)
<1>5. req' = [req EXCEPT ![s] = value]
  BY <1>c
<1> HIDE DEF value
<1>6. client \in [Devices -> ClientRecord]
  BY DEF Inv, Types
<1>7. client' \in [Devices -> ClientRecord]
  BY <1>2, <1>3, <1>6 DEF ClientRecord
<1>8. /\ client'[d].current = client[d].current /\ client'[d].pending = pending
      /\ \A e \in Devices \ {d} : client'[e] = client[e]
      /\ \A e \in Devices : /\ client'[e].revision = client[e].revision
                            /\ client'[e].payload = client[e].payload
  BY <1>2, <1>6 DEF ClientRecord
<1>9. \A e \in Devices : \/ client[e].current < client'[e].current
                         \/ /\ client[e].current = client'[e].current
                            /\ client[e].pending \in {0, client'[e].pending}
  BY <1>1, <1>8
<1>10. \A t \in Slots : RequestOK(req[t], devices', client', log')
  <2> TAKE t \in Slots
  <2>1. RotationOK(req[t], client')
    BY <1>6, <1>7, <1>9, RequestFacts, ClientAdvances
  <2> QED
    BY <1>2, <2>1, RequestFacts DEF RequestOK
<1>11. RequestOK(value, devices', client', log')
  BY <1>1, <1>3, <1>4, <1>8 DEF RequestOK, FlowOK, RotationOK, AcceptedOK, ValueOK, LateOK
<1>12. /\ (req \in [Slots -> RequestRecord])'
       /\ \A t \in Slots : RequestOK(req'[t], devices', client', log')
  <2>1. req \in [Slots -> RequestRecord]
    BY DEF Inv, Types
  <2> QED
    BY <1>4, <1>5, <1>10, <1>11, <2>1, SlotStep, Zenon
<1>13. Types'
  BY <1>2, <1>7, <1>12 DEF Inv, Types
<1>14. \A e \in Devices : TokensOK(devices'[e], client'[e])
  <2> TAKE e \in Devices
  <2>1. CASE e = d
    BY <1>1, <1>2, <1>3, <1>8, <2>1 DEF TokensOK
  <2>2. CASE e # d
    BY <1>2, <1>8, <2>2, DeviceFacts
  <2> QED
    BY <2>1, <2>2
<1>15. \A e \in Devices : WrittenIn(log', client'[e].revision, client'[e].payload)
  BY <1>2, <1>8, DeviceFacts
<1> QED
  BY <1>2, <1>12, <1>13, <1>14, <1>15, Zenon DEF Inv, NoLostUpdate

\* A device that adopts a token as its current one.
Promoted(c, t) == [c EXCEPT !.current = t, !.pending = 0]
LEMMA ClientPromotes ==
    ASSUME NEW c \in ClientRecord, NEW t \in Nat \ {0}, NEW v, v = Promoted(c, t)
    PROVE  /\ v \in ClientRecord /\ v.current = t /\ v.pending = 0
           /\ v.revision = c.revision /\ v.payload = c.payload
BY Zenon DEF Promoted, ClientRecord

\* An answer arrives: the device drops a token only for one the registry has.
LEMMA StepReceive ==
    ASSUME Inv, NEW s \in Slots, ReceiveAnswer(s)
    PROVE  Inv'
<1> DEFINE d == From(s)
           r == req[s]
<1>1. /\ r.pc = "answered" /\ client' = [client EXCEPT ![d] = Learn(d, r)]
      /\ req' = [req EXCEPT ![s] = Idle]
      /\ UNCHANGED <<devices, codes, preference, log, lateEffects>>
  BY DEF ReceiveAnswer, Pc
<1>2. /\ r \in RequestRecord /\ d \in Devices /\ AcceptedOK(r, devices) /\ ValueOK(r, log)
      /\ r.kind = "connect" => r.token # 0
  BY <1>1, RequestFacts DEF FlowOK, From
<1>3. /\ client[d] \in ClientRecord
      /\ client[d].current \in Nat \ {0} /\ client[d].pending \in {0, client[d].current + 1}
      /\ devices[d].token \in {client[d].current, client[d].pending}
      /\ devices[d].version = devices[d].token
      /\ WrittenIn(log, client[d].revision, client[d].payload)
  BY <1>2, DeviceFacts, SMTT(30) DEF TokensOK
<1> DEFINE value == Learn(d, r)
<1>4. /\ value \in ClientRecord
      /\ \/ client[d].current < value.current
         \/ client[d].current = value.current /\ client[d].pending = value.pending
      /\ TokensOK(devices[d], value)
      /\ WrittenIn(log, value.revision, value.payload)
  <2>1. CASE r.kind = "connect" /\ r.token = client[d].pending
    <3>1. value = Promoted(client[d], r.token)
      BY <2>1, SMTT(30) DEF Learn, Promoted
    <3>2. /\ r.token \in Nat \ {0} /\ r.token = client[d].current + 1
          /\ devices[d].token = r.token
      BY <1>1, <1>2, <1>3, <2>1 DEF AcceptedOK, RequestRecord, From
    <3>3. /\ value \in ClientRecord /\ value.current = r.token /\ value.pending = 0
          /\ value.revision = client[d].revision /\ value.payload = client[d].payload
      <4>1. client[d] \in ClientRecord
        BY <1>3
      <4>2. r.token \in Nat \ {0}
        BY <3>2
      <4> HIDE DEF value, d, r
      <4> QED
        BY <3>1, <4>1, <4>2, ClientPromotes
    <3> QED
      BY <1>3, <3>2, <3>3 DEF TokensOK
  <2>2. CASE r.kind \in {"read", "write"}
    <3>1. value = [client[d] EXCEPT !.revision = r.answer.revision, !.payload = r.answer.payload]
      BY <2>2 DEF Learn
    <3>2. r.answer.revision \in Nat /\ r.answer.payload \in Authors
      BY <1>2 DEF RequestRecord
    <3>3. /\ value \in ClientRecord /\ value.current = client[d].current
          /\ value.pending = client[d].pending
          /\ value.revision = r.answer.revision /\ value.payload = r.answer.payload
      BY <1>3, <3>1, <3>2, Zenon DEF ClientRecord
    <3>4. WrittenIn(log, value.revision, value.payload)
      BY <1>1, <1>2, <2>2, <3>3 DEF ValueOK
    <3> QED
      BY <1>3, <3>3, <3>4 DEF TokensOK
  <2>3. CASE ~(r.kind = "connect" /\ r.token = client[d].pending) /\ r.kind \notin {"read", "write"}
    <3>1. value = client[d]
      BY <2>3 DEF Learn
    <3> QED
      BY <1>3, <3>1 DEF TokensOK
  <2> QED
    BY <2>1, <2>2, <2>3
<1>5. client' = [client EXCEPT ![d] = value]
  BY <1>1
<1> HIDE DEF value, d, r
<1>6. client \in [Devices -> ClientRecord]
  BY DEF Inv, Types
<1>7. /\ client' \in [Devices -> ClientRecord] /\ client'[d] = value
      /\ \A e \in Devices \ {d} : client'[e] = client[e]
  BY <1>2, <1>4, <1>5, <1>6
<1>8. \A e \in Devices : \/ client[e].current < client'[e].current
                         \/ /\ client[e].current = client'[e].current
                            /\ client[e].pending \in {0, client'[e].pending}
  BY <1>4, <1>7
<1>9. \A t \in Slots : RequestOK(req[t], devices', client', log')
  <2> TAKE t \in Slots
  <2>1. RotationOK(req[t], client')
    BY <1>6, <1>7, <1>8, RequestFacts, ClientAdvances
  <2> QED
    BY <1>1, <2>1, RequestFacts DEF RequestOK
<1>10. /\ (req \in [Slots -> RequestRecord])'
       /\ \A t \in Slots : RequestOK(req'[t], devices', client', log')
  <2>1. req \in [Slots -> RequestRecord]
    BY DEF Inv, Types
  <2> QED
    BY <1>1, <1>9, <2>1, IdleRecord, IdleIsOK, SlotStep, Zenon
<1>11. Types'
  BY <1>1, <1>7, <1>10 DEF Inv, Types
<1>12. \A e \in Devices : /\ TokensOK(devices'[e], client'[e])
                          /\ WrittenIn(log', client'[e].revision, client'[e].payload)
  <2> TAKE e \in Devices
  <2>1. CASE e = d
    BY <1>1, <1>4, <1>7, <2>1
  <2>2. CASE e # d
    BY <1>1, <1>7, <2>2, DeviceFacts
  <2> QED
    BY <2>1, <2>2
<1> QED
  BY <1>1, <1>10, <1>11, <1>12, Zenon DEF Inv, NoLostUpdate

\* A handler moves on with its request as it is.
At(r, where) == [r EXCEPT !.pc = where]
LEMMA Moved ==
    ASSUME NEW r \in RequestRecord, NEW where \in Where, NEW v, v = At(r, where)
    PROVE  /\ v \in RequestRecord
           /\ v.pc = where /\ v.kind = r.kind /\ v.from = r.from /\ v.token = r.token
           /\ v.to = r.to /\ v.number = r.number /\ v.base = r.base /\ v.late = r.late
BY DEF At, RequestRecord

\* A handler takes up a request and learns whether it comes too late.
LEMMA StepBegin ==
    ASSUME Inv, NEW s \in Slots, BeginHandler(s)
    PROVE  Inv'
<1>1. /\ req[s] \in RequestRecord /\ req[s].pc = "sent" /\ RequestOK(req[s], devices, client, log)
      /\ UNCHANGED <<devices, codes, preference, client, log, lateEffects>>
  BY RequestFacts DEF BeginHandler, Pc
<1> DEFINE late == req[s].kind \in Acting /\ TooLate(req[s])
           where == CASE req[s].kind = "rotate" -> "rotating"
                      [] req[s].kind = "route" -> "authorizing"
                      [] OTHER -> "matching"
           v == [req[s] EXCEPT !.late = late, !.pc = where]
<1>2. req' = [req EXCEPT ![s] = v]
  BY DEF BeginHandler
<1>3. late \in BOOLEAN
  BY DEF TooLate
<1>4. /\ where \in {"rotating", "authorizing", "matching"}
      /\ where = "rotating" <=> req[s].kind = "rotate"
      /\ where = "authorizing" <=> req[s].kind = "route"
  OBVIOUS
<1>5. late => IF req[s].kind = "route" THEN devices[req[s].to].revoked
              ELSE devices[req[s].from].revoked \/ req[s].token < devices[req[s].from].token
  BY DEF TooLate
<1> HIDE DEF late, where
<1>6. /\ v \in RequestRecord /\ v.pc = where /\ v.kind = req[s].kind /\ v.from = req[s].from
      /\ v.token = req[s].token /\ v.to = req[s].to /\ v.number = req[s].number
      /\ v.pending = req[s].pending /\ v.base = req[s].base /\ v.late = late
  BY <1>1, <1>3, <1>4, Zenon DEF RequestRecord, Where
<1> HIDE DEF v
<1>7. FlowOK(v)
  BY <1>1, <1>4, <1>6, SMTT(30) DEF RequestOK, FlowOK, RequestRecord, Kinds
<1>8. RotationOK(v, client) /\ AcceptedOK(v, devices) /\ ValueOK(v, log)
  BY <1>1, <1>4, <1>6 DEF RequestOK, RotationOK, AcceptedOK, ValueOK
<1>9. LateOK(v, devices)
  BY <1>4, <1>5, <1>6 DEF LateOK
<1> QED
  BY <1>1, <1>2, <1>6, <1>7, <1>8, <1>9, OnlyRequest, Zenon DEF RequestOK

\* A request moves past a check it could not have passed if it were late.
LEMMA OnlyGoto ==
    ASSUME Inv, NEW s \in Slots, NEW where \in {"loading", "reading", "writing", "appending"},
           Goto(s, where), ~req[s].late,
           where = "loading" => Pc(s) = "matching",
           where = "reading" => Pc(s) = "loading" /\ req[s].kind = "read",
           where = "writing" => Pc(s) = "loading" /\ req[s].kind = "write",
           where = "appending" => Pc(s) = "authorizing",
           UNCHANGED <<devices, codes, preference, client, log, lateEffects>>
    PROVE  Inv'
<1> DEFINE v == At(req[s], where)
<1>1. req[s] \in RequestRecord /\ RequestOK(req[s], devices, client, log)
  BY RequestFacts
<1>2. req' = [req EXCEPT ![s] = v]
  BY DEF Goto, At
<1>3. /\ v \in RequestRecord
      /\ v.pc = where /\ v.kind = req[s].kind /\ v.from = req[s].from /\ v.token = req[s].token
      /\ v.to = req[s].to /\ v.number = req[s].number /\ v.base = req[s].base
      /\ v.late = req[s].late
  <2>1. where \in Where
    BY DEF Where
  <2> HIDE DEF v
  <2>2. v = At(req[s], where)
    BY DEF v
  <2> QED
    BY <1>1, <2>1, <2>2, Moved
<1> HIDE DEF v
<1>4. ~v.late
  BY <1>3, ZenonT(30)
<1>5. FlowOK(v)
  BY <1>1, <1>3 DEF RequestOK, FlowOK, Pc
<1>6. RotationOK(v, client) /\ AcceptedOK(v, devices)
  BY <1>3, SMTT(30) DEF RotationOK, AcceptedOK
<1>7. ValueOK(v, log)
  BY <1>1, <1>3 DEF RequestOK, FlowOK, ValueOK, Pc
<1>8. LateOK(v, devices)
  BY <1>4 DEF LateOK
<1> QED
  BY <1>2, <1>3, <1>5, <1>6, <1>7, <1>8, OnlyRequest, Zenon DEF RequestOK

\* The row matches only while the request is not late.
LEMMA MatchIsNotLate ==
    ASSUME Inv, NEW s \in Slots, Pc(s) \in {"matching", "loading"}, RowMatches(s)
    PROVE  ~req[s].late
<1>1. /\ LateOK(req[s], devices) /\ FlowOK(req[s]) /\ req[s] \in RequestRecord
  BY RequestFacts
<1>2. From(s) \in Devices /\ req[s].kind # "route"
  BY <1>1 DEF FlowOK, From, Pc
<1>3. ~devices[From(s)].revoked /\ devices[From(s)].token = req[s].token
  BY DEF RowMatches
<1>4. devices[From(s)].token \in Nat
  BY <1>2, DeviceFacts
<1> QED
  BY <1>1, <1>2, <1>3, <1>4 DEF LateOK, From

\* Marking a device online goes on only for a row that matches.
LEMMA StepMarkOnline ==
    ASSUME Inv, NEW s \in Slots, MarkOnline(s)
    PROVE  Inv'
<1>1. CASE RowMatches(s)
  BY <1>1, MatchIsNotLate, OnlyGoto DEF MarkOnline
<1>2. CASE ~RowMatches(s)
  BY <1>2, OnlyFinish DEF MarkOnline
<1> QED
  BY <1>1, <1>2

\* An answer with a value of the revision it names.
LEMMA OnlyAnswer ==
    ASSUME Inv, NEW s \in Slots, Pc(s) # "idle", NEW n \in Nat, NEW p \in Authors, Answer(s, n, p)
    PROVE  \E v \in RequestRecord :
               /\ req' = [req EXCEPT ![s] = v]
               /\ v.pc = "answered" /\ v.kind = req[s].kind /\ v.from = From(s)
               /\ v.kind = "connect" => v.token = req[s].token
               /\ v.answer.revision = n /\ v.answer.payload = p /\ ~v.late
<1> DEFINE t == IF req[s].kind = "connect" THEN req[s].token ELSE 0
           v == Answered(req[s].kind, From(s), t, n, p)
<1>1. req[s] \in RequestRecord /\ From(s) \in Devices
  BY RequestFacts DEF FlowOK, From, Pc
<1>2. req[s].kind \in Kinds /\ t \in Nat /\ (req[s].kind = "connect" => t = req[s].token)
  BY <1>1 DEF RequestRecord
<1>3. req' = [req EXCEPT ![s] = v]
  BY DEF Answer, Answered
<1> HIDE DEF t
<1>4. /\ v \in RequestRecord
      /\ v.pc = "answered" /\ v.kind = req[s].kind /\ v.from = From(s) /\ v.token = t
      /\ v.answer.revision = n /\ v.answer.payload = p /\ ~v.late
  <2> HIDE DEF v
  <2>1. v = Answered(req[s].kind, From(s), t, n, p)
    BY DEF v
  <2> QED
    BY <1>1, <1>2, <2>1, AnswerRecord
<1> HIDE DEF v
<1>5. v.kind = "connect" => v.token = req[s].token
  BY <1>2, <1>4
<1> QED
  BY <1>3, <1>4, <1>5, Zenon

\* Loading the identity goes on only for a row that still matches.
LEMMA StepLoadIdentity ==
    ASSUME Inv, NEW s \in Slots, LoadIdentity(s)
    PROVE  Inv'
<1>1. /\ Pc(s) = "loading" /\ UNCHANGED <<devices, codes, preference, client, log, lateEffects>>
  BY DEF LoadIdentity
<1>2. req[s] \in RequestRecord /\ FlowOK(req[s])
  BY RequestFacts
<1>3. CASE ~RowMatches(s)
  BY <1>1, <1>3, OnlyFinish DEF LoadIdentity
<1>4. CASE RowMatches(s) /\ req[s].kind = "read"
  <2>1. Goto(s, "reading")
    BY <1>4 DEF LoadIdentity
  <2> QED
    BY <1>1, <1>4, <2>1, MatchIsNotLate, OnlyGoto
<1>5. CASE RowMatches(s) /\ req[s].kind = "write"
  <2>1. Goto(s, "writing")
    BY <1>5 DEF LoadIdentity
  <2> QED
    BY <1>1, <1>5, <2>1, MatchIsNotLate, OnlyGoto
<1>6. CASE RowMatches(s) /\ req[s].kind \notin {"read", "write"}
  <2>1. Answer(s, 0, None) /\ None \in Authors
    BY <1>6 DEF LoadIdentity, Authors
  <2>2. req[s].kind = "connect" /\ From(s) \in Devices /\ req[s].token # 0
    BY <1>1, <1>2, <1>6 DEF FlowOK, From, Pc
  <2>3. PICK v \in RequestRecord :
               /\ req' = [req EXCEPT ![s] = v]
               /\ v.pc = "answered" /\ v.kind = req[s].kind /\ v.from = From(s)
               /\ v.kind = "connect" => v.token = req[s].token
               /\ ~v.late
    BY <1>1, <2>1, OnlyAnswer
  <2>4. devices[From(s)].token = req[s].token /\ devices[From(s)].token \in Nat
    BY <1>6, <2>2, DeviceFacts DEF RowMatches
  <2>5. RequestOK(v, devices, client, log)
    BY <2>2, <2>3, <2>4 DEF RequestOK, FlowOK, RotationOK, AcceptedOK, ValueOK, LateOK
  <2> QED
    BY <1>1, <2>3, <2>5, OnlyRequest, Zenon
<1> QED
  BY <1>3, <1>4, <1>5, <1>6

\* A read answers with a revision and the value it names.
LEMMA StepRead ==
    ASSUME Inv, NEW s \in Slots, ReadWorkspacePreference(s)
    PROVE  Inv'
<1>1. /\ Pc(s) = "reading" /\ Answer(s, preference.revision, preference.payload)
      /\ UNCHANGED <<devices, codes, preference, client, log, lateEffects>>
  BY DEF ReadWorkspacePreference
<1>2. /\ preference.revision \in Nat /\ preference.payload \in Authors
      /\ WrittenIn(log, preference.revision, preference.payload)
  BY SMTT(30) DEF Inv, Types
<1>3. req[s].kind = "read" /\ From(s) \in Devices
  BY <1>1, RequestFacts DEF FlowOK, From, Pc
<1>4. PICK v \in RequestRecord :
             /\ req' = [req EXCEPT ![s] = v]
             /\ v.pc = "answered" /\ v.kind = req[s].kind /\ v.from = From(s)
             /\ v.answer.revision = preference.revision
             /\ v.answer.payload = preference.payload /\ ~v.late
  BY <1>1, <1>2, OnlyAnswer
<1>5. RequestOK(v, devices, client, log)
  BY <1>2, <1>3, <1>4 DEF RequestOK, FlowOK, RotationOK, AcceptedOK, ValueOK, LateOK
<1> QED
  BY <1>1, <1>4, <1>5, OnlyRequest, Zenon

\* The compare-and-set: the expected revision is the last one, so the value the
\* request was composed on is the one it replaces.
LEMMA StepWrite ==
    ASSUME Inv, NEW s \in Slots, WriteWorkspacePreference(s)
    PROVE  Inv'
<1> DEFINE Entry == [base : Authors, payload : Authors]
<1>1. Pc(s) = "writing" /\ UNCHANGED <<devices, codes, client>>
  BY DEF WriteWorkspacePreference
<1>2. CASE ~RevisionIsExpected(s)
  BY <1>1, <1>2, OnlyFinish DEF WriteWorkspacePreference
<1>3. CASE RevisionIsExpected(s)
  <2> DEFINE n == req[s].number
             e == [base |-> req[s].base, payload |-> req[s].payload]
  <2>1. /\ preference' = [revision |-> n + 1, payload |-> req[s].payload]
        /\ log' = Append(log, e) /\ Answer(s, n + 1, req[s].payload) /\ Effect(s)
    BY <1>3, SMTT(30) DEF WriteWorkspacePreference
  <2>2. /\ req[s] \in RequestRecord /\ req[s].kind = "write" /\ From(s) \in Devices
        /\ WrittenIn(log, n, req[s].base) /\ ~req[s].late
    BY <1>1, RequestFacts, SMTT(30) DEF FlowOK, ValueOK, LateOK, From, Pc
  <2>3. n \in Nat /\ req[s].base \in Authors /\ req[s].payload \in Authors
    BY <2>2 DEF RequestRecord
  <2>4. /\ n = Len(log) /\ log \in Seq(Entry) /\ e \in Entry
    BY <1>3, <2>3, SMTT(30) DEF RevisionIsExpected, Inv, Types
  <2>5. lateEffects' = {}
    BY <2>1, <2>2, SMTT(30) DEF Effect, Inv
  <2>6. WrittenIn(log', n + 1, req[s].payload) /\ Len(log') = n + 1
    BY <2>1, <2>3, <2>4 DEF WrittenIn
  <2>7. \A d \in Devices : WrittenIn(log', client'[d].revision, client'[d].payload)
    BY <1>1, <2>1, <2>4, DeviceFacts, LogGrows, Zenon
  <2>8. \A t \in Slots : RequestOK(req[t], devices', client', log')
    <3> TAKE t \in Slots
    <3>1. ValueOK(req[t], log')
      BY <2>1, <2>4, RequestFacts, LogGrowsRequest, ZenonT(30)
    <3> QED
      BY <1>1, <3>1, RequestFacts DEF RequestOK
  <2>9. PICK v \in RequestRecord :
             /\ req' = [req EXCEPT ![s] = v]
             /\ v.pc = "answered" /\ v.kind = req[s].kind /\ v.from = From(s)
             /\ v.answer.revision = n + 1
             /\ v.answer.payload = req[s].payload /\ ~v.late
    <3>1. n + 1 \in Nat /\ Pc(s) # "idle"
      BY <1>1, <2>3
    <3> QED
      BY <2>1, <2>3, <3>1, OnlyAnswer, SMTT(30)
  <2>10. RequestOK(v, devices', client', log')
    BY <2>2, <2>6, <2>9 DEF RequestOK, FlowOK, RotationOK, AcceptedOK, ValueOK, LateOK
  <2>11. /\ (req \in [Slots -> RequestRecord])'
         /\ \A t \in Slots : RequestOK(req'[t], devices', client', log')
    <3>1. req \in [Slots -> RequestRecord]
      BY DEF Inv, Types
    <3> QED
      BY <2>8, <2>9, <2>10, <3>1, SlotStep, Zenon
  <2>12. Types'
    <3>1. preference' \in [revision : Nat, payload : Authors]
      BY <2>1, <2>3
    <3>2. log' \in Seq(Entry)
      BY <2>1, <2>4
    <3> QED
      BY <1>1, <2>11, <3>1, <3>2 DEF Inv, Types
  <2>13. NoLostUpdate'
    <3>1. NoLostUpdate
      BY DEF Inv
    <3>2. SUFFICES ASSUME NEW i \in DOMAIN log'
                   PROVE  log'[i].base = IF i = 1 THEN None ELSE log'[i - 1].payload
      BY DEF NoLostUpdate
    <3>3. /\ i \in 1..(n + 1) /\ (i <= n => log'[i] = log[i] /\ i \in DOMAIN log)
          /\ (i > 1 => log'[i - 1] = log[i - 1])
          /\ (i = n + 1 => log'[i] = e)
      BY <2>1, <2>3, <2>4, <3>2
    <3>4. CASE i <= n
      BY <2>3, <3>1, <3>3, <3>4 DEF NoLostUpdate
    <3>5. CASE i = n + 1
      BY <2>2, <2>3, <3>3, <3>5 DEF WrittenIn
    <3> QED
      BY <2>3, <3>3, <3>4, <3>5
  <2>14. \A d \in Devices : TokensOK(devices'[d], client'[d])
    BY <1>1, DeviceFacts, SMTT(30)
  <2>15. WrittenIn(log', preference'.revision, preference'.payload)
         /\ preference'.revision = Len(log')
    BY <2>1, <2>6
  <2> QED
    BY <2>5, <2>7, <2>11, <2>12, <2>13, <2>14, <2>15 DEF Inv
<1> QED
  BY <1>2, <1>3

\* A registry that only moves forward keeps the requests in order.
LEMMA RequestsUnderGrowth ==
    ASSUME Inv, devices' \in [Devices -> DeviceRecord],
           \A d \in Devices : devices[d].token <= devices'[d].token,
           \A d \in Devices : devices[d].revoked => devices'[d].revoked,
           UNCHANGED <<client, log>>
    PROVE  \A t \in Slots : RequestOK(req[t], devices', client', log')
<1> TAKE t \in Slots
<1>1. devices \in [Devices -> DeviceRecord]
  BY DEF Inv, Types
<1>2. AcceptedOK(req[t], devices') /\ LateOK(req[t], devices')
  BY <1>1, RequestFacts, RegistryGrows
<1> QED
  BY <1>2, RequestFacts DEF RequestOK

\* A revocation takes the device out and leaves its tokens alone.
LEMMA StepRevoke ==
    ASSUME Inv, NEW d \in Devices, RevokeDevice(d)
    PROVE  Inv'
<1>1. /\ devices' = [devices EXCEPT ![d].revoked = TRUE]
      /\ UNCHANGED <<codes, preference, client, req, log, lateEffects>>
  BY DEF RevokeDevice
<1>2. devices \in [Devices -> DeviceRecord]
  BY DEF Inv, Types
<1>3. /\ devices' \in [Devices -> DeviceRecord]
      /\ \A e \in Devices : /\ devices'[e].token = devices[e].token
                            /\ devices'[e].version = devices[e].version
  BY <1>1, <1>2, Zenon DEF DeviceRecord
<1>4. \A e \in Devices : devices[e].revoked => devices'[e].revoked
  BY <1>1, <1>2 DEF DeviceRecord
<1>5. \A e \in Devices : devices[e].token <= devices'[e].token
  BY <1>3, DeviceFacts
<1>6. \A t \in Slots : RequestOK(req'[t], devices', client', log')
  BY <1>1, <1>3, <1>4, <1>5, RequestsUnderGrowth, Zenon
<1>7. \A e \in Devices : TokensOK(devices'[e], client'[e])
  BY <1>1, <1>3, DeviceFacts DEF TokensOK
<1> QED
  BY <1>1, <1>3, <1>6, <1>7, Zenon DEF Inv, Types, NoLostUpdate

Replaced(row, t) == [row EXCEPT !.token = t, !.version = @ + 1]
\* A rotated row has the new token and the next version.
LEMMA RowReplaced ==
    ASSUME NEW row \in DeviceRecord, NEW t \in Nat \ {0}, NEW v, v = Replaced(row, t)
    PROVE  /\ v \in DeviceRecord /\ v.token = t /\ v.version = row.version + 1
           /\ v.revoked = row.revoked
<1>1. v = [row EXCEPT !.token = t, !.version = row.version + 1]
  BY DEF Replaced
<1>2. row.version + 1 \in Nat
  BY DEF DeviceRecord
<1>3. v \in DeviceRecord
  BY <1>1, <1>2, Zenon DEF DeviceRecord
<1>4. v.token = t /\ v.version = row.version + 1
  BY <1>1 DEF DeviceRecord
<1>5. v.revoked = row.revoked
  BY <1>1, Zenon DEF DeviceRecord
<1> QED
  BY <1>3, <1>4, <1>5

\* Spending a code leaves a sequence of codes.
LEMMA CodeSpent ==
    ASSUME NEW c \in Seq({"live", "spent"}), NEW n
    PROVE  [c EXCEPT ![n] = "spent"] \in Seq({"live", "spent"})
<1>1. CASE n \in 1..Len(c)
  BY <1>1
<1>2. CASE n \notin 1..Len(c)
  <2>1. [c EXCEPT ![n] = "spent"] = c
    BY <1>2
  <2> QED
    BY <2>1, Zenon
<1> QED
  BY <1>1, <1>2

\* The transaction of a rotation: the token replaced is the device's current
\* one, since a request never names a later one, and the new one is pending.
LEMMA StepRotate ==
    ASSUME Inv, NEW s \in Slots, RotateCredential(s)
    PROVE  Inv'
<1>1. Pc(s) = "rotating" /\ UNCHANGED <<preference, client, log>>
  BY DEF RotateCredential
<1>2. CASE ~MayRotate(s)
  BY <1>1, <1>2, OnlyFinish, SMTT(30) DEF RotateCredential
<1>3. CASE MayRotate(s)
  <2> DEFINE d == From(s)
             p == req[s].pending
             value == Replaced(devices[d], p)
  <2>1. /\ codes' = [codes EXCEPT ![d][req[s].number] = "spent"]
        /\ devices' = [devices EXCEPT ![d] = value]
        /\ req' = [req EXCEPT ![s] = Idle] /\ Effect(s)
    BY <1>3, SMTT(30) DEF RotateCredential, Finish, Replaced
  <2>2. /\ req[s] \in RequestRecord /\ req[s].kind = "rotate" /\ d \in Devices
        /\ RotationOK(req[s], client) /\ LateOK(req[s], devices)
    BY <1>1, RequestFacts DEF FlowOK, From, Pc
  <2>3. ~devices[d].revoked /\ devices[d].token = req[s].token
    BY <1>3, SMTT(30) DEF MayRotate
  <2>4. /\ client[d].current \in Nat \ {0} /\ client[d].pending \in Nat
        /\ devices[d] \in DeviceRecord /\ devices[d].token \in Nat \ {0}
        /\ devices[d].version = devices[d].token
        /\ client[d].pending \in {0, client[d].current + 1}
        /\ devices[d].token \in {client[d].current, client[d].pending}
    BY <2>2, DeviceFacts, SMTT(30) DEF TokensOK
  <2>5. /\ p = devices[d].token + 1 /\ p = client[d].pending
    BY <1>1, <2>2, <2>3, <2>4, SMTT(30) DEF RotationOK, From, Pc
  <2>6. ~req[s].late
    BY <2>2, <2>3, <2>4 DEF LateOK, From
  <2>7. p \in Nat \ {0}
    BY <2>4, <2>5
  <2>8. /\ value \in DeviceRecord /\ value.token = p
        /\ value.version = devices[d].version + 1 /\ value.revoked = devices[d].revoked
    <3>1. devices[d] \in DeviceRecord
      BY <2>4
    <3>2. value = Replaced(devices[d], p)
      OBVIOUS
    <3> HIDE DEF value, d, p
    <3> QED
      BY <2>7, <3>1, <3>2, RowReplaced
  <2> HIDE DEF value, d, p
  <2>9. devices \in [Devices -> DeviceRecord]
    BY DEF Inv, Types
  <2>10. /\ devices' \in [Devices -> DeviceRecord] /\ devices'[d] = value
         /\ \A e \in Devices \ {d} : devices'[e] = devices[e]
    BY <2>1, <2>2, <2>8, <2>9
  <2>11. \A e \in Devices : devices[e].token <= devices'[e].token
    <3> TAKE e \in Devices
    <3>1. CASE e = d
      BY <2>4, <2>5, <2>8, <2>10, <3>1
    <3>2. CASE e # d
      BY <2>10, <3>2, DeviceFacts
    <3> QED
      BY <3>1, <3>2
  <2>12. \A e \in Devices : devices[e].revoked => devices'[e].revoked
    BY <2>3, <2>10
  <2>13. \A t \in Slots : RequestOK(req[t], devices', client', log')
    BY <1>1, <2>10, <2>11, <2>12, RequestsUnderGrowth
  <2>14. /\ (req \in [Slots -> RequestRecord])'
         /\ \A t \in Slots : RequestOK(req'[t], devices', client', log')
    <3>1. req \in [Slots -> RequestRecord]
      BY DEF Inv, Types
    <3> QED
      BY <2>1, <2>13, <3>1, IdleRecord, IdleIsOK, SlotStep, Zenon
  <2>15. codes' \in [Devices -> Seq({"live", "spent"})]
    <3>1. codes \in [Devices -> Seq({"live", "spent"})]
      BY DEF Inv, Types
    <3>2. [codes[d] EXCEPT ![req[s].number] = "spent"] \in Seq({"live", "spent"})
      BY <2>2, <3>1, CodeSpent
    <3> QED
      BY <2>1, <2>2, <3>1, <3>2
  <2>16. Types'
    BY <1>1, <2>10, <2>14, <2>15 DEF Inv, Types
  <2>17. \A e \in Devices : TokensOK(devices'[e], client'[e])
    <3> TAKE e \in Devices
    <3>1. CASE e = d
      BY <1>1, <2>4, <2>5, <2>8, <2>10, <3>1, SMTT(30) DEF TokensOK
    <3>2. CASE e # d
      BY <1>1, <2>10, <3>2, DeviceFacts
    <3> QED
      BY <3>1, <3>2
  <2>18. lateEffects' = {}
    BY <2>1, <2>6 DEF Effect, Inv
  <2> QED
    BY <1>1, <2>14, <2>16, <2>17, <2>18 DEF Inv, NoLostUpdate
<1> QED
  BY <1>2, <1>3

\* Routing goes on only to a recipient that is in service.
LEMMA StepAuthorize ==
    ASSUME Inv, NEW s \in Slots, AuthorizeRecipient(s)
    PROVE  Inv'
<1>1. /\ Pc(s) = "authorizing"
      /\ UNCHANGED <<devices, codes, preference, client, log, lateEffects>>
  BY DEF AuthorizeRecipient
<1>2. CASE devices[req[s].to].revoked
  BY <1>1, <1>2, OnlyFinish DEF AuthorizeRecipient
<1>3. CASE ~devices[req[s].to].revoked
  <2>1. ~req[s].late
    BY <1>1, <1>3, RequestFacts DEF FlowOK, LateOK, Pc
  <2>2. Goto(s, "appending")
    BY <1>3 DEF AuthorizeRecipient
  <2> QED
    BY <1>1, <2>1, <2>2, OnlyGoto, SMTT(30)
<1> QED
  BY <1>2, <1>3

\* Appending takes effect only for a request that is not late.
LEMMA StepAppend ==
    ASSUME Inv, NEW s \in Slots, AppendDelivery(s)
    PROVE  Inv'
<1>1. /\ Pc(s) = "appending" /\ Finish(s) /\ Effect(s)
      /\ UNCHANGED <<devices, codes, preference, client, log>>
  BY DEF AppendDelivery
<1>2. ~req[s].late
  BY <1>1, RequestFacts DEF LateOK, Pc
<1>3. lateEffects' = lateEffects
  BY <1>1, <1>2, SMTT(30) DEF Effect
<1> QED
  BY <1>1, <1>3, OnlyFinish

\* An administrator issues a rotation code.
LEMMA StepIssue ==
    ASSUME Inv, NEW d \in Devices, IssueCredentialRotationCode(d)
    PROVE  Inv'
<1>1. /\ codes' = [codes EXCEPT ![d] = Append(@, "live")]
      /\ UNCHANGED <<devices, preference, client, req, log, lateEffects>>
  BY DEF IssueCredentialRotationCode
<1>2. codes' \in [Devices -> Seq({"live", "spent"})]
  BY <1>1 DEF Inv, Types
<1> QED
  BY <1>1, <1>2 DEF Inv, Types, NoLostUpdate

\* Every step preserves the invariant.
LEMMA StepInv == Inv /\ [Next]_vars => Inv'
<1> SUFFICES ASSUME Inv, [Next]_vars PROVE Inv'
  OBVIOUS
<1>1. CASE UNCHANGED vars
  BY <1>1 DEF vars, Inv, Types, NoLostUpdate
<1>2. ASSUME NEW d \in Managed, IssueCredentialRotationCode(d) \/ RevokeDevice(d) PROVE Inv'
  <2>1. d \in Devices
    BY RequestsAssumption
  <2> QED
    BY <1>2, <2>1, StepIssue, StepRevoke
<1>3. ASSUME NEW d \in Devices, NEW s \in Slots, SendRequest(s, d) \/ SendRotation(s, d)
      PROVE  Inv'
  BY <1>3, StepSend, StepSendRotation
<1>4. ASSUME NEW s \in Slots,
             ReceiveAnswer(s) \/ Lose(s) \/ BeginHandler(s) \/ MarkOnline(s) \/ LoadIdentity(s)
      PROVE  Inv'
  <2>1. ASSUME Lose(s) PROVE Inv'
    <3>1. Finish(s) /\ UNCHANGED <<devices, codes, preference, client, log, lateEffects>>
      BY <2>1 DEF Lose, Finish
    <3> QED
      BY <3>1, OnlyFinish
  <2> QED
    BY <1>4, <2>1, StepReceive, StepBegin, StepMarkOnline, StepLoadIdentity
<1>5. ASSUME NEW s \in Slots,
             \/ ReadWorkspacePreference(s) \/ WriteWorkspacePreference(s) \/ RotateCredential(s)
             \/ AuthorizeRecipient(s) \/ AppendDelivery(s)
      PROVE  Inv'
  BY <1>5, StepRead, StepWrite, StepRotate, StepAuthorize, StepAppend
<1> QED
  BY <1>1, <1>2, <1>3, <1>4, <1>5 DEF Next

\* The invariant holds in every reachable state.
LEMMA AlwaysInv == Spec => []Inv
BY InitInv, StepInv, PTL DEF Spec

-----------------------------------------------------------------------------
(* Theorems.                                                                *)

\* A write replaces exactly the value its device had read: the revision check
\* and the write are one statement, and a request carries the value its revision
\* names (WriteWorkspacePreference).
THEOREM UpdatesAreNotLost == Spec => []NoLostUpdate
<1>1. Inv => NoLostUpdate
  BY DEF Inv
<1> QED
  BY <1>1, AlwaysInv, PTL

\* A revision names one value for ever, in the registry, in every answer on its
\* way and in every device.
THEOREM RevisionsNameValues == Spec => []RevisionNamesValue
<1>1. Inv => RevisionNamesValue
  <2> SUFFICES ASSUME Inv PROVE RevisionNamesValue
    OBVIOUS
  <2>1. \A n, p : WrittenIn(log, n, p) <=> Written(n, p)
    BY SMTT(30) DEF WrittenIn, Written
  <2>2. \A s \in Slots : req[s].kind \in {"read", "write"} /\ Pc(s) = "answered" =>
                           Written(req[s].answer.revision, req[s].answer.payload)
    BY <2>1, RequestFacts DEF ValueOK, Pc
  <2> QED
    BY <2>1, <2>2 DEF RevisionNamesValue, Inv
<1> QED
  BY <1>1, AlwaysInv, PTL

\* A request whose handler starts after the revocation or rotation that concerns
\* it changes nothing: Authenticate's two statements, RotateCredential's condition
\* and the authorization of the recipient each stop it.
THEOREM LateRequestsAreStopped == Spec => []LateRequestsChangeNothing
<1>1. Inv => LateRequestsChangeNothing
  BY DEF Inv, LateRequestsChangeNothing
<1> QED
  BY <1>1, AlwaysInv, PTL

\* The token the registry accepts is one the device holds, and the credential
\* version changes exactly with it, however often a rotation is repeated.
THEOREM RotationNeverLocksOut == Spec => [](NeverLockedOut /\ VersionFollowsToken)
<1>1. Inv => NeverLockedOut /\ VersionFollowsToken
  BY DEF Inv, TokensOK, NeverLockedOut, VersionFollowsToken
<1> QED
  BY <1>1, AlwaysInv, PTL

=============================================================================
