------------------------- MODULE RegistryAccessProofs -------------------------
(***************************************************************************)
(* The registry and its callers, for any number of devices, codes, keys,   *)
(* epochs and administrators and any page size.  The registry: its newest  *)
(* roster and its rows agree, its chain verifies along the transitions, a  *)
(* revocation is final, every code works once.  The callers, who look first*)
(* and act later: they implement the registry, a rejection removes no member,*)
(* and what a device reads is consistent whatever happens meanwhile.       *)
(***************************************************************************)
EXTENDS RegistryAccess, FiniteSetTheorems, TLAPS

-----------------------------------------------------------------------------
(* The key in effect at an epoch.                                          *)

Activated(ts, e) == {i \in DOMAIN ts : ts[i].activation <= e}

\* EffectiveKey, for any transitions and any authority.
KeyAt(ts, auth, e) ==
    IF Activated(ts, e) # {}
    THEN ts[CHOOSE i \in Activated(ts, e) :
               \A j \in Activated(ts, e) : ts[j].activation <= ts[i].activation].new
    ELSE IF ts # <<>> THEN ts[1].previous ELSE auth

\* The transitions of n epochs: in the order of their activation, those in
\* effect at an epoch are the first ones, and the last leads to the authority.
History(ts, auth, n) ==
    /\ ts \in Seq(TransitionRows)
    /\ \A i, j \in DOMAIN ts : i < j => ts[i].activation < ts[j].activation
    /\ \A i \in DOMAIN ts : ts[i].activation \in 1..n
    /\ \A e \in 0..n : \E k \in 0..Len(ts) : Activated(ts, e) = 1..k
    /\ ts # <<>> => ts[Len(ts)].new = auth

\* The definition of the effective key (workspaceAuthorityAtEpoch), made a
\* function of the tables it reads.
LEMMA EffectiveKeyIsKeyAt ==
    \A e : /\ EffectiveKey(e) = KeyAt(transitions, authority, e)
           /\ EffectiveKey(e)' = KeyAt(transitions', authority', e)
BY Zenon DEF EffectiveKey, KeyBefore, KeyAt, Activated

\* The effective key is the new key of the last transition in effect, whatever
\* their number (workspaceAuthorityAtEpoch's ORDER BY and LIMIT 1).
LEMMA KeyOfPrefix ==
    ASSUME NEW ts, NEW auth, NEW n \in Nat, History(ts, auth, n), NEW other, NEW e \in Nat,
           NEW k \in 0..Len(ts), Activated(ts, e) = 1..k
    PROVE  KeyAt(ts, other, e) = IF k > 0 THEN ts[k].new
                                 ELSE IF ts # <<>> THEN ts[1].previous ELSE other
<1>1. CASE k = 0
  <2>1. Activated(ts, e) = {}
    BY <1>1
  <2> QED
    BY <1>1, <2>1 DEF KeyAt
<1>2. CASE k > 0
  <2> DEFINE Newest(i) == \A j \in Activated(ts, e) : ts[j].activation <= ts[i].activation
  <2>1. /\ \A i \in DOMAIN ts : ts[i].activation \in Nat
        /\ DOMAIN ts = 1..Len(ts) /\ Len(ts) \in Nat
    BY DEF TransitionRows, History
  <2>2. k \in Activated(ts, e) /\ Newest(k)
    <3>1. ASSUME NEW j \in Activated(ts, e) PROVE ts[j].activation <= ts[k].activation
      <4>1. j \in DOMAIN ts /\ k \in DOMAIN ts /\ (j = k \/ j < k)
        BY <1>2, <2>1
      <4> QED
        BY <2>1, <4>1 DEF History
    <3> QED
      BY <1>2, <3>1
  <2>3. ASSUME NEW i \in Activated(ts, e), Newest(i) PROVE i = k
    <3>1. i \in DOMAIN ts /\ k \in DOMAIN ts /\ k \in Activated(ts, e) /\ (i = k \/ i < k)
      BY <1>2, <2>1
    <3> QED
      BY <2>1, <2>3, <3>1 DEF History
  <2>4. (CHOOSE i \in Activated(ts, e) : Newest(i)) = k
    <3> HIDE DEF Newest
    <3> QED
      BY <2>2, <2>3, Zenon
  <2>5. Activated(ts, e) # {}
    BY <2>2, Zenon
  <2>6. KeyAt(ts, other, e) = ts[CHOOSE i \in Activated(ts, e) : Newest(i)].new
    BY <2>5, Zenon DEF KeyAt
  <2> HIDE DEF Newest
  <2> QED
    BY <1>2, <2>4, <2>6, Zenon
<1> QED
  BY <1>1, <1>2

\* At the newest epoch the authority itself is in effect.
LEMMA NewestKey ==
    ASSUME NEW ts, NEW auth, NEW n \in Nat, History(ts, auth, n)
    PROVE  KeyAt(ts, auth, n) = auth
<1>1. Activated(ts, n) = 1..Len(ts) /\ Len(ts) \in 0..Len(ts)
  BY DEF History, Activated
<1>2. KeyAt(ts, auth, n) = IF Len(ts) > 0 THEN ts[Len(ts)].new
                           ELSE IF ts # <<>> THEN ts[1].previous ELSE auth
  BY <1>1, KeyOfPrefix, Zenon
<1> QED
  BY <1>2 DEF History

\* A roster under the same authority.
LEMMA HistoryGrows ==
    ASSUME NEW ts, NEW auth, NEW n \in Nat, History(ts, auth, n)
    PROVE  History(ts, auth, n + 1)
<1>1. Activated(ts, n + 1) = 1..Len(ts) /\ Len(ts) \in 0..Len(ts)
  BY DEF History, Activated
<1>2. \A e \in 0..n + 1 : e \in 0..n \/ e = n + 1
  OBVIOUS
<1> QED
  BY <1>1, <1>2 DEF History

\* A rotation at the next epoch.  It leaves the key of every earlier epoch as it
\* was, although its previous key takes the authority's place in the lookup.
LEMMA HistoryRotates ==
    ASSUME NEW ts, NEW auth, NEW n \in Nat, History(ts, auth, n),
           NEW t \in TransitionRows, t.activation = n + 1, t.previous = auth
    PROVE  /\ History(Append(ts, t), t.new, n + 1)
           /\ \A e \in 0..n : /\ Activated(Append(ts, t), e) = Activated(ts, e)
                              /\ KeyAt(Append(ts, t), t.new, e) = KeyAt(ts, auth, e)
<1> DEFINE us == Append(ts, t)
<1>0. ts \in Seq(TransitionRows) /\ Len(ts) \in Nat /\ DOMAIN ts = 1..Len(ts)
  BY DEF History
<1>1. /\ us \in Seq(TransitionRows) /\ Len(us) = Len(ts) + 1 /\ us # <<>>
      /\ DOMAIN us = DOMAIN ts \cup {Len(ts) + 1} /\ Len(ts) \in Nat /\ DOMAIN ts = 1..Len(ts)
      /\ \A i \in DOMAIN ts : us[i] = ts[i]
      /\ us[Len(ts) + 1] = t
  <2>1. us \in Seq(TransitionRows) /\ Len(us) = Len(ts) + 1 /\ DOMAIN us = 1..Len(ts) + 1
    BY <1>0
  <2>2. DOMAIN us = DOMAIN ts \cup {Len(ts) + 1} /\ us # <<>>
    BY <1>0, <2>1
  <2>3. us[Len(ts) + 1] = t /\ \A i \in DOMAIN ts : us[i] = ts[i]
    BY <1>0
  <2> QED
    BY <1>0, <2>1, <2>2, <2>3, Zenon
<1>2. \A i \in DOMAIN us : us[i].activation \in 1..n + 1
  BY <1>1 DEF History
<1>3. \A i, j \in DOMAIN us : i < j => us[i].activation < us[j].activation
  BY <1>1 DEF History
<1>4. \A e \in 0..n : Activated(us, e) = Activated(ts, e)
  BY <1>1 DEF History, Activated
<1>5. Activated(us, n + 1) = 1..Len(us)
  BY <1>1, <1>2 DEF Activated
<1>6. ASSUME NEW e \in 0..n + 1 PROVE \E k \in 0..Len(us) : Activated(us, e) = 1..k
  <2>1. CASE e = n + 1
    BY <1>1, <1>5, <2>1
  <2>2. CASE e \in 0..n
    BY <1>1, <1>4, <2>2 DEF History
  <2> QED
    BY <2>1, <2>2
<1> HIDE DEF us
<1>7. History(us, t.new, n + 1)
  BY <1>1, <1>2, <1>3, <1>6, Zenon DEF History
<1>8. ASSUME NEW e \in 0..n PROVE KeyAt(us, t.new, e) = KeyAt(ts, auth, e)
  <2>1. PICK k \in 0..Len(ts) : Activated(ts, e) = 1..k
    BY Zenon DEF History
  <2>2. KeyAt(ts, auth, e) = IF k > 0 THEN ts[k].new
                             ELSE IF ts # <<>> THEN ts[1].previous ELSE auth
    BY <2>1, KeyOfPrefix
  <2>3. KeyAt(us, t.new, e) = IF k > 0 THEN us[k].new
                              ELSE IF us # <<>> THEN us[1].previous ELSE t.new
    BY <1>1, <1>4, <1>7, <2>1, KeyOfPrefix
  <2>4. ts = <<>> => Len(ts) = 0
    OBVIOUS
  <2>5. ts # <<>> => 1 \in DOMAIN ts
    BY <1>1 DEF History
  <2> QED
    BY <1>1, <2>1, <2>2, <2>3, <2>4, <2>5
<1> QED
  BY <1>4, <1>7, <1>8, Zenon DEF us

-----------------------------------------------------------------------------
(* The inductive invariant.                                                 *)

\* The columns of a device: it has a name once registered, approval and
\* certificate go together, the certificate is the device's own, and it was
\* issued before the revocation.
Recorded(d) ==
    /\ devices[d].state = "absent" \/ devices[d].name \in Names
    /\ devices[d].state = "approved" => devices[d].certificate # None
    /\ devices[d].certificate # None =>
         /\ devices[d].state \in {"approved", "revoked"}
         /\ devices[d].certificate.device = d
         /\ devices[d].state = "revoked" =>
              devices[d].certificate.epoch <= devices[d].revokedEpoch

RegInv ==
    /\ TypeOK /\ Len(rosters) <= MaxEpoch
    /\ RosterIsRegistry /\ ChainVerifies /\ BootstrapHasCertificate /\ RevocationIsFinal
    /\ History(transitions, authority, Len(rosters))
    /\ \A d \in Devices : Recorded(d)

\* Init establishes it: no roster, no transition, no device.
LEMMA RegistryStarts == Init => RegInv
<1> SUFFICES ASSUME Init PROVE RegInv
  BY Zenon
<1> USE RegistryAssumption DEF Init
<1>1. TypeOK
  BY DEF TypeOK, Absent, Unissued, DeviceRows, CodeRows
<1>2. \A d \in Devices : devices[d].state = "absent" /\ devices[d].certificate = None
  BY Zenon DEF Absent
<1>3. Approved = {} /\ Certified = {}
  BY <1>2, Zenon DEF Approved, Certified
<1>4. Len(rosters) = 0 /\ DOMAIN rosters = {} /\ rosters = <<>>
  OBVIOUS
<1>5. RosterIsRegistry
  BY <1>3, <1>4, Zenon DEF RosterIsRegistry, LatestRoster, NoRoster
<1>6. History(transitions, authority, Len(rosters))
  <2>1. \A e \in 0..0 : Activated(transitions, e) = 1..0
    BY DEF Activated
  <2>2. transitions \in Seq(TransitionRows) /\ DOMAIN transitions = {} /\ Len(transitions) = 0
    OBVIOUS
  <2>3. \A e \in 0..Len(rosters) : \E k \in 0..Len(transitions) :
          Activated(transitions, e) = 1..k
    <3>1. 0 \in 0..0
      OBVIOUS
    <3> QED
      BY <1>4, <2>1, <2>2, <3>1, Zenon
  <2> QED
    BY <2>2, <2>3, Zenon DEF History
<1> QED
  BY <1>1, <1>2, <1>3, <1>4, <1>5, <1>6
  DEF RegInv, ChainVerifies, BootstrapHasCertificate, RevocationIsFinal, Recorded

\* A transaction that changes no certificate and signs no roster (pairing codes,
\* enrollment, expiry, credentials, the removal of a device without certificate).
LEMMA QuietStep ==
    ASSUME RegInv, TypeOK', UNCHANGED <<authority, transitions, rosters>>,
           \A d \in Devices :
              /\ devices'[d].certificate = devices[d].certificate
              /\ devices'[d].state # devices[d].state =>
                   /\ devices[d].certificate = None
                   /\ devices'[d].state # "approved"
              /\ \/ devices[d].certificate = None
                 \/ devices'[d].revokedEpoch = devices[d].revokedEpoch
              /\ devices'[d].state = "absent" \/ devices'[d].name \in Names
    PROVE  RegInv'
<1>1. \A d \in Devices : /\ Recorded(d)'
                         /\ devices'[d].state = "approved" <=> devices[d].state = "approved"
  BY DEF RegInv, Recorded
<1>2. Approved' = Approved /\ Certified' = Certified
  BY <1>1, Zenon DEF Approved, Certified
<1>3. \A e : EffectiveKey(e)' = EffectiveKey(e)
  BY EffectiveKeyIsKeyAt, Zenon
<1>4. LatestRoster' = LatestRoster
  BY Zenon DEF LatestRoster
<1>5. RosterIsRegistry'
  <2>1. {devices[d].certificate : d \in Approved}' = {devices[d].certificate : d \in Approved}
    BY <1>2 DEF Approved
  <2> QED
    BY <1>4, <2>1, Zenon DEF RegInv, RosterIsRegistry
<1>6. ChainVerifies'
  BY <1>3, Zenon DEF RegInv, ChainVerifies
<1>7. BootstrapHasCertificate' /\ RevocationIsFinal'
  BY <1>2, <1>3 DEF RegInv, BootstrapHasCertificate, RevocationIsFinal, Certified
<1> QED
  BY <1>1, <1>5, <1>6, <1>7, Zenon DEF RegInv

\* A transaction that appends a roster: what the four membership changes share.
LEMMA RosterStep ==
    ASSUME RegInv, TypeOK', NextEpoch <= MaxEpoch,
           NEW r, rosters' = Append(rosters, r), r.key = authority',
           r.active = {devices'[d].certificate : d \in Approved'},
           \A c \in r.active : c.key = authority' /\ c.epoch <= NextEpoch,
           LatestRoster.revocations \subseteq r.revocations,
           History(transitions', authority', NextEpoch),
           \A e \in 0..Len(rosters) :
              KeyAt(transitions', authority', e) = KeyAt(transitions, authority, e),
           \A d \in Devices : Recorded(d)',
           \A d \in Devices :
              \/ /\ devices'[d].certificate = devices[d].certificate
                 /\ devices'[d].revokedEpoch = devices[d].revokedEpoch
                 /\ d \in Approved' <=> d \in Approved
              \/ /\ d \in Approved' /\ devices'[d].certificate.epoch = NextEpoch
              \/ /\ d \notin Approved'
                 /\ devices'[d].certificate = devices[d].certificate
                 /\ devices'[d].certificate \in r.revocations
                 /\ devices'[d].certificate.key = authority'
                 /\ devices'[d].revokedEpoch = NextEpoch
    PROVE  RegInv'
<1>1. /\ Len(rosters) \in Nat /\ DOMAIN rosters = 1..Len(rosters)
      /\ Len(rosters') = NextEpoch /\ DOMAIN rosters' = 1..NextEpoch
      /\ NextEpoch \in DOMAIN rosters' /\ rosters'[NextEpoch] = r
      /\ \A e \in DOMAIN rosters : e \in DOMAIN rosters' /\ rosters'[e] = rosters[e]
      /\ \A e \in DOMAIN rosters' : e \in DOMAIN rosters \/ e = NextEpoch
      /\ rosters' # <<>> /\ LatestRoster' = r
  <2>1. Len(rosters) \in Nat /\ DOMAIN rosters = 1..Len(rosters) /\ NextEpoch \in Nat
    BY DEF RegInv, TypeOK, NextEpoch
  <2>2. Len(rosters') = NextEpoch /\ DOMAIN rosters' = 1..NextEpoch
    BY <2>1 DEF RegInv, TypeOK, NextEpoch
  <2>3. /\ rosters'[NextEpoch] = r
        /\ \A e \in DOMAIN rosters : rosters'[e] = rosters[e]
    BY <2>1 DEF RegInv, TypeOK, NextEpoch
  <2>4. rosters' # <<>> /\ LatestRoster' = r
    BY <2>1, <2>2, <2>3 DEF LatestRoster, NextEpoch
  <2> QED
    BY <2>1, <2>2, <2>3, <2>4 DEF NextEpoch
<1>2. KeyAt(transitions', authority', NextEpoch) = authority'
  BY <1>1, NewestKey
<1>3. RosterIsRegistry'
  BY <1>1, Zenon DEF RosterIsRegistry
<1>4. ChainVerifies'
  <2>1. ASSUME NEW e \in DOMAIN rosters
        PROVE  /\ rosters'[e].key = KeyAt(transitions', authority', e)
               /\ \A c \in rosters'[e].active : c.key = rosters'[e].key /\ c.epoch <= e
    <3>1. e \in 0..Len(rosters)
      BY <1>1
    <3> QED
      BY <1>1, <3>1, EffectiveKeyIsKeyAt DEF RegInv, ChainVerifies
  <2>2. \A e \in DOMAIN rosters' :
           /\ rosters'[e].key = KeyAt(transitions', authority', e)
           /\ \A c \in rosters'[e].active : c.key = rosters'[e].key /\ c.epoch <= e
    BY <1>1, <1>2, <2>1
  <2> QED
    BY <2>2, EffectiveKeyIsKeyAt, Zenon DEF ChainVerifies
<1>5. BootstrapHasCertificate'
  <2>1. ASSUME NEW d \in Certified'
        PROVE  LET c == devices'[d].certificate
               IN  c.epoch \in DOMAIN rosters' /\ c \in rosters'[c.epoch].active
    <3>0. d \in Devices /\ devices'[d].certificate # None
      BY Zenon DEF Certified
    <3>1. CASE devices'[d].certificate = devices[d].certificate
      BY <1>1, <3>0, <3>1 DEF RegInv, BootstrapHasCertificate, Certified
    <3>2. CASE d \in Approved' /\ devices'[d].certificate.epoch = NextEpoch
      BY <1>1, <3>2, Zenon
    <3> QED
      BY <3>0, <3>1, <3>2, Zenon
  <2> QED
    BY <2>1, Zenon DEF BootstrapHasCertificate
<1>6. RevocationIsFinal'
  <2>1. ASSUME NEW d \in Certified' \ Approved'
        PROVE  LET v == devices'[d].revokedEpoch
               IN  /\ v \in DOMAIN rosters'
                   /\ \A e \in DOMAIN rosters' : e >= v =>
                        /\ \A c \in rosters'[e].active : c.device # d
                        /\ devices'[d].certificate \in rosters'[e].revocations
                   /\ KeyAt(transitions', authority', v) = devices'[d].certificate.key
    <3>0. d \in Devices /\ devices'[d].certificate # None
      BY Zenon DEF Certified
    <3>1. \A c \in r.active : c.device # d
      BY DEF Recorded, Approved
    <3>2. CASE /\ devices'[d].certificate = devices[d].certificate
               /\ devices'[d].revokedEpoch = devices[d].revokedEpoch
               /\ d \in Approved' <=> d \in Approved
      <4> DEFINE v == devices[d].revokedEpoch
      <4>1. /\ v \in DOMAIN rosters
            /\ \A e \in DOMAIN rosters : e >= v =>
                        /\ \A c \in rosters[e].active : c.device # d
                        /\ devices[d].certificate \in rosters[e].revocations
            /\ KeyAt(transitions, authority, v) = devices[d].certificate.key
        BY <3>0, <3>2, EffectiveKeyIsKeyAt, Zenon DEF RegInv, RevocationIsFinal, Certified
      <4>2. devices[d].certificate \in r.revocations
        BY <1>1, <4>1 DEF LatestRoster
      <4>3. v \in 0..Len(rosters)
        BY <1>1, <4>1
      <4> QED
        BY <1>1, <3>1, <3>2, <4>1, <4>2, <4>3
    <3>3. CASE /\ devices'[d].certificate \in r.revocations
               /\ devices'[d].certificate.key = authority'
               /\ devices'[d].revokedEpoch = NextEpoch
      BY <1>1, <1>2, <3>1, <3>3
    <3> QED
      BY <3>0, <3>2, <3>3, Zenon
  <2> QED
    BY <2>1, EffectiveKeyIsKeyAt, Zenon DEF RevocationIsFinal
<1> QED
  BY <1>1, <1>3, <1>4, <1>5, <1>6, Zenon DEF RegInv

\* The steps that sign nothing.
LEMMA UnsignedSteps ==
    ASSUME RegInv, Issuing \/ Joining \/ Credentials \/ \E d \in Devices : RevokeUncertified(d)
    PROVE  RegInv'
<1>0. TypeOK
  BY Zenon DEF RegInv
<1>1. ASSUME NEW c \in Codes, IssuePairingCode(c) \/ ExpireCode(c) PROVE RegInv'
  <2>1. codes' = [codes EXCEPT ![c] = codes'[c]] /\ codes'[c] \in CodeRows
    <3>1. CASE IssuePairingCode(c)
      BY <1>0, <3>1, Zenon DEF IssuePairingCode, TypeOK, CodeRows
    <3>2. CASE ExpireCode(c)
      BY <1>0, <3>2, Zenon DEF ExpireCode, TypeOK, CodeRows
    <3> QED
      BY <1>1, <3>1, <3>2, Zenon
  <2>2. UNCHANGED <<authority, transitions, rosters, devices>>
    BY <1>1, Zenon DEF IssuePairingCode, ExpireCode
  <2>3. TypeOK'
    BY <1>0, <2>1, <2>2, Zenon DEF TypeOK
  <2> QED
    BY <2>2, <2>3, QuietStep, Zenon DEF RegInv, Recorded
<1>2. ASSUME NEW d \in Devices, \/ ExpireProof(d) \/ CompletePendingIdentityProof(d)
                                \/ RevokeUncertified(d)
      PROVE  RegInv'
  <2>1. devices[d] \in DeviceRows
    BY <1>0, Zenon DEF TypeOK
  <2>2. /\ devices' = [devices EXCEPT ![d] = devices'[d]] /\ devices'[d] \in DeviceRows
        /\ devices'[d].certificate = devices[d].certificate
        /\ devices'[d].revokedEpoch = devices[d].revokedEpoch
        /\ devices'[d].name = devices[d].name
        /\ \/ devices'[d].state = devices[d].state
           \/ /\ devices[d].state \in {"pending_proof", "pending_approval"}
              /\ devices'[d].state # "approved"
    <3>1. CASE ExpireProof(d)
      BY <1>0, <2>1, <3>1, Zenon DEF ExpireProof, TypeOK, DeviceRows
    <3>2. CASE CompletePendingIdentityProof(d)
      BY <1>0, <2>1, <3>2, Zenon DEF CompletePendingIdentityProof, TypeOK, DeviceRows
    <3>3. CASE RevokeUncertified(d)
      BY <1>0, <2>1, <3>3, Zenon DEF RevokeUncertified, TypeOK, DeviceRows
    <3> QED
      BY <1>2, <3>1, <3>2, <3>3, Zenon
  <2>3. UNCHANGED <<authority, transitions, rosters, codes>>
    BY <1>2, Zenon DEF ExpireProof, CompletePendingIdentityProof, RevokeUncertified
  <2>4. TypeOK'
    BY <1>0, <2>2, <2>3, Zenon DEF TypeOK
  <2>5. \A x \in Devices : Recorded(x) /\ (x = d \/ devices'[x] = devices[x])
    BY <1>0, <2>2, Zenon DEF TypeOK, RegInv
  <2> QED
    BY <2>2, <2>3, <2>4, <2>5, QuietStep DEF Recorded
<1>3. ASSUME NEW d \in Devices, NEW n \in Names, NEW t \in Tokens, NEW c \in Codes,
             RegisterPending(d, n, t, c)
      PROVE  RegInv'
  <2>1. /\ devices' = [devices EXCEPT ![d] = devices'[d]] /\ devices'[d] \in DeviceRows
        /\ devices[d].state = "absent"
        /\ devices'[d].certificate = None /\ devices'[d].state = "pending_proof"
        /\ devices'[d].name \in Names
    BY <1>0, <1>3, Zenon DEF RegisterPending, TypeOK, DeviceRows, Absent
  <2>2. codes' = [codes EXCEPT ![c] = codes'[c]] /\ codes'[c] \in CodeRows
    BY <1>0, <1>3, Zenon DEF RegisterPending, TypeOK, CodeRows
  <2>3. UNCHANGED <<authority, transitions, rosters>>
    BY <1>3, Zenon DEF RegisterPending
  <2>4. TypeOK'
    BY <1>0, <2>1, <2>2, <2>3, Zenon DEF TypeOK
  <2>5. \A x \in Devices : Recorded(x) /\ (x = d \/ devices'[x] = devices[x])
    BY <1>0, <2>1, Zenon DEF TypeOK, RegInv
  <2> QED
    BY <2>1, <2>3, <2>4, <2>5, QuietStep DEF Recorded
<1>4. ASSUME NEW d \in Devices, NEW c \in Codes, IssueCredentialRotationCode(d, c)
      PROVE  RegInv'
  <2>1. codes' = [codes EXCEPT ![c] = codes'[c]] /\ codes'[c] \in CodeRows
    BY <1>0, <1>4, Zenon DEF IssueCredentialRotationCode, TypeOK, CodeRows
  <2>2. UNCHANGED <<authority, transitions, rosters, devices>>
    BY <1>4, Zenon DEF IssueCredentialRotationCode
  <2>3. TypeOK'
    BY <1>0, <2>1, <2>2, ZenonT(30) DEF TypeOK
  <2> QED
    BY <2>2, <2>3, QuietStep, Zenon DEF RegInv, Recorded
<1>5. ASSUME NEW d \in Devices, NEW c \in Codes, NEW t \in Tokens, NEW u \in Tokens,
             RotateCredential(d, c, t, u)
      PROVE  RegInv'
  <2>1. codes' = [codes EXCEPT ![c] = codes'[c]] /\ codes'[c] \in CodeRows
    BY <1>0, <1>5, Zenon DEF RotateCredential, TypeOK, CodeRows
  <2>2. /\ devices' = [devices EXCEPT ![d] = devices'[d]] /\ devices'[d] \in DeviceRows
        /\ devices'[d].certificate = devices[d].certificate
        /\ devices'[d].revokedEpoch = devices[d].revokedEpoch
        /\ devices'[d].state = devices[d].state /\ devices'[d].name = devices[d].name
    BY <1>0, <1>5, SMTT(30) DEF RotateCredential, TypeOK, DeviceRows
  <2>3. UNCHANGED <<authority, transitions, rosters>>
    BY <1>5, Zenon DEF RotateCredential
  <2>4. TypeOK' /\ \A x \in Devices : x = d \/ devices'[x] = devices[x]
    BY <1>0, <2>1, <2>2, <2>3, Zenon DEF TypeOK
  <2> QED
    BY <2>2, <2>3, <2>4, QuietStep DEF RegInv, Recorded
<1> QED
  BY <1>1, <1>2, <1>3, <1>4, <1>5, Zenon DEF Issuing, Joining, Credentials

\* The newest roster, also before the first one.
LEMMA LatestTyped ==
    ASSUME RegInv
    PROVE  /\ LatestRoster.active \subseteq Certificates
           /\ LatestRoster.revocations \subseteq Certificates
           /\ Len(rosters) \in Nat /\ NextEpoch \in Nat /\ NextEpoch = Len(rosters) + 1
           /\ None \notin Certificates
<1>1. rosters \in Seq(RosterRows) /\ Len(rosters) \in Nat
  BY DEF RegInv, TypeOK
<1>2. CASE rosters = <<>>
  BY <1>1, <1>2, RegistryAssumption DEF LatestRoster, NoRoster, NextEpoch
<1>3. CASE rosters # <<>>
  <2>1. rosters[Len(rosters)] \in RosterRows
    BY <1>1, <1>3
  <2> QED
    BY <1>1, <1>3, <2>1, RegistryAssumption DEF LatestRoster, RosterRows, NextEpoch
<1> QED
  BY <1>2, <1>3, Zenon

\* A roster under an unchanged authority, written with one device's record: what
\* approval, rename and revocation share.
LEMMA MemberStep ==
    ASSUME RegInv, NEW d \in Devices, NextEpoch <= MaxEpoch,
           NEW r \in RosterRows, rosters' = Append(rosters, r), r.key = authority,
           UNCHANGED <<authority, transitions, codes>>,
           NEW row \in DeviceRows, devices' = [devices EXCEPT ![d] = row],
           row.name \in Names,
           \/ /\ row.state = "approved"
              /\ row.certificate = [device |-> d, name |-> row.name, epoch |-> NextEpoch,
                                    key |-> authority]
              /\ r.active = {c \in LatestRoster.active : c.device # d} \cup {row.certificate}
              /\ r.revocations = LatestRoster.revocations
           \/ /\ row.state = "revoked" /\ row.revokedEpoch = NextEpoch
              /\ devices[d].state = "approved" /\ row.certificate = devices[d].certificate
              /\ r.active = {c \in LatestRoster.active : c.device # d}
              /\ r.revocations = LatestRoster.revocations \cup {row.certificate}
    PROVE  RegInv'
<1>1. /\ TypeOK /\ \A x \in Devices : Recorded(x)
      /\ RosterIsRegistry /\ BootstrapHasCertificate
      /\ History(transitions, authority, Len(rosters))
  BY Zenon DEF RegInv
<1>2. TypeOK' /\ devices'[d] = row /\ \A x \in Devices : x = d \/ devices'[x] = devices[x]
  BY <1>1 DEF TypeOK
<1>3. /\ row.certificate \in Certificates /\ row.certificate # None
      /\ row.certificate.device = d /\ row.certificate.key = authority
      /\ row.certificate.epoch <= NextEpoch
  <2>1. CASE row.state = "approved"
    BY <2>1, LatestTyped, RegistryAssumption, <1>1 DEF Certificates, TypeOK
  <2>2. CASE row.state = "revoked"
    <3>1. d \in Approved /\ d \in Certified /\ devices[d] \in DeviceRows
      BY <1>1, <2>2, Zenon DEF Approved, Certified, Recorded, TypeOK
    <3>2. /\ devices[d].certificate \in LatestRoster.active
          /\ devices[d].certificate.epoch \in DOMAIN rosters
      BY <1>1, <3>1, Zenon DEF RosterIsRegistry, BootstrapHasCertificate
    <3> QED
      BY <1>1, <2>2, <3>1, <3>2, LatestTyped
      DEF RosterIsRegistry, Recorded, Certified, TypeOK
  <2> QED
    BY <2>1, <2>2, Zenon
<1>4. \A x \in Devices : Recorded(x)'
  BY <1>1, <1>2, <1>3 DEF Recorded
<1>5. Approved' = IF row.state = "approved" THEN Approved \cup {d} ELSE Approved \ {d}
  BY <1>2, Zenon DEF Approved
<1>6. {c \in LatestRoster.active : c.device # d} =
        {devices'[x].certificate : x \in Approved \ {d}}
  <2>1. \A x \in Approved : devices[x].certificate.device = x
    BY <1>1, Zenon DEF Recorded, Approved
  <2>2. Approved \subseteq Devices
    BY Zenon DEF Approved
  <2> QED
    BY <1>1, <1>2, <2>1, <2>2 DEF RosterIsRegistry
<1>7. r.active = {devices'[x].certificate : x \in Approved'}
  <2>1. CASE row.state = "approved"
    <3>1. Approved' = (Approved \ {d}) \cup {d}
      BY <1>5, <2>1, Zenon
    <3> QED
      BY <1>2, <1>6, <2>1, <3>1
  <2>2. CASE row.state = "revoked"
    BY <1>5, <1>6, <2>2, Zenon
  <2> QED
    BY <2>1, <2>2, Zenon
<1>8. \A c \in r.active : c.key = authority' /\ c.epoch <= NextEpoch
  <2>1. ASSUME NEW x \in Approved
        PROVE devices[x].certificate.key = authority /\ devices[x].certificate.epoch <= NextEpoch
    <3>1. x \in Certified /\ devices[x].certificate \in LatestRoster.active
      BY <1>1, Zenon DEF Approved, Certified, Recorded, RosterIsRegistry
    <3>2. devices[x].certificate.epoch \in DOMAIN rosters /\ rosters \in Seq(RosterRows)
      BY <1>1, <3>1, Zenon DEF BootstrapHasCertificate, TypeOK
    <3> QED
      BY <1>1, <3>1, <3>2, LatestTyped DEF RosterIsRegistry
  <2>2. \A c \in LatestRoster.active : c.key = authority' /\ c.epoch <= NextEpoch
    BY <1>1, <2>1, Zenon DEF RosterIsRegistry
  <2> QED
    BY <1>3, <2>2, ZenonT(30)
<1>9. LatestRoster.revocations \subseteq r.revocations
  OBVIOUS
<1>10. History(transitions', authority', NextEpoch)
  <2>1. Len(rosters) \in Nat /\ NextEpoch = Len(rosters) + 1
    BY LatestTyped, Zenon
  <2>2. History(transitions, authority, Len(rosters) + 1)
    BY <1>1, <2>1, HistoryGrows, Zenon
  <2>3. transitions' = transitions /\ authority' = authority
    OBVIOUS
  <2> QED
    BY <2>1, <2>2, <2>3, Zenon
<1>11. \A x \in Devices : x # d => (x \in Approved' <=> x \in Approved)
  BY <1>5, Zenon
<1>12. d \in Approved' <=> row.state = "approved"
  BY <1>5, Zenon
<1> QED
  BY <1>2, <1>3, <1>4, <1>7, <1>8, <1>9, <1>10, <1>11, <1>12, RosterStep

\* The roster entries of the other devices, as each transaction computes them.
LEMMA OtherMembers ==
    ASSUME RegInv, NEW d \in Devices
    PROVE  /\ d \notin Approved => LatestRoster.active = {c \in LatestRoster.active : c.device # d}
           /\ d \in Approved => LatestRoster.active \ {devices[d].certificate} =
                                  {c \in LatestRoster.active : c.device # d}
<1>1. \A x \in Approved : devices[x].certificate.device = x
  BY Zenon DEF RegInv, Recorded, Approved
<1>2. LatestRoster.active = {devices[x].certificate : x \in Approved}
  BY Zenon DEF RegInv, RosterIsRegistry
<1> QED
  BY <1>1, <1>2

\* ApprovePendingMembership, RenameDevice and RevokeDevice of a member.
LEMMA MemberSteps ==
    ASSUME RegInv, NEW d \in Devices, NEW key \in Keys,
           \/ ApprovePendingMembership(d, key)
           \/ \E n \in Names : RenameDevice(d, n, key)
           \/ RevokeCertified(d, key)
    PROVE  RegInv'
<1>1. /\ TypeOK /\ Recorded(d) /\ devices[d] \in DeviceRows
      /\ d \in Approved <=> devices[d].state = "approved"
  BY Zenon DEF RegInv, TypeOK, Approved
<1>2. ASSUME ApprovePendingMembership(d, key) PROVE RegInv'
  <2> DEFINE certificate == Certify(d, devices[d].name, key)
             r == [active |-> LatestRoster.active \cup {certificate},
                   revocations |-> LatestRoster.revocations, renamed |-> None, key |-> key]
             row == [devices[d] EXCEPT !.state = "approved", !.certificate = certificate]
  <2>1. /\ devices[d].name \in Names /\ d \notin Approved /\ key = authority
        /\ NextEpoch <= MaxEpoch /\ rosters' = Append(rosters, r)
        /\ devices' = [devices EXCEPT ![d] = row]
        /\ UNCHANGED <<authority, transitions, codes>>
    BY <1>1, <1>2, Zenon
    DEF ApprovePendingMembership, CanExtend, InsertWorkspaceRoster, Recorded, TypeOK
  <2>2. certificate \in Certificates
    BY <2>1, LatestTyped, Zenon DEF Certify, Certificates
  <2>3. r \in RosterRows
    BY <2>2, LatestTyped, Zenon DEF RosterRows
  <2>4. row \in DeviceRows
    BY <1>1, <2>2, Zenon DEF DeviceRows
  <2>5. /\ row.name = devices[d].name /\ row.state = "approved" /\ row.certificate = certificate
        /\ certificate = [device |-> d, name |-> row.name, epoch |-> NextEpoch, key |-> authority]
    BY <1>1, <2>1, Zenon DEF DeviceRows, Certify
  <2>6. /\ r.active = {c \in LatestRoster.active : c.device # d} \cup {certificate}
        /\ r.revocations = LatestRoster.revocations /\ r.key = authority
    BY <2>1, OtherMembers, Zenon
  <2> HIDE DEF certificate, r, row
  <2> QED
    BY <2>1, <2>3, <2>4, <2>5, <2>6, MemberStep, Zenon
<1>3. ASSUME NEW n \in Names, RenameDevice(d, n, key) PROVE RegInv'
  <2> DEFINE certificate == Certify(d, n, key)
             r == [active |-> (LatestRoster.active \ {devices[d].certificate})
                                 \cup {certificate},
                   revocations |-> LatestRoster.revocations, renamed |-> d, key |-> key]
             row == [devices[d] EXCEPT !.name = n, !.certificate = certificate]
  <2>1. /\ d \in Approved /\ key = authority
        /\ NextEpoch <= MaxEpoch /\ rosters' = Append(rosters, r)
        /\ devices' = [devices EXCEPT ![d] = row]
        /\ UNCHANGED <<authority, transitions, codes>>
    BY <1>1, <1>3, Zenon DEF RenameDevice, CanExtend, InsertWorkspaceRoster, TypeOK
  <2>2. certificate \in Certificates
    BY <2>1, LatestTyped, Zenon DEF Certify, Certificates
  <2>3. r \in RosterRows
    BY <2>2, LatestTyped, Zenon DEF RosterRows
  <2>4. row \in DeviceRows
    BY <1>1, <2>2, Zenon DEF DeviceRows
  <2>5. /\ row.name = n /\ row.state = "approved" /\ row.certificate = certificate
        /\ certificate = [device |-> d, name |-> row.name, epoch |-> NextEpoch, key |-> authority]
    BY <1>1, <2>1, Zenon DEF DeviceRows, Certify
  <2>6. /\ r.active = {c \in LatestRoster.active : c.device # d} \cup {certificate}
        /\ r.revocations = LatestRoster.revocations /\ r.key = authority
    BY <2>1, OtherMembers, Zenon
  <2> HIDE DEF certificate, r, row
  <2> QED
    BY <2>1, <2>3, <2>4, <2>5, <2>6, MemberStep, Zenon
<1>4. ASSUME RevokeCertified(d, key) PROVE RegInv'
  <2> DEFINE r == [active |-> LatestRoster.active \ {devices[d].certificate},
                   revocations |-> LatestRoster.revocations \cup {devices[d].certificate},
                   renamed |-> None, key |-> key]
             row == [devices[d] EXCEPT !.state = "revoked", !.revokedEpoch = NextEpoch]
  <2>1. /\ d \in Approved /\ devices[d].state = "approved" /\ key = authority
        /\ NextEpoch <= MaxEpoch /\ rosters' = Append(rosters, r)
        /\ devices' = [devices EXCEPT ![d] = row]
        /\ UNCHANGED <<authority, transitions, codes>>
    BY <1>1, <1>4, Zenon DEF RevokeCertified, CanExtend, InsertWorkspaceRoster, TypeOK
  <2>2. devices[d].certificate \in Certificates /\ devices[d].name \in Names
    BY <1>1, <2>1, Zenon DEF DeviceRows, Recorded
  <2>3. r \in RosterRows
    BY <2>2, LatestTyped, Zenon DEF RosterRows
  <2>4. row \in DeviceRows
    BY <1>1, LatestTyped, Zenon DEF DeviceRows
  <2>5. /\ row.name = devices[d].name /\ row.state = "revoked"
        /\ row.certificate = devices[d].certificate /\ row.revokedEpoch = NextEpoch
    BY <1>1, Zenon DEF DeviceRows
  <2>6. /\ r.active = {c \in LatestRoster.active : c.device # d}
        /\ r.revocations = LatestRoster.revocations \cup {row.certificate}
        /\ r.key = authority
    BY <2>1, <2>5, OtherMembers, Zenon
  <2> HIDE DEF r, row
  <2> QED
    BY <2>1, <2>2, <2>3, <2>4, <2>5, <2>6, MemberStep, Zenon
<1> QED
  BY <1>2, <1>3, <1>4, Zenon

\* RotateWorkspaceAuthority: every active certificate is reissued, in the roster
\* and in its device's record, and one transition is stored.
LEMMA RotationStep ==
    ASSUME RegInv, NEW key \in Keys, NEW newKey \in Keys,
           RotateWorkspaceAuthority(key, newKey)
    PROVE  RegInv'
<1> DEFINE Reissue(c) == Certify(c.device, c.name, newKey)
           r == [active |-> {Reissue(c) : c \in LatestRoster.active},
                 revocations |-> LatestRoster.revocations, renamed |-> None, key |-> newKey]
           t == [previous |-> key, new |-> newKey, activation |-> NextEpoch]
<1>1. /\ TypeOK /\ \A x \in Devices : Recorded(x)
      /\ RosterIsRegistry /\ BootstrapHasCertificate
      /\ History(transitions, authority, Len(rosters))
  BY Zenon DEF RegInv
<1>2. /\ key = authority /\ NextEpoch <= MaxEpoch /\ rosters' = Append(rosters, r)
      /\ transitions' = Append(transitions, t) /\ authority' = newKey /\ codes' = codes
      /\ devices' = [d \in Devices |->
            IF \E c \in LatestRoster.active : c.device = d
            THEN [devices[d] EXCEPT !.certificate = Reissue(devices[d].certificate)]
            ELSE devices[d]]
  BY Zenon DEF RotateWorkspaceAuthority, CanExtend, InsertWorkspaceRoster
<1>3. \A c \in Certificates : /\ Reissue(c) \in Certificates /\ Reissue(c) # None
                              /\ Reissue(c).device = c.device
                              /\ Reissue(c).epoch = NextEpoch /\ Reissue(c).key = newKey
  BY LatestTyped, RegistryAssumption DEF Certify, Certificates
<1>4. r \in RosterRows /\ r.key = newKey /\ r.revocations = LatestRoster.revocations
      /\ r.active = {Reissue(c) : c \in LatestRoster.active}
  <2>1. {Reissue(c) : c \in LatestRoster.active} \subseteq Certificates
    <3> HIDE DEF Reissue
    <3> QED
      BY <1>3, LatestTyped, Zenon
  <2> HIDE DEF Reissue
  <2> QED
    BY <2>1, LatestTyped, Zenon DEF RosterRows
<1>5. t \in TransitionRows /\ t.activation = Len(rosters) + 1 /\ t.previous = authority
      /\ t.new = newKey
  BY <1>2, LatestTyped, Zenon DEF TransitionRows
<1> HIDE DEF Reissue, r, t
<1>6. ASSUME NEW d \in Devices
      PROVE  /\ (\E c \in LatestRoster.active : c.device = d) <=> d \in Approved
             /\ d \in Approved => devices[d].certificate \in Certificates
  <2>1. \A x \in Approved : x \in Devices /\ devices[x].certificate.device = x
    BY <1>1, Zenon DEF Recorded, Approved
  <2> QED
    BY <1>1, <2>1, LatestTyped DEF RosterIsRegistry
<1>7. ASSUME NEW d \in Devices
      PROVE  /\ devices'[d] \in DeviceRows /\ devices'[d].state = devices[d].state
             /\ devices'[d].name = devices[d].name
             /\ devices'[d].revokedEpoch = devices[d].revokedEpoch
             /\ devices'[d].certificate = IF d \in Approved THEN Reissue(devices[d].certificate)
                                          ELSE devices[d].certificate
  <2>1. devices[d] \in DeviceRows
    BY <1>1, Zenon DEF TypeOK
  <2>2. CASE d \in Approved
    <3>1. devices'[d] = [devices[d] EXCEPT !.certificate = Reissue(devices[d].certificate)]
      BY <1>2, <1>6, <2>2, Zenon
    <3>2. Reissue(devices[d].certificate) \in Certificates
      BY <1>3, <1>6, <2>2, Zenon
    <3> QED
      BY <2>1, <2>2, <3>1, <3>2, Zenon DEF DeviceRows
  <2>3. CASE d \notin Approved
    <3>1. devices'[d] = devices[d]
      BY <1>2, <1>6, <2>3, Zenon
    <3> QED
      BY <2>1, <2>3, <3>1, Zenon
  <2> QED
    BY <2>2, <2>3, Zenon
<1>8. TypeOK'
  <2>1. devices' \in [Devices -> DeviceRows]
    <3>1. devices' = [d \in Devices |-> devices'[d]]
      BY <1>2, Zenon
    <3> QED
      BY <1>7, <3>1, Zenon
  <2>2. rosters' \in Seq(RosterRows) /\ transitions' \in Seq(TransitionRows)
    BY <1>1, <1>2, <1>4, <1>5 DEF TypeOK
  <2> QED
    BY <1>1, <1>2, <2>1, <2>2, Zenon DEF TypeOK
<1>9. \A d \in Devices : Recorded(d)'
  BY <1>1, <1>3, <1>6, <1>7 DEF Recorded, Approved
<1>10. Approved' = Approved /\ Approved \subseteq Devices
  BY <1>7, Zenon DEF Approved
<1>11. r.active = {devices'[d].certificate : d \in Approved'}
  <2>1. {Reissue(c) : c \in LatestRoster.active} =
          {Reissue(devices[d].certificate) : d \in Approved}
    BY <1>1, Zenon DEF RosterIsRegistry
  <2>2. \A d \in Approved : devices'[d].certificate = Reissue(devices[d].certificate)
    BY <1>7, <1>10, Zenon
  <2> QED
    BY <1>4, <1>10, <2>1, <2>2, Zenon
<1>12. \A c \in r.active : c.key = authority' /\ c.epoch <= NextEpoch
  BY <1>2, <1>3, <1>4, LatestTyped
<1>13. History(transitions', authority', NextEpoch)
  BY <1>1, <1>2, <1>5, HistoryRotates, LatestTyped, Zenon
<1>14. \A e \in 0..Len(rosters) :
          KeyAt(transitions', authority', e) = KeyAt(transitions, authority, e)
  BY <1>1, <1>2, <1>5, HistoryRotates, LatestTyped
<1>15. \A d \in Devices : d \in Approved => devices'[d].certificate.epoch = NextEpoch
  BY <1>3, <1>6, <1>7
<1>16. \A d \in Devices :
          \/ /\ devices'[d].certificate = devices[d].certificate
             /\ devices'[d].revokedEpoch = devices[d].revokedEpoch
             /\ d \in Approved' <=> d \in Approved
          \/ d \in Approved' /\ devices'[d].certificate.epoch = NextEpoch
  BY <1>7, <1>10, <1>15, Zenon
<1>17. r.key = authority' /\ LatestRoster.revocations \subseteq r.revocations
  BY <1>2, <1>4, Zenon
<1> QED
  BY <1>2, <1>8, <1>9, <1>11, <1>12, <1>13, <1>14, <1>16, <1>17, RosterStep, Zenon

-----------------------------------------------------------------------------
(* The theorems about the registry.                                         *)

\* Every transaction of the store preserves the registry's invariant.
LEMMA RegistryStep == RegInv /\ [Next]_vars => RegInv'
<1> SUFFICES ASSUME RegInv, [Next]_vars PROVE RegInv'
  BY Zenon
<1>1. CASE Issuing \/ Joining \/ Credentials
  BY <1>1, UnsignedSteps, Zenon
<1>2. CASE Membership
  BY <1>2, UnsignedSteps, MemberSteps, RotationStep, Zenon DEF Membership, RevokeDevice
<1>3. CASE UNCHANGED vars
  <2>1. TypeOK'
    BY <1>3, Zenon DEF RegInv, TypeOK, vars
  <2> QED
    BY <1>3, <2>1, QuietStep, Zenon DEF vars, RegInv, Recorded
<1> QED
  BY <1>1, <1>2, <1>3, Zenon DEF Next

\* The registry keeps its invariant on its own.
THEOREM RegistryInductive == Spec => []RegInv
BY RegistryStarts, RegistryStep, PTL DEF Spec

\* After any sequence of store transactions, the newest roster lists exactly the
\* approved devices with the certificates on record, under the current authority
\* (ApprovePendingMembership, RenameDevice, RevokeDevice, RotateWorkspaceAuthority).
THEOREM RosterAlwaysIsRegistry == Spec => []RosterIsRegistry
<1>1. RegInv => RosterIsRegistry
  BY Zenon DEF RegInv
<1> QED
  BY <1>1, RegistryInductive, PTL

\* Every roster ever stored verifies under the key the transitions put in effect
\* at its epoch, however many rotations came before or after it.
THEOREM ChainAlwaysVerifies == Spec => []ChainVerifies
<1>1. RegInv => ChainVerifies
  BY Zenon DEF RegInv
<1> QED
  BY <1>1, RegistryInductive, PTL

\* The roster at the epoch of a device's certificate holds that certificate, so a
\* reader that starts at zero can verify its own membership (ReadMembershipState).
THEOREM BootstrapAlwaysWorks == Spec => []BootstrapHasCertificate
<1>1. RegInv => BootstrapHasCertificate
  BY Zenon DEF RegInv
<1> QED
  BY <1>1, RegistryInductive, PTL

\* A revoked member stays out of every later roster, every later roster records
\* its revocation, and the effective key of its last epoch never changes.
THEOREM RevocationStaysFinal == Spec => []RevocationIsFinal
<1>1. RegInv => RevocationIsFinal
  BY Zenon DEF RegInv
<1> QED
  BY <1>1, RegistryInductive, PTL

-----------------------------------------------------------------------------
(* What a registry step leaves alone.                                       *)

\* Rosters and transitions are only ever appended, a rotation takes effect at
\* the roster stored with it, and a revoked member's row is final.
Grown ==
    /\ \A e \in DOMAIN rosters : e \in DOMAIN rosters' /\ rosters'[e] = rosters[e]
    /\ Len(rosters) <= Len(rosters')
    /\ \/ transitions' = transitions /\ authority' = authority
       \/ \E t \in TransitionRows : /\ transitions' = Append(transitions, t)
                                    /\ t.activation = Len(rosters) + 1
                                    /\ t.previous = authority /\ t.new = authority'
    /\ \A d \in Certified \ Approved :
         /\ d \in Certified' \ Approved'
         /\ devices'[d].revokedEpoch = devices[d].revokedEpoch

\* A transaction only extends the chain, the transitions and the revocations.
LEMMA RegistryGrows == RegInv /\ [Next]_vars => Grown
<1> SUFFICES ASSUME RegInv, [Next]_vars PROVE Grown
  BY Zenon
<1>1. /\ rosters \in Seq(RosterRows) /\ devices \in [Devices -> DeviceRows] /\ authority \in Keys
      /\ NextEpoch = Len(rosters) + 1 /\ NextEpoch \in Nat
  BY LatestTyped, Zenon DEF RegInv, TypeOK
<1>2. \A d \in Certified \ Approved :
        d \in Devices /\ devices[d].state = "revoked" /\ devices[d].certificate # None
  BY Zenon DEF RegInv, Recorded, Certified, Approved
<1>3. ASSUME NEW r, rosters' = Append(rosters, r)
      PROVE  /\ \A e \in DOMAIN rosters : e \in DOMAIN rosters' /\ rosters'[e] = rosters[e]
             /\ Len(rosters) <= Len(rosters')
  <2>1. /\ Len(rosters') = Len(rosters) + 1 /\ DOMAIN rosters = 1..Len(rosters)
        /\ Len(rosters) \in Nat /\ DOMAIN rosters' = 1..Len(rosters) + 1
    BY <1>1, <1>3
  <2>2. \A e \in DOMAIN rosters : rosters'[e] = rosters[e]
    BY <1>1, <1>3
  <2> QED
    BY <2>1, <2>2
<1>4. ASSUME NEW d \in Devices, \A x \in Devices : x = d \/ devices'[x] = devices[x],
             devices[d].state # "revoked"
      PROVE  \A x \in Certified \ Approved :
                x \in Certified' \ Approved' /\ devices'[x].revokedEpoch = devices[x].revokedEpoch
  BY <1>2, <1>4, Zenon DEF Certified, Approved
<1>5. CASE Issuing \/ Joining \/ Credentials \/ (\E d \in Devices : RevokeUncertified(d))
           \/ UNCHANGED vars
  <2>1. UNCHANGED <<authority, transitions, rosters>>
    BY <1>5, ZenonT(30) DEF Issuing, Joining, Credentials, IssuePairingCode, ExpireCode, ExpireProof,
                CompletePendingIdentityProof, RegisterPending, IssueCredentialRotationCode,
                RotateCredential, RevokeUncertified, vars
  <2>2. \A x \in Certified \ Approved :
           /\ devices'[x].certificate = devices[x].certificate
           /\ devices'[x].state = devices[x].state
           /\ devices'[x].revokedEpoch = devices[x].revokedEpoch
    <3>1. CASE Issuing
      BY <1>1, <1>2, <3>1 DEF Issuing, IssuePairingCode, ExpireCode, ExpireProof, DeviceRows
    <3>2. CASE Joining
      BY <1>1, <1>2, <3>2, Zenon DEF Joining, CompletePendingIdentityProof, RegisterPending
    <3>3. CASE Credentials
      <4>1. ASSUME NEW d \in Devices, NEW c \in Codes, NEW t \in Tokens, NEW u \in Tokens,
                   RotateCredential(d, c, t, u)
            PROVE  \A x \in Certified \ Approved : devices'[x] = devices[x]
        <5>1. devices[d].state = "approved" /\ \A x \in Devices : x = d \/ devices'[x] = devices[x]
          BY <1>1, <4>1, Zenon DEF RotateCredential
        <5> QED
          BY <1>2, <5>1, Zenon
      <4>2. ASSUME NEW d \in Devices, NEW c \in Codes, IssueCredentialRotationCode(d, c)
            PROVE  devices' = devices
        BY <4>2, Zenon DEF IssueCredentialRotationCode
      <4> QED
        BY <3>3, <4>1, <4>2, Zenon DEF Credentials
    <3>4. CASE \E d \in Devices : RevokeUncertified(d)
      BY <1>1, <1>2, <3>4, Zenon DEF RevokeUncertified
    <3>5. CASE UNCHANGED vars
      BY <3>5, Zenon DEF vars
    <3> QED
      BY <1>5, <3>1, <3>2, <3>3, <3>4, <3>5, Zenon
  <2>3. \A x \in Certified \ Approved : x \in Certified' \ Approved'
    BY <1>2, <2>2, Zenon DEF Certified, Approved
  <2> QED
    BY <1>1, <2>1, <2>2, <2>3 DEF Grown
<1>6. ASSUME NEW d \in Devices, NEW key \in Keys,
             \/ ApprovePendingMembership(d, key)
             \/ \E n \in Names : RenameDevice(d, n, key)
             \/ RevokeCertified(d, key)
      PROVE  Grown
  <2> USE DEF ApprovePendingMembership, RenameDevice, RevokeCertified, InsertWorkspaceRoster
  <2>1. UNCHANGED <<authority, transitions>> /\ \E r : rosters' = Append(rosters, r)
    BY <1>6, Zenon
  <2>2. devices[d].state # "revoked" /\ \A x \in Devices : x = d \/ devices'[x] = devices[x]
    BY <1>1, <1>6, Zenon
  <2> QED
    BY <1>3, <1>4, <2>1, <2>2, Zenon DEF Grown
<1>7. ASSUME NEW key \in Keys, NEW newKey \in Keys, RotateWorkspaceAuthority(key, newKey)
      PROVE  Grown
  <2>1. \E r : rosters' = Append(rosters, r)
    BY <1>7, Zenon DEF RotateWorkspaceAuthority, InsertWorkspaceRoster
  <2>2. \E t \in TransitionRows : /\ transitions' = Append(transitions, t)
                                  /\ t.activation = Len(rosters) + 1
                                  /\ t.previous = authority /\ t.new = authority'
    <3> DEFINE t == [previous |-> key, new |-> newKey, activation |-> NextEpoch]
    <3>1. /\ t \in TransitionRows /\ t.activation = NextEpoch /\ t.previous = key
          /\ t.new = newKey
      BY <1>1, Zenon DEF TransitionRows
    <3>2. key = authority /\ authority' = newKey /\ transitions' = Append(transitions, t)
      BY <1>7, Zenon DEF RotateWorkspaceAuthority
    <3> HIDE DEF t
    <3> QED
      BY <1>1, <3>1, <3>2, Zenon
  <2>3. ASSUME NEW d \in Certified \ Approved PROVE devices'[d] = devices[d]
    <3>1. ~ \E c \in LatestRoster.active : c.device = d
      BY <1>2, OtherMembers
    <3> QED
      BY <1>2, <1>7, <3>1, Zenon DEF RotateWorkspaceAuthority
  <2>4. \A d \in Certified \ Approved : d \in Certified' \ Approved'
    BY <1>2, <2>3, Zenon DEF Certified, Approved
  <2> QED
    BY <1>3, <2>1, <2>2, <2>3, <2>4, Zenon DEF Grown
<1> QED
  BY <1>5, <1>6, <1>7, Zenon DEF Next, Membership, RevokeDevice

-----------------------------------------------------------------------------
(* The callers.                                                             *)

\* What an administrator holds: a device or a prepared key, and the authority
\* key it loaded, which a rejection never does.
CheckedAdmin ==
    [pc : {"checked"}, op : {"approve", "remove", "rename"}, target : Devices, key : {None}]
    \cup [pc : {"checked"}, op : {"rotate"}, target : Keys, key : {None}]
ReadyAdmin ==
    [pc : {"ready"}, op : {"reject"}, target : Devices, key : {None}]
    \cup [pc : {"ready"}, op : {"approve", "remove", "rename"}, target : Devices, key : Keys]
    \cup [pc : {"ready"}, op : {"rotate"}, target : Keys, key : Keys]
AdminInv == admin \in [Admins -> {IdleAdmin} \cup CheckedAdmin \cup ReadyAdmin]

ReadType ==
    read \in [pc : {"idle", "key", "floor", "transitions", "rosters", "latest", "answered"},
              device : Devices \cup {None}, after : Nat, terminal : BOOLEAN, ceiling : Nat,
              certificate : Certificates \cup {None}, key : Keys \cup {None},
              seen : SUBSET Nat, from : Int, to : Int, holds : BOOLEAN, latest : Nat]

\* What a read has fixed by the step it is at.  Nothing it read can change
\* under it, because the registry only grows.
ReadInv ==
    read.pc # "idle" =>
        /\ read.certificate \in Certificates
        /\ read.certificate.epoch \in DOMAIN rosters
        /\ read.certificate \in rosters[read.certificate.epoch].active
        /\ read.certificate.epoch <= read.ceiling
        /\ read.from \in 0..Len(rosters)
        /\ read.pc \in {"key", "floor"} => read.from = read.after
        /\ read.pc \notin {"key", "floor"} /\ read.after = 0 =>
             read.from + 1 = read.certificate.epoch
        /\ read.pc = "key" => read.terminal
        /\ read.terminal =>
             /\ read.device \in Certified \ Approved
             /\ read.ceiling = devices[read.device].revokedEpoch
             /\ read.pc # "key" => read.key = rosters[read.ceiling].key
             /\ read.pc \in {"rosters", "latest", "answered"} =>
                  read.seen = {i \in DOMAIN transitions :
                                  transitions[i].activation \in read.from + 1 .. read.ceiling}
             /\ read.pc = "answered" => read.latest = read.ceiling
        /\ read.pc \in {"latest", "answered"} =>
             /\ \/ read.to = read.from
                \/ /\ read.to \in DOMAIN rosters
                   /\ read.from < read.to /\ read.to <= read.ceiling
             /\ read.after = 0 => read.from < read.to

AccessInv == RegInv /\ AdminInv /\ ReadType /\ ReadInv

\* No read and no administrator is under way at the start.
LEMMA AccessStarts == AccessInit => AccessInv
<1> SUFFICES ASSUME AccessInit PROVE AccessInv
  BY Zenon
<1>1. RegInv
  BY RegistryStarts, Zenon DEF AccessInit
<1>2. AdminInv
  BY Zenon DEF AccessInit, AdminInv
<1>3. ReadType /\ ReadInv
  BY DEF AccessInit, ReadType, ReadInv, IdleRead
<1> QED
  BY <1>1, <1>2, <1>3, Zenon DEF AccessInv

\* Whatever an administrator commits is a store transaction: in particular a
\* rejection, which carries no key, can only be the removal of an uncertified device.
LEMMA ApplyIsMembership ==
    ASSUME RegInv, AdminInv, NEW p \in Admins, admin[p].pc = "ready", Apply(admin[p])
    PROVE  Membership /\ (admin[p].op = "reject" => RevokeUncertified(admin[p].target))
<1> DEFINE a == admin[p]
<1>1. /\ a.op \in {"approve", "reject", "remove", "rename", "rotate"}
      /\ a.op # "rotate" => a.target \in Devices
      /\ a.op = "rotate" => a.target \in Keys
      /\ a.op = "reject" => a.key = None
  BY DEF AdminInv, IdleAdmin, CheckedAdmin, ReadyAdmin
<1>2. authority \in Keys /\ None \notin Keys
  BY RegistryAssumption, Zenon DEF RegInv, TypeOK
<1> HIDE DEF a
<1>3. CASE a.op = "approve" /\ ApprovePendingMembership(a.target, a.key)
  <2>1. a.key \in Keys
    BY <1>2, <1>3, Zenon DEF ApprovePendingMembership
  <2> QED
    BY <1>1, <1>3, <2>1, Zenon DEF Membership, a
<1>4. CASE a.op \in {"reject", "remove"} /\ RevokeDevice(a.target, a.key)
  <2>1. CASE RevokeUncertified(a.target)
    BY <1>1, <1>2, <1>4, <2>1, Zenon DEF Membership, RevokeDevice, a
  <2>2. CASE RevokeCertified(a.target, a.key)
    <3>1. a.key \in Keys
      BY <1>2, <2>2, Zenon DEF RevokeCertified
    <3> QED
      BY <1>1, <1>2, <1>4, <2>2, <3>1, Zenon DEF Membership, RevokeDevice, a
  <2> QED
    BY <1>4, <2>1, <2>2, Zenon DEF RevokeDevice
<1>5. CASE a.op = "rename" /\ \E n \in Names : RenameDevice(a.target, n, a.key)
  <2>1. a.key \in Keys
    BY <1>2, <1>5, Zenon DEF RenameDevice
  <2> QED
    BY <1>1, <1>5, <2>1, Zenon DEF Membership, a
<1>6. CASE a.op = "rotate" /\ RotateWorkspaceAuthority(a.key, a.target)
  <2>1. a.key \in Keys
    BY <1>2, <1>6, Zenon DEF RotateWorkspaceAuthority
  <2> QED
    BY <1>1, <1>6, <2>1, Zenon DEF Membership, a
<1> QED
  BY <1>3, <1>4, <1>5, <1>6, Zenon DEF Apply, a

\* The callers do nothing to the registry but its own transactions.
LEMMA AccessStepIsRegistryStep ==
    AccessInv /\ [AccessNext]_accessVars => [Next]_vars
<1> SUFFICES ASSUME AccessInv, [AccessNext]_accessVars PROVE [Next]_vars
  BY Zenon
<1>1. CASE Issuing \/ Joining
  BY <1>1, Zenon DEF Next
<1>2. ASSUME NEW p \in Admins, Admin(p) PROVE [Next]_vars
  <2>1. CASE AdminCommit(p)
    BY <2>1, ApplyIsMembership, Zenon DEF AdminCommit, AccessInv, Next
  <2> QED
    BY <1>2, <2>1, Zenon DEF Admin, AdminCheck, AdminCheckRotation, LoadAuthorityPrivateKey,
                      AdminFails
<1>3. CASE Read
  BY <1>3, Zenon DEF Read, Reading, ReadRecord, ReadEffectiveKey, ReadFloor, ReadTransitions,
              ReadRosters, ReadLatest, ReadAbandoned, ReadDone
<1>4. CASE UNCHANGED accessVars
  BY <1>4, Zenon DEF accessVars
<1> QED
  BY <1>1, <1>2, <1>3, <1>4, Zenon DEF AccessNext

\* The administrators' own state.
LEMMA AdminStep == AccessInv /\ [AccessNext]_accessVars => AdminInv'
<1> SUFFICES ASSUME AccessInv, [AccessNext]_accessVars PROVE AdminInv'
  BY Zenon
<1>0. AdminInv /\ authority \in Keys
  BY Zenon DEF AccessInv, RegInv, TypeOK
<1>1. CASE UNCHANGED admin
  BY <1>0, <1>1, Zenon DEF AdminInv
<1>2. ASSUME NEW p \in Admins, NEW op \in {"approve", "reject", "remove", "rename"},
             NEW d \in Devices, AdminCheck(p, op, d)
      PROVE  AdminInv'
  BY <1>0, <1>2, Zenon DEF AdminInv, AdminCheck, IdleAdmin, CheckedAdmin, ReadyAdmin
<1>3. ASSUME NEW p \in Admins, NEW k \in Keys, AdminCheckRotation(p, k) PROVE AdminInv'
  BY <1>0, <1>3, Zenon DEF AdminInv, AdminCheckRotation, IdleAdmin, CheckedAdmin
<1>4. ASSUME NEW p \in Admins, LoadAuthorityPrivateKey(p) PROVE AdminInv'
  <2> DEFINE a == [admin[p] EXCEPT !.pc = "ready", !.key = authority]
  <2>1. admin[p] \in CheckedAdmin
    BY <1>0, <1>4 DEF AdminInv, LoadAuthorityPrivateKey, IdleAdmin, ReadyAdmin
  <2>2. a \in ReadyAdmin
    BY <1>0, <2>1, Zenon DEF CheckedAdmin, ReadyAdmin
  <2>3. admin' = [admin EXCEPT ![p] = a]
    BY <1>0, <1>4, Zenon DEF AdminInv, LoadAuthorityPrivateKey
  <2> HIDE DEF a
  <2> QED
    BY <1>0, <2>2, <2>3, Zenon DEF AdminInv
<1>5. ASSUME NEW p \in Admins, AdminCommit(p) \/ AdminFails(p) PROVE AdminInv'
  BY <1>0, <1>5, Zenon DEF AdminInv, AdminCommit, AdminFails
<1>6. Read => UNCHANGED admin
  BY Zenon DEF Read, Reading, ReadRecord, ReadEffectiveKey, ReadFloor, ReadTransitions,
         ReadRosters, ReadLatest, ReadAbandoned, ReadDone
<1> QED
  BY <1>1, <1>2, <1>3, <1>4, <1>5, <1>6, Zenon DEF AccessNext, Admin, accessVars

\* A read in progress keeps what it has fixed while others change the registry.
LEMMA ReadSurvives ==
    ASSUME AccessInv, RegInv', Grown, UNCHANGED read
    PROVE  ReadType' /\ ReadInv'
<1>1. ReadType'
  BY Zenon DEF AccessInv, ReadType
<1>2. SUFFICES ASSUME read.pc # "idle" PROVE ReadInv'
  BY <1>1, Zenon DEF ReadInv
<1>3. /\ rosters \in Seq(RosterRows) /\ transitions \in Seq(TransitionRows)
      /\ Len(rosters) \in Nat /\ DOMAIN rosters = 1..Len(rosters)
      /\ Len(transitions) \in Nat /\ DOMAIN transitions = 1..Len(transitions)
  BY DEF AccessInv, RegInv, TypeOK
<1>4. /\ \A e \in DOMAIN rosters : e \in DOMAIN rosters' /\ rosters'[e] = rosters[e]
      /\ 0..Len(rosters) \subseteq 0..Len(rosters')
  <2>1. Len(rosters') \in Nat
    BY DEF RegInv, TypeOK
  <2> QED
    BY <1>3, <2>1 DEF Grown
<1>5. ASSUME read.terminal
      PROVE  /\ read.device \in Certified' \ Approved'
             /\ read.ceiling = devices'[read.device].revokedEpoch
             /\ read.ceiling \in DOMAIN rosters
  BY <1>2, <1>5, Zenon DEF AccessInv, ReadInv, RegInv, RevocationIsFinal, Grown
<1>6. ASSUME read.terminal
      PROVE  {i \in DOMAIN transitions' :
                 transitions'[i].activation \in read.from + 1 .. read.ceiling} =
             {i \in DOMAIN transitions :
                 transitions[i].activation \in read.from + 1 .. read.ceiling}
  <2>1. CASE transitions' = transitions
    BY <2>1, Zenon
  <2>2. ASSUME NEW t \in TransitionRows, transitions' = Append(transitions, t),
               t.activation = Len(rosters) + 1
        PROVE  {i \in DOMAIN transitions' :
                   transitions'[i].activation \in read.from + 1 .. read.ceiling} =
               {i \in DOMAIN transitions :
                   transitions[i].activation \in read.from + 1 .. read.ceiling}
    <3>1. DOMAIN transitions' = 1..Len(transitions) + 1
      BY <1>3, <2>2
    <3>2. /\ transitions'[Len(transitions) + 1] = t
          /\ \A i \in DOMAIN transitions : transitions'[i] = transitions[i]
      BY <1>3, <2>2
    <3>3. t.activation \notin read.from + 1 .. read.ceiling
      BY <1>3, <1>5, <1>6, <2>2
    <3> QED
      BY <1>3, <3>1, <3>2, <3>3
  <2> QED
    BY <2>1, <2>2, Zenon DEF Grown
<1> QED
  BY <1>2, <1>3, <1>4, <1>5, <1>6, Zenon DEF AccessInv, ReadInv

\* The page of a read ends at the newest roster that fits it
\* (ReadMembershipState's row loop).
LEMMA MaxIsMaximum ==
    ASSUME NEW bound \in Nat, NEW S \in SUBSET (1..bound), S # {}
    PROVE  Max(S) \in S
<1>0. \A x \in S : x \in Nat /\ bound - x \in Nat
  OBVIOUS
<1> DEFINE Less == {ss \in Nat \X Nat : ss[1] < ss[2]}
           Below == {bound - x : x \in S}
<1>1. IsWellFoundedOn(Less, Nat)
  BY NatLessThanWellFounded, Zenon DEF OpToRel
<1>2. Below \in SUBSET Nat /\ Below # {} /\ \A x \in S : bound - x \in Below
  BY <1>0, Zenon
<1>3. PICK b \in Below : \A c \in Below : <<c, b>> \notin Less
  <2> HIDE DEF Below, Less
  <2> QED
    BY <1>1, <1>2, WFMin, Zenon
<1>4. \A c \in Below : ~ (c < b)
  <2>1. ASSUME NEW c \in Below, c < b PROVE <<c, b>> \in Less
    BY <1>2, <2>1, Zenon
  <2> QED
    BY <1>3, <2>1, Zenon
<1>5. PICK m \in S : b = bound - m
  BY Zenon
<1>6. ASSUME NEW x \in S PROVE m >= x
  <2>1. ~ (bound - x < bound - m)
    BY <1>2, <1>4, <1>5, Zenon
  <2> HIDE DEF Below, Less
  <2> QED
    BY <1>0, <2>1
<1>7. \E m1 \in S : \A x \in S : m1 >= x
  BY <1>6, Zenon
<1> QED
  BY <1>7, Zenon DEF Max

\* A query of the read itself.
LEMMA ReadStep ==
    ASSUME AccessInv, UNCHANGED vars, Read
    PROVE  ReadType' /\ ReadInv'
<1> USE DEF vars
<1>1. /\ ReadType /\ ReadInv /\ RegInv /\ TypeOK /\ MaxEpoch \in Nat /\ Len(rosters) \in Nat
      /\ DOMAIN rosters = 1..Len(rosters) /\ Len(rosters) <= MaxEpoch
      /\ Approved' = Approved /\ Certified' = Certified
  BY RegistryAssumption DEF AccessInv, RegInv, TypeOK, Approved, Certified
<1>2. CASE read' = IdleRead
  BY <1>2 DEF ReadType, ReadInv, IdleRead
<1>3. ASSUME NEW d \in Devices, NEW after \in 0..Len(rosters), ReadRecord(d, after)
      PROVE  ReadType' /\ ReadInv'
  <2> DEFINE terminal == devices[d].state = "revoked"
             ceiling == IF terminal THEN devices[d].revokedEpoch ELSE MaxEpoch
             certificate == devices[d].certificate
  <2>1. devices[d] \in DeviceRows /\ d \in Certified /\ Recorded(d)
    BY <1>1, <1>3, Zenon DEF TypeOK, RegInv, ReadRecord
  <2>2. /\ certificate \in Certificates /\ certificate.epoch \in DOMAIN rosters
        /\ certificate \in rosters[certificate.epoch].active
        /\ devices[d].revokedEpoch \in Nat /\ authority \in Keys
    BY <1>1, <2>1, Zenon DEF DeviceRows, Certified, RegInv, BootstrapHasCertificate, TypeOK
  <2>3. certificate.epoch <= ceiling /\ ceiling \in Nat /\ terminal \in BOOLEAN
    BY <1>1, <2>1, <2>2 DEF Recorded, Certified
  <2>4. terminal => d \in Certified \ Approved
    BY <2>1, Zenon DEF Approved
  <2>5. read' = [IdleRead EXCEPT !.pc = IF terminal THEN "key" ELSE "floor", !.device = d,
                     !.after = after, !.terminal = terminal, !.ceiling = ceiling,
                     !.certificate = certificate, !.key = authority, !.from = after]
    BY <1>3, Zenon DEF ReadRecord
  <2>6. read' = [pc |-> IF terminal THEN "key" ELSE "floor", device |-> d, after |-> after,
                 terminal |-> terminal, ceiling |-> ceiling, certificate |-> certificate,
                 key |-> authority, seen |-> {}, from |-> after, to |-> 0,
                 holds |-> FALSE, latest |-> 0]
    <3> HIDE DEF terminal, ceiling, certificate
    <3> QED
      BY <2>5, ZenonT(30) DEF IdleRead
  <2>7. terminal => ceiling = devices[d].revokedEpoch
    BY Zenon
  <2> HIDE DEF terminal, ceiling, certificate
  <2>8. ReadType'
    BY <1>1, <2>2, <2>3, <2>6 DEF ReadType
  <2>9. ReadInv'
    BY <1>1, <2>2, <2>3, <2>4, <2>6, <2>7, Zenon DEF ReadInv
  <2> QED
    BY <2>8, <2>9, Zenon
<1>4. CASE ReadEffectiveKey
  <2>1. /\ read.pc = "key" /\ read' = [read EXCEPT !.pc = "floor", !.key = EffectiveKey(read.ceiling)]
    BY <1>4, Zenon DEF ReadEffectiveKey
  <2>2. read.ceiling \in DOMAIN rosters /\ rosters[read.ceiling].key = EffectiveKey(read.ceiling)
    BY <1>1, <2>1, Zenon DEF ReadInv, RegInv, RevocationIsFinal, ChainVerifies
  <2>3. rosters[read.ceiling] \in RosterRows
    BY <1>1, <2>2 DEF TypeOK
  <2>4. EffectiveKey(read.ceiling) \in Keys
    BY <2>2, <2>3, Zenon DEF RosterRows
  <2>5. ReadType'
    BY <1>1, <2>1, <2>4, Zenon DEF ReadType
  <2>6. ReadInv'
    BY <1>1, <2>1, <2>2, Zenon DEF ReadInv, ReadType
  <2> QED
    BY <2>5, <2>6, Zenon
<1>5. CASE ReadFloor /\ read' # IdleRead
  <2>1. /\ read.pc = "floor"
        /\ \/ read.from # 0 /\ read' = [read EXCEPT !.pc = "transitions"]
           \/ /\ read.from = 0
              /\ read' = [read EXCEPT !.pc = "transitions", !.from = read.certificate.epoch - 1]
    BY <1>5, Zenon DEF ReadFloor
  <2>2. read.certificate.epoch \in 1..Len(rosters)
    BY <1>1, <2>1, Zenon DEF ReadInv
  <2>3. CASE read.from # 0 /\ read' = [read EXCEPT !.pc = "transitions"]
    <3>1. ReadType'
      BY <1>1, <2>3, Zenon DEF ReadType
    <3>2. ReadInv'
      BY <1>1, <2>1, <2>3, Zenon DEF ReadInv, ReadType
    <3> QED
      BY <3>1, <3>2, Zenon
  <2>4. ASSUME NEW floor \in 0..Len(rosters), floor + 1 = read.certificate.epoch,
               read' = [read EXCEPT !.pc = "transitions", !.from = floor]
        PROVE  ReadType' /\ ReadInv'
    <3>0. floor \in Int
      BY <1>1
    <3>1. ReadType'
      BY <1>1, <2>4, <3>0, Zenon DEF ReadType
    <3>2. ReadInv'
      BY <1>1, <2>1, <2>4, Zenon DEF ReadInv, ReadType
    <3> QED
      BY <3>1, <3>2, Zenon
  <2>5. PICK floor : floor = read.certificate.epoch - 1
    BY Zenon
  <2>6. floor \in 0..Len(rosters) /\ floor + 1 = read.certificate.epoch
    BY <1>1, <2>2, <2>5
  <2> QED
    BY <2>1, <2>3, <2>4, <2>5, <2>6, Zenon
<1>6. CASE ReadTransitions
  <2> DEFINE seen == {i \in DOMAIN transitions :
                         transitions[i].activation \in read.from + 1 .. read.ceiling}
  <2>1. read.pc = "transitions" /\ read' = [read EXCEPT !.pc = "rosters", !.seen = seen]
    BY <1>6, Zenon DEF ReadTransitions
  <2>2. seen \in SUBSET Nat
    BY <1>1 DEF TypeOK
  <2>3. seen = {i \in DOMAIN transitions :
                   transitions[i].activation \in read.from + 1 .. read.ceiling}
    BY Zenon
  <2> HIDE DEF seen
  <2>4. ReadType'
    BY <1>1, <2>1, <2>2, Zenon DEF ReadType
  <2>5. ReadInv'
    BY <1>1, <2>1, <2>3, Zenon DEF ReadInv, ReadType
  <2> QED
    BY <2>4, <2>5, Zenon
<1>7. CASE ReadRosters
  <2> DEFINE fits == {e \in Selected : \/ e = read.from + 1
                                       \/ PageSize(read.from + 1 .. e) <= PageBytes}
             to == IF fits = {} THEN read.from ELSE Max(fits)
             holds == fits # Selected
  <2>1. /\ read.pc = "rosters"
        /\ read' = [read EXCEPT !.pc = "latest", !.holds = holds, !.to = to]
    BY <1>7, Zenon DEF ReadRosters
  <2>2. \A e \in fits : e \in DOMAIN rosters /\ read.from < e /\ e <= read.ceiling
    BY <1>1, Zenon DEF Selected, ReadType
  <2>3. read.after = 0 => read.from + 1 \in fits
    BY <1>1, <2>1, AccessAssumption DEF ReadInv, ReadType, Selected
  <2>4. fits # {} => Max(fits) \in fits
    <3> HIDE DEF fits
    <3> QED
      BY <1>1, <2>2, MaxIsMaximum, Zenon
  <2>5. /\ to = read.from \/ (to \in DOMAIN rosters /\ read.from < to /\ to <= read.ceiling)
        /\ read.after = 0 => read.from < to
    <3> HIDE DEF fits
    <3> QED
      BY <2>2, <2>3, <2>4, Zenon
  <2>6. to \in Int /\ holds \in BOOLEAN
    BY <1>1, <2>5 DEF ReadType
  <2> HIDE DEF fits, to, holds
  <2>7. ReadType'
    BY <1>1, <2>1, <2>6, Zenon DEF ReadType
  <2>8. ReadInv'
    BY <1>1, <2>1, <2>5, Zenon DEF ReadInv, ReadType
  <2> QED
    BY <2>7, <2>8, Zenon
<1>8. CASE ReadLatest
  <2>1. /\ read.pc = "latest"
        /\ read' = [read EXCEPT !.pc = "answered", !.holds = FALSE,
                        !.latest = IF read.terminal THEN read.ceiling ELSE Len(rosters)]
    BY <1>8, Zenon DEF ReadLatest
  <2>2. ReadType'
    BY <1>1, <2>1, Zenon DEF ReadType
  <2>3. ReadInv'
    BY <1>1, <2>1, Zenon DEF ReadInv, ReadType
  <2> QED
    BY <2>2, <2>3, Zenon
<1> QED
  BY <1>2, <1>3, <1>4, <1>5, <1>6, <1>7, <1>8
  DEF Read, Reading, ReadAbandoned, ReadDone, ReadFloor

\* Every step of a read, of an administrator or of the registry preserves AccessInv.
LEMMA AccessStep == AccessInv /\ [AccessNext]_accessVars => AccessInv'
<1> SUFFICES ASSUME AccessInv, [AccessNext]_accessVars PROVE AccessInv'
  BY Zenon
<1>1. RegInv' /\ Grown
  BY AccessStepIsRegistryStep, RegistryStep, RegistryGrows, Zenon DEF AccessInv
<1>2. UNCHANGED read \/ (Read /\ UNCHANGED vars)
  <2>1. Read => UNCHANGED vars
    BY Zenon DEF Read, Reading, ReadRecord, ReadEffectiveKey, ReadFloor, ReadTransitions,
           ReadRosters, ReadLatest, ReadAbandoned, ReadDone
  <2>2. \A p \in Admins : Admin(p) => UNCHANGED read
    BY Zenon DEF Admin, AdminCheck, AdminCheckRotation, LoadAuthorityPrivateKey, AdminCommit,
           AdminFails
  <2> QED
    BY <2>1, <2>2, Zenon DEF AccessNext, accessVars
<1>3. ReadType' /\ ReadInv'
  BY <1>1, <1>2, ReadSurvives, ReadStep, Zenon
<1> QED
  BY <1>1, <1>3, AdminStep, Zenon DEF AccessInv

\* The registry and the requests on it keep their invariants.
THEOREM AccessInductive == AccessSpec => []AccessInv
BY AccessStarts, AccessStep, PTL DEF AccessSpec

\* The callers that read first and act later implement the registry whose
\* transactions are atomic: everything proved of Spec holds under them too.
THEOREM AccessImplementsRegistry == AccessSpec => Spec
<1>1. AccessInit => Init
  BY Zenon DEF AccessInit
<1> QED
  BY <1>1, AccessInductive, AccessStepIsRegistryStep, PTL DEF AccessSpec, Spec

\* Rejecting a pending device removes no member, whatever the other
\* administrators committed between the look at the device and the store call.
THEOREM RejectionNeverRemoves == AccessSpec => RejectionSparesMembers
<1> DEFINE Spares == \A p \in Admins :
         admin[p].pc = "ready" /\ admin[p].op = "reject" /\ admin'[p].pc = "idle"
           => \A d \in Approved : devices'[d].state = "approved"
<1>1. AccessInv /\ [AccessNext]_accessVars => [Spares]_accessVars
  <2> SUFFICES ASSUME AccessInv, AccessNext,
                      NEW p \in Admins, admin[p].pc = "ready", admin[p].op = "reject",
                      admin'[p].pc = "idle", NEW d \in Approved
               PROVE  devices'[d].state = "approved"
    BY Zenon DEF AccessInv
  <2>1. /\ admin \in [Admins -> {IdleAdmin} \cup CheckedAdmin \cup ReadyAdmin]
        /\ devices \in [Devices -> DeviceRows] /\ d \in Devices /\ devices[d].state = "approved"
    BY Zenon DEF AccessInv, AdminInv, RegInv, TypeOK, Approved
  <2>2. \A q \in Admins : Admin(q) => q = p
    <3>1. ASSUME NEW q \in Admins, Admin(q) PROVE \A x \in Admins : x = q \/ admin'[x] = admin[x]
      BY <2>1, <3>1, Zenon DEF Admin, AdminCheck, AdminCheckRotation, LoadAuthorityPrivateKey,
                        AdminCommit, AdminFails
    <3> QED
      BY <3>1, Zenon
  <2>3. Admin(p)
    <3>1. Read => UNCHANGED admin
      BY Zenon DEF Read, Reading, ReadRecord, ReadEffectiveKey, ReadFloor, ReadTransitions,
             ReadRosters, ReadLatest, ReadAbandoned, ReadDone
    <3> QED
      BY <2>2, <3>1, Zenon DEF AccessNext
  <2>4. CASE AdminCommit(p)
    <3>1. RevokeUncertified(admin[p].target)
      BY <2>4, ApplyIsMembership, Zenon DEF AdminCommit, AccessInv
    <3> QED
      BY <2>1, <3>1, Zenon DEF RevokeUncertified
  <2>5. CASE ~AdminCommit(p)
    BY <2>1, <2>3, <2>5 DEF Admin, AdminCheck, AdminCheckRotation, LoadAuthorityPrivateKey,
                            AdminFails, vars
  <2> QED
    BY <2>4, <2>5, Zenon
<1> QED
  BY <1>1, AccessInductive, PTL DEF AccessSpec, RejectionSparesMembers

\* A device that starts reading at zero is shown, as its first roster, the one
\* that holds the certificate it is given, whatever the registry did meanwhile.
THEOREM ReadsAlwaysBootstrap == AccessSpec => []ReadBootstraps
<1>1. AccessInv => ReadBootstraps
  BY Zenon DEF AccessInv, ReadInv, ReadType, ReadBootstraps, Answered
<1> QED
  BY <1>1, AccessInductive, PTL

\* The rows of a history are numbered from one and have natural activations.
LEMMA TransitionTimes ==
    ASSUME NEW ts, NEW auth, NEW n \in Nat, History(ts, auth, n)
    PROVE  /\ Len(ts) \in Nat /\ DOMAIN ts = 1..Len(ts)
           /\ \A i \in DOMAIN ts : ts[i].activation \in Nat
<1>1. Len(ts) \in Nat /\ DOMAIN ts = 1..Len(ts)
  BY DEF History
<1>2. \A i \in DOMAIN ts : ts[i].activation \in 1..n
  BY Zenon DEF History
<1> QED
  BY <1>1, <1>2

\* The key a client holds after applying the transitions of an answer that
\* starts after epoch f is the effective key, up to the answer's last epoch.
LEMMA PinIsKey ==
    ASSUME NEW ts, NEW auth, NEW n \in Nat, History(ts, auth, n),
           NEW f \in 0..n, NEW e \in f + 1 .. n, NEW applied \in SUBSET DOMAIN ts,
           \A i \in DOMAIN ts : i \in applied <=> ts[i].activation \in f + 1 .. e
    PROVE  /\ applied = {} => KeyAt(ts, auth, e) = KeyAt(ts, auth, f)
           /\ applied # {} => \E k \in applied : /\ KeyAt(ts, auth, e) = ts[k].new
                                                /\ \A j \in applied : j <= k /\ j \in Nat
<1>1. PICK k \in 0..Len(ts) : Activated(ts, e) = 1..k
  BY DEF History
<1>2. PICK m \in 0..Len(ts) : Activated(ts, f) = 1..m
  BY Zenon DEF History
<1>3. /\ Len(ts) \in Nat /\ DOMAIN ts = 1..Len(ts)
      /\ \A i \in DOMAIN ts : ts[i].activation \in Nat
  BY TransitionTimes
<1>4. \A i \in DOMAIN ts : i \in applied <=> i \in 1..k /\ i \notin 1..m
  BY <1>1, <1>2, <1>3 DEF Activated
<1>5. 1..m \subseteq 1..k
  BY <1>1, <1>2, <1>3 DEF Activated
<1>6. KeyAt(ts, auth, e) = IF k > 0 THEN ts[k].new
                           ELSE IF ts # <<>> THEN ts[1].previous ELSE auth
  BY <1>1, KeyOfPrefix
<1>7. KeyAt(ts, auth, f) = IF m > 0 THEN ts[m].new
                           ELSE IF ts # <<>> THEN ts[1].previous ELSE auth
  BY <1>2, KeyOfPrefix
<1>8. CASE applied = {}
  <2>1. m = k
    <3>1. k > 0 => k \in DOMAIN ts /\ k \in 1..k
      BY <1>3
    <3>2. m > 0 => m \in 1..m
      OBVIOUS
    <3> QED
      BY <1>4, <1>5, <1>8, <3>1, <3>2
  <2> QED
    BY <1>6, <1>7, <1>8, <2>1
<1>9. CASE applied # {}
  <2>1. PICK i \in applied : TRUE
    BY <1>9, Zenon
  <2>2. k > 0 /\ k \in applied
    <3>1. i \in DOMAIN ts /\ i \in 1..k /\ i \notin 1..m
      BY <1>4, Zenon
    <3>2. k \in DOMAIN ts /\ k \in 1..k /\ k \notin 1..m
      BY <1>3, <3>1
    <3> QED
      BY <1>4, <3>2
  <2>3. \A j \in applied : j <= k /\ j \in Nat
    BY <1>3, <1>4
  <2> QED
    BY <1>6, <1>9, <2>2, <2>3, Zenon
<1> QED
  BY <1>8, <1>9, Zenon

\* The last view of a revoked device stops at its revocation, verifies under the
\* key it names, and does so whatever the registry did while it was read.
THEOREM TerminalViewsVerify == AccessSpec => []TerminalViewVerifies
<1>1. ASSUME AccessInv, Answered, read.terminal
      PROVE  /\ \A e \in Page : e <= devices[read.device].revokedEpoch
             /\ read.latest = devices[read.device].revokedEpoch
             /\ read.key = rosters[read.latest].key
             /\ ViewVerifies
  <2>1. /\ ReadType /\ RegInv /\ read.pc = "answered"
        /\ History(transitions, authority, Len(rosters))
        /\ Len(rosters) \in Nat /\ DOMAIN rosters = 1..Len(rosters)
    BY <1>1 DEF AccessInv, Answered, RegInv, TypeOK
  <2>2. /\ read.ceiling = devices[read.device].revokedEpoch /\ read.latest = read.ceiling
        /\ read.key = rosters[read.ceiling].key /\ read.from \in 0..Len(rosters)
        /\ read.seen = {i \in DOMAIN transitions :
                           transitions[i].activation \in read.from + 1 .. read.ceiling}
        /\ \/ read.to = read.from
           \/ /\ read.to \in DOMAIN rosters
              /\ read.from < read.to /\ read.to <= read.ceiling
    BY <1>1, <2>1, Zenon DEF AccessInv, ReadInv
  <2>3. read.from \in Int /\ read.to \in Int /\ read.ceiling \in Nat
    BY <2>1, Zenon DEF ReadType
  <2>4. ASSUME NEW e \in Page
        PROVE  e \in DOMAIN rosters /\ e \in read.from + 1 .. read.ceiling
    BY <2>1, <2>2, <2>3, SMTT(30) DEF Page
  <2>5. ASSUME NEW e \in Page PROVE rosters[e].key = PinAt(e)
    <3> DEFINE applied == {i \in read.seen : transitions[i].activation <= e}
    <3>1. /\ applied \in SUBSET DOMAIN transitions
          /\ \A i \in DOMAIN transitions :
                i \in applied <=> transitions[i].activation \in read.from + 1 .. e
      <4>1. \A i \in DOMAIN transitions : transitions[i].activation \in Nat
        BY <2>1 DEF History, TransitionRows
      <4> QED
        BY <2>2, <2>3, <2>4, <4>1
    <3>2. PinAt(e) = IF applied = {} THEN KeyAt(transitions, authority, read.from)
                     ELSE transitions[CHOOSE i \in applied : \A j \in applied : j <= i].new
      <4>1. EffectiveKey(read.from) = KeyAt(transitions, authority, read.from)
        BY EffectiveKeyIsKeyAt, Zenon
      <4>2. PinAt(e) = IF applied = {} THEN EffectiveKey(read.from)
                       ELSE transitions[CHOOSE i \in applied : \A j \in applied : j <= i].new
        BY Zenon DEF PinAt
      <4> QED
        BY <4>1, <4>2, Zenon
    <3>3. e \in read.from + 1 .. Len(rosters)
      BY <2>1, <2>3, <2>4
    <3> HIDE DEF applied
    <3>4. /\ applied = {} =>
                KeyAt(transitions, authority, e) = KeyAt(transitions, authority, read.from)
          /\ applied # {} =>
                \E k \in applied : /\ KeyAt(transitions, authority, e) = transitions[k].new
                                   /\ \A j \in applied : j <= k /\ j \in Nat
      BY <2>1, <2>2, <3>1, <3>3, PinIsKey, ZenonT(30)
    <3>5. rosters[e].key = KeyAt(transitions, authority, e)
      BY <2>1, <2>4, EffectiveKeyIsKeyAt, Zenon DEF RegInv, ChainVerifies
    <3>6. CASE applied = {}
      BY <3>2, <3>4, <3>5, <3>6, Zenon
    <3>7. CASE applied # {}
      <4> DEFINE Last(i) == \A j \in applied : j <= i
      <4>1. PICK k \in applied : /\ KeyAt(transitions, authority, e) = transitions[k].new
                                 /\ \A j \in applied : j <= k /\ j \in Nat
        BY <3>4, <3>7, Zenon
      <4>2. Last(k) /\ \A i \in applied : Last(i) => i = k
        BY <4>1
      <4>3. (CHOOSE i \in applied : Last(i)) = k
        <5> HIDE DEF Last
        <5> QED
          BY <4>2, Zenon
      <4> QED
        BY <3>2, <3>5, <3>7, <4>1, <4>3, Zenon
    <3> QED
      BY <3>6, <3>7, Zenon
  <2> QED
    BY <2>2, <2>3, <2>4, <2>5 DEF ViewVerifies
<1>2. AccessInv => TerminalViewVerifies
  BY <1>1, Zenon DEF TerminalViewVerifies
<1> QED
  BY <1>2, AccessInductive, PTL

-----------------------------------------------------------------------------
(* Codes.                                                                   *)

\* The codes of a kind that carry the name of a device.
Spent(kind, d) == {c \in Codes : codes[c].kind = kind /\ codes[c].device = d}

CodeInv ==
    /\ \A c \in Codes : codes[c].kind = "pairing" /\ codes[c].live => codes[c].device = None
    /\ \A d \in Devices :
         /\ IsFiniteSet(Spent("rotated", d)) /\ IsFiniteSet(Spent("pairing", d))
         /\ devices[d].version = 1 + Cardinality(Spent("rotated", d))
         /\ devices[d].state = "absent" => devices[d].version = 1
         /\ Cardinality(Spent("pairing", d)) = IF devices[d].state = "absent" THEN 0 ELSE 1

\* A transaction that spends no code and creates no device.
LEMMA CodesKept ==
    ASSUME CodeInv,
           \A d \in Devices : /\ Spent("rotated", d)' = Spent("rotated", d)
                              /\ Spent("pairing", d)' = Spent("pairing", d)
                              /\ devices'[d].version = devices[d].version
                              /\ devices'[d].state = "absent" <=> devices[d].state = "absent",
           \A c \in Codes : codes'[c].kind = "pairing" /\ codes'[c].live =>
                               codes'[c].device = None
    PROVE  CodeInv'
BY Zenon DEF CodeInv

\* Issuing, using, expiring or withdrawing a code keeps the count of its uses.
LEMMA CodeStep == RegInv /\ CodeInv /\ [Next]_vars => CodeInv'
<1> SUFFICES ASSUME RegInv, CodeInv, [Next]_vars PROVE CodeInv'
  BY Zenon
<1>1. /\ codes \in [Codes -> CodeRows] /\ devices \in [Devices -> DeviceRows]
      /\ None \notin Devices
  BY RegistryAssumption, Zenon DEF RegInv, TypeOK
<1>2. ASSUME UNCHANGED codes,
             \A d \in Devices : /\ devices'[d].version = devices[d].version
                                /\ devices'[d].state = "absent" <=> devices[d].state = "absent"
      PROVE  CodeInv'
  BY <1>2, CodesKept, Zenon DEF Spent, CodeInv
<1>3. ASSUME NEW d \in Devices, UNCHANGED codes,
             NEW row \in DeviceRows, devices' = [devices EXCEPT ![d] = row],
             row.version = devices[d].version,
             row.state = "absent" <=> devices[d].state = "absent"
      PROVE  CodeInv'
  BY <1>1, <1>2, <1>3, Zenon
<1>4. ASSUME NEW c \in Codes, IssuePairingCode(c) \/ ExpireCode(c) PROVE CodeInv'
  <2>1. /\ UNCHANGED devices /\ \A x \in Codes : x = c \/ codes'[x] = codes[x]
        /\ codes'[c].kind = "pairing" /\ codes'[c].live => codes'[c].device = None
    <3>1. CASE IssuePairingCode(c)
      BY <1>1, <3>1, Zenon DEF IssuePairingCode
    <3>2. CASE ExpireCode(c)
      BY <1>1, <3>2, Zenon DEF ExpireCode, CodeRows
    <3> QED
      BY <1>4, <3>1, <3>2, Zenon
  <2>2. \A k \in {"rotated", "pairing"}, d \in Devices :
          codes'[c].kind = k /\ codes'[c].device = d <=> codes[c].kind = k /\ codes[c].device = d
    <3>1. CASE IssuePairingCode(c)
      BY <1>1, <3>1, Zenon DEF IssuePairingCode
    <3>2. CASE ExpireCode(c)
      BY <1>1, <3>2, Zenon DEF ExpireCode, CodeRows
    <3> QED
      BY <1>4, <3>1, <3>2, Zenon
  <2>3. \A k \in {"rotated", "pairing"}, d \in Devices : Spent(k, d)' = Spent(k, d)
    BY <2>1, <2>2 DEF Spent
  <2> QED
    BY <2>1, <2>3, CodesKept, Zenon DEF CodeInv
<1>5. ASSUME NEW d \in Devices, NEW n \in Names, NEW t \in Tokens, NEW c \in Codes,
             RegisterPending(d, n, t, c)
      PROVE  CodeInv'
  <2>1. /\ codes[c].kind = "pairing" /\ codes[c].device = None
        /\ codes'[c].kind = "pairing" /\ codes'[c].device = d /\ ~codes'[c].live
        /\ \A x \in Codes : x = c \/ codes'[x] = codes[x]
    BY <1>1, <1>5, Zenon DEF RegisterPending, CodeInv, CodeRows
  <2>2. /\ devices[d].state = "absent" /\ devices'[d].state # "absent" /\ devices'[d].version = 1
        /\ \A x \in Devices : x = d \/ devices'[x] = devices[x]
    BY <1>1, <1>5, Zenon DEF RegisterPending, Absent
  <2>3. \A x \in Devices : /\ Spent("rotated", x)' = Spent("rotated", x)
                           /\ x # d => Spent("pairing", x)' = Spent("pairing", x)
    BY <1>1, <2>1, Zenon DEF Spent
  <2>4. Spent("pairing", d)' = Spent("pairing", d) \cup {c} /\ c \notin Spent("pairing", d)
    BY <1>1, <2>1, ZenonT(30) DEF Spent
  <2>5. IsFiniteSet(Spent("pairing", d)') /\ Cardinality(Spent("pairing", d)') = 1
    BY <2>2, <2>4, FS_AddElement DEF CodeInv
  <2>6. devices[d].version = 1
    BY <2>2, Zenon DEF CodeInv
  <2> QED
    BY <2>1, <2>2, <2>3, <2>5, <2>6 DEF CodeInv
<1>6. ASSUME NEW d \in Devices, NEW c \in Codes, IssueCredentialRotationCode(d, c)
      PROVE  CodeInv'
  <2>1. /\ UNCHANGED devices /\ \A x \in Codes : x = c \/ codes'[x] = codes[x]
        /\ codes[c].kind = "unissued" /\ codes'[c].kind = "rotation"
    BY <1>1, <1>6, Zenon DEF IssueCredentialRotationCode
  <2>2. \A k \in {"rotated", "pairing"}, x \in Devices : Spent(k, x)' = Spent(k, x)
    BY <2>1, Zenon DEF Spent
  <2> QED
    BY <2>1, <2>2, CodesKept, Zenon DEF CodeInv
<1>7. ASSUME NEW d \in Devices, NEW c \in Codes, NEW t \in Tokens, NEW u \in Tokens,
             RotateCredential(d, c, t, u)
      PROVE  CodeInv'
  <2>1. /\ codes[c].kind = "rotation" /\ codes'[c].kind = "rotated" /\ codes'[c].device = d
        /\ \A x \in Codes : x = c \/ codes'[x] = codes[x]
    BY <1>1, <1>7, Zenon DEF RotateCredential, CodeRows
  <2>2. /\ devices[d].state = "approved" /\ devices'[d].state = "approved"
        /\ devices'[d].version = devices[d].version + 1
        /\ \A x \in Devices : x = d \/ devices'[x] = devices[x]
    BY <1>1, <1>7 DEF RotateCredential, DeviceRows
  <2>3. \A x \in Devices : /\ Spent("pairing", x)' = Spent("pairing", x)
                           /\ x # d => Spent("rotated", x)' = Spent("rotated", x)
    BY <2>1, Zenon DEF Spent
  <2>4. Spent("rotated", d)' = Spent("rotated", d) \cup {c} /\ c \notin Spent("rotated", d)
    BY <2>1, Zenon DEF Spent
  <2>5. /\ IsFiniteSet(Spent("rotated", d)')
        /\ Cardinality(Spent("rotated", d)') = Cardinality(Spent("rotated", d)) + 1
        /\ Cardinality(Spent("rotated", d)) \in Nat
    BY <2>4, FS_AddElement, FS_CardinalityType, SMTT(30) DEF CodeInv
  <2>6. devices'[d].version = 1 + Cardinality(Spent("rotated", d)')
    BY <2>2, <2>5 DEF CodeInv
  <2>7. Cardinality(Spent("pairing", d)') = 1 /\ devices'[d].state # "absent"
    BY <2>2, <2>3, Zenon DEF CodeInv
  <2>8. \A x \in Codes : codes'[x].kind = "pairing" /\ codes'[x].live => codes'[x].device = None
    BY <2>1 DEF CodeInv
  <2> QED
    BY <2>2, <2>3, <2>5, <2>6, <2>7, <2>8, Zenon DEF CodeInv
<1>8. ASSUME NEW d \in Devices, \/ ExpireProof(d) \/ CompletePendingIdentityProof(d)
                                \/ RevokeUncertified(d)
      PROVE  CodeInv'
  <2>1. devices[d] \in DeviceRows
    BY <1>1, Zenon
  <2>2. CASE ExpireProof(d)
    BY <1>1, <1>2, <2>1, <2>2, Zenon DEF ExpireProof, DeviceRows
  <2>3. CASE CompletePendingIdentityProof(d)
    BY <1>1, <1>2, <2>1, <2>3, Zenon DEF CompletePendingIdentityProof, DeviceRows
  <2>4. CASE RevokeUncertified(d)
    BY <1>1, <1>2, <2>1, <2>4, Zenon DEF RevokeUncertified, DeviceRows
  <2> QED
    BY <1>8, <2>2, <2>3, <2>4, Zenon
<1>9. ASSUME NEW d \in Devices, NEW key \in Keys,
             \/ ApprovePendingMembership(d, key)
             \/ \E n \in Names : RenameDevice(d, n, key)
             \/ RevokeCertified(d, key)
      PROVE  CodeInv'
  <2>1. devices[d] \in DeviceRows
    BY <1>1, Zenon
  <2>2. CASE ApprovePendingMembership(d, key)
    BY <1>1, <1>2, <2>1, <2>2, Zenon DEF ApprovePendingMembership, DeviceRows
  <2>3. CASE \E n \in Names : RenameDevice(d, n, key)
    BY <1>1, <1>2, <2>1, <2>3 DEF RenameDevice, DeviceRows
  <2>4. CASE RevokeCertified(d, key)
    BY <1>1, <1>2, <2>1, <2>4, Zenon DEF RevokeCertified, DeviceRows
  <2> QED
    BY <1>9, <2>2, <2>3, <2>4, Zenon
<1>10. ASSUME NEW key \in Keys, NEW newKey \in Keys, RotateWorkspaceAuthority(key, newKey)
       PROVE  CodeInv'
  <2>1. \A d \in Devices : /\ devices'[d].version = devices[d].version
                           /\ devices'[d].state = devices[d].state
    BY <1>1, <1>10 DEF RotateWorkspaceAuthority, DeviceRows
  <2>2. UNCHANGED codes
    BY <1>10, Zenon DEF RotateWorkspaceAuthority
  <2> QED
    BY <1>2, <2>1, <2>2, Zenon
<1>11. CASE UNCHANGED vars
  BY <1>2, <1>11, Zenon DEF vars
<1> QED
  BY <1>4, <1>5, <1>6, <1>7, <1>8, <1>9, <1>10, <1>11, SMTT(30)
  DEF Next, Issuing, Joining, Membership, Credentials, RevokeDevice

\* Every code works at most once, whatever is issued, expires or is revoked in
\* between: RegisterPending and RotateCredential consume the code in the
\* transaction that uses it.
THEOREM CodesAlwaysSpentOnce == Spec => []CodesAreSpentOnce
<1>1. Init => CodeInv
  <2> SUFFICES ASSUME Init PROVE CodeInv
    BY Zenon
  <2>1. /\ \A d \in Devices : Spent("rotated", d) = {} /\ Spent("pairing", d) = {}
        /\ \A c \in Codes : codes[c].kind = "unissued"
        /\ \A d \in Devices : devices[d].state = "absent" /\ devices[d].version = 1
    BY Zenon DEF Init, Spent, Unissued, Absent
  <2>2. IsFiniteSet({}) /\ Cardinality({}) = 0
    BY FS_EmptySet, Zenon
  <2>3. \A d \in Devices :
          /\ IsFiniteSet(Spent("rotated", d)) /\ Cardinality(Spent("rotated", d)) = 0
          /\ IsFiniteSet(Spent("pairing", d)) /\ Cardinality(Spent("pairing", d)) = 0
    BY <2>1, <2>2, Zenon
  <2> QED
    BY <2>1, <2>3 DEF CodeInv
<1>2. CodeInv => CodesAreSpentOnce
  BY Zenon DEF CodeInv, CodesAreSpentOnce, Spent
<1> QED
  BY <1>1, <1>2, CodeStep, RegistryInductive, PTL DEF Spec

=============================================================================
