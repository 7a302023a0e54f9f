------------------------- MODULE DeliveryStoreProofs -------------------------
(***************************************************************************)
(* The delivery store, for every capacity, batch size, envelope size and   *)
(* clock: what each transaction preserves of a recipient's queue and what   *)
(* a read returns of it, and from that the store's theorems.                *)
(***************************************************************************)
EXTENDS DeliveryStore, Sequences, FiniteSetTheorems, WellFoundedInduction, TLAPS

\* Every non-empty set of naturals has a least element.
LEMMA LeastNatural ==
    ASSUME NEW S \in SUBSET Nat, S # {}
    PROVE  \E m \in S : \A n \in S : m <= n
<1> DEFINE Less == {ss \in Nat \X Nat : ss[1] < ss[2]}
<1>1. IsWellFoundedOn(Less, Nat)
  BY NatLessThanWellFounded, Zenon DEF OpToRel
<1>2. PICK m \in S : \A n \in S : <<n, m>> \notin Less
  BY <1>1, WFMin, Zenon
<1>3. ASSUME NEW n \in S PROVE ~ (n < m)
  <2>1. n < m => <<n, m>> \in Less
    OBVIOUS
  <2> QED
    BY <1>2, <2>1
<1> QED
  BY <1>3

\* A bounded, non-empty set of naturals has a maximum, and it is what Max
\* chooses (SELECT MAX(delivery_id) in compactExpiredDeliveries).
LEMMA MaxIsMaximum ==
    ASSUME NEW bound \in Nat, NEW S \in SUBSET (1..bound), S # {}
    PROVE  Max(S) \in S /\ \A x \in S : x <= Max(S)
<1> DEFINE Above == {n \in Nat : \A x \in S : x <= n}
<1>1. bound \in Above
  OBVIOUS
<1>2. PICK top \in Above : \A n \in Above : top <= n
  <2> HIDE DEF Above
  <2>1. Above \in SUBSET Nat /\ Above # {}
    BY <1>1 DEF Above
  <2> QED
    BY <2>1, LeastNatural
<1>3. top \in S
  <2>1. SUFFICES ASSUME top \notin S PROVE FALSE
    OBVIOUS
  <2>2. top - 1 \in Above
    <3>1. PICK y : y \in S
      OBVIOUS
    <3>2. top - 1 \in Nat
      BY <3>1
    <3>3. \A x \in S : x <= top - 1
      BY <2>1
    <3> QED
      BY <3>2, <3>3
  <2> QED
    BY <1>2, <2>2
<1>4. \E m \in S : \A y \in S : m >= y
  BY <1>3
<1> QED
  BY <1>4, Zenon DEF Max

-----------------------------------------------------------------------------
\* What every transaction preserves of a queue.
Good(q) == q \in Queue /\ Complete(q)

\* What a transaction other than an append leaves of a queue: the sequence
\* stands still, the cursors do not move back, and no row is added.
Shrunk(p, q) ==
    /\ p.next = q.next
    /\ p.acked >= q.acked
    /\ p.unavailable >= q.unavailable
    /\ p.rows \subseteq q.rows

\* Dropping any set of rows keeps the history complete as long as the gap is
\* recorded through the newest of them: the argument compactExpiredDeliveries
\* and enforceDeliveryCapacity share.
LEMMA DropReported ==
    ASSUME NEW q, Good(q), NEW gone \in SUBSET q.rows, gone # {}
    PROVE  LET p == [created |-> q.created, next |-> q.next, acked |-> q.acked,
                     unavailable |-> Larger(q.unavailable, Max(Ids(gone))),
                     rows |-> q.rows \ gone]
           IN  Good(p) /\ Shrunk(p, q) /\ p.acked = q.acked
<1> USE DEF Good
<1>1. q \in Queue /\ Complete(q)
  OBVIOUS
<1>2. Ids(gone) \in SUBSET (1..MaxInt64) /\ Ids(gone) # {}
  BY <1>1 DEF Ids, Queue, Delivery
<1> DEFINE top == Max(Ids(gone))
<1>3. top \in Ids(gone) /\ \A i \in Ids(gone) : i <= top
  BY <1>2, MaxIsMaximum, QueueAssumption, Zenon
<1> HIDE DEF top
<1>4. top \in 1..MaxInt64 /\ top <= HighWater(q)
  BY <1>1, <1>2, <1>3 DEF Complete, Ids, Queue, HighWater
<1>5. PICK p : p = [created |-> q.created, next |-> q.next, acked |-> q.acked,
                    unavailable |-> Larger(q.unavailable, top),
                    rows |-> q.rows \ gone]
  BY Zenon
<1>6. p \in Queue
  BY <1>1, <1>4, <1>5 DEF Queue, Larger
<1>7. Floor(p) < p.next
  BY <1>1, <1>4, <1>5 DEF Complete, Floor, Larger, Queue, HighWater
<1>8. ASSUME NEW i \in Floor(p) + 1 .. HighWater(p)
      PROVE  i \in Ids(p.rows)
  <2>1. i \in Nat /\ i > top /\ i \in Floor(q) + 1 .. HighWater(q)
    BY <1>1, <1>4, <1>5 DEF Floor, Larger, Queue, HighWater
  <2>2. PICK r \in q.rows : r.id = i
    BY <1>1, <2>1 DEF Complete, Ids
  <2>3. r \notin gone
    <3>1. r \in gone => i \in Ids(gone)
      BY <2>2 DEF Ids
    <3> QED
      BY <1>3, <1>4, <2>1, <3>1
  <2> QED
    BY <1>5, <2>2, <2>3 DEF Ids
<1>9. Ids(p.rows) \subseteq p.acked + 1 .. HighWater(p)
  <2>1. p.rows \subseteq q.rows /\ p.acked = q.acked /\ p.next = q.next
    BY <1>5
  <2> QED
    BY <1>1, <2>1 DEF Complete, Ids, HighWater
<1>10. Shrunk(p, q) /\ p.acked = q.acked
  BY <1>1, <1>4, <1>5 DEF Shrunk, Larger, Queue
<1> QED
  BY <1>5, <1>6, <1>7, <1>8, <1>9, <1>10, Zenon DEF Complete, top

\* ensureDeliveryState only marks the row as present.
LEMMA EnsureKeeps ==
    ASSUME NEW q, Good(q)
    PROVE  /\ Good(ensureDeliveryState(q))
           /\ Shrunk(ensureDeliveryState(q), q)
           /\ ensureDeliveryState(q).acked = q.acked
<1>1. q \in Queue
  BY DEF Good
<1>2. ensureDeliveryState(q) = [created |-> TRUE, next |-> q.next, acked |-> q.acked,
                                unavailable |-> q.unavailable, rows |-> q.rows]
  <2>1. ensureDeliveryState(q) = [q EXCEPT !.created = TRUE]
    BY DEF ensureDeliveryState
  <2> QED
    BY <1>1, <2>1, Zenon DEF Queue
<1> QED
  BY <1>1, <1>2 DEF Good, Shrunk, Complete, Floor, HighWater, Queue

\* compactExpiredDeliveries keeps the history complete at any clock reading.
LEMMA CompactKeeps ==
    ASSUME NEW q, Good(q), NEW now
    PROVE  /\ Good(compactExpiredDeliveries(q, now))
           /\ Shrunk(compactExpiredDeliveries(q, now), q)
           /\ compactExpiredDeliveries(q, now).acked = q.acked
<1> DEFINE expired == {r \in q.rows : r.expires <= now}
<1>1. q \in Queue
  BY DEF Good
<1>2. CASE expired = {}
  <2>1. compactExpiredDeliveries(q, now) = q
    BY <1>2 DEF compactExpiredDeliveries
  <2> QED
    BY <1>1, <2>1 DEF Shrunk, Queue
<1>3. CASE expired # {}
  <2>1. compactExpiredDeliveries(q, now)
          = [created |-> q.created, next |-> q.next, acked |-> q.acked,
             unavailable |-> Larger(q.unavailable, Max(Ids(expired))),
             rows |-> q.rows \ expired]
    BY <1>1, <1>3, Zenon DEF compactExpiredDeliveries, markUnavailableThrough, Queue
  <2> HIDE DEF expired
  <2>2. expired \in SUBSET q.rows
    BY DEF expired
  <2> QED
    BY <1>3, <2>1, <2>2, DropReported
<1> QED
  BY <1>2, <1>3

\* enforceDeliveryCapacity keeps the history complete whatever it evicts.
LEMMA CapacityKeeps ==
    ASSUME NEW q, Good(q)
    PROVE  /\ Good(enforceDeliveryCapacity(q))
           /\ Shrunk(enforceDeliveryCapacity(q), q)
           /\ enforceDeliveryCapacity(q).acked = q.acked
<1> DEFINE kept == {r \in q.rows : FitsCapacity({s \in q.rows : s.id >= r.id})}
           evicted == q.rows \ kept
<1>1. q \in Queue
  BY DEF Good
<1>2. CASE evicted = {}
  <2>1. enforceDeliveryCapacity(q) = q
    BY <1>2 DEF enforceDeliveryCapacity
  <2> QED
    BY <1>1, <2>1 DEF Shrunk, Queue
<1>3. CASE evicted # {}
  <2>1. enforceDeliveryCapacity(q)
          = [created |-> q.created, next |-> q.next, acked |-> q.acked,
             unavailable |-> Larger(q.unavailable, Max(Ids(evicted))),
             rows |-> kept]
    <3> HIDE DEF kept
    <3>1. enforceDeliveryCapacity(q)
            = markUnavailableThrough([q EXCEPT !.rows = kept], Max(Ids(evicted)))
      BY <1>3, Zenon DEF enforceDeliveryCapacity, kept
    <3> QED
      BY <1>1, <3>1, Zenon DEF markUnavailableThrough, Queue
  <2>2. kept = q.rows \ evicted /\ evicted \in SUBSET q.rows
    OBVIOUS
  <2> HIDE DEF kept, evicted
  <2> QED
    BY <1>3, <2>1, <2>2, DropReported
<1> QED
  BY <1>2, <1>3, Zenon

\* acknowledgeThrough up to the high-water mark keeps the history complete.
LEMMA AcknowledgeKeeps ==
    ASSUME NEW q, Good(q), NEW cursor \in Nat, cursor <= HighWater(q)
    PROVE  /\ Good(acknowledgeThrough(q, cursor))
           /\ Shrunk(acknowledgeThrough(q, cursor), q)
<1>1. q \in Queue /\ Complete(q)
  BY DEF Good
<1>2. PICK p : p = [created |-> q.created, next |-> q.next,
                    acked |-> Larger(q.acked, cursor),
                    unavailable |-> q.unavailable,
                    rows |-> {r \in q.rows : r.id > cursor}]
  BY Zenon
<1>3. acknowledgeThrough(q, cursor) = p
  <2>1. acknowledgeThrough(q, cursor)
          = [[q EXCEPT !.rows = {r \in q.rows : r.id > cursor}]
                EXCEPT !.acked = Larger(q.acked, cursor)]
    BY <1>1, Zenon DEF acknowledgeThrough, Queue
  <2> QED
    BY <1>1, <1>2, <2>1, Zenon DEF Queue
<1>4. p \in Queue /\ Shrunk(p, q)
  <2>1. Larger(q.acked, cursor) \in 0..MaxInt64 /\ Larger(q.acked, cursor) >= q.acked
    BY <1>1, QueueAssumption DEF Queue, Larger, HighWater
  <2>2. {r \in q.rows : r.id > cursor} \in SUBSET q.rows
    OBVIOUS
  <2> QED
    BY <1>1, <1>2, <2>1, <2>2 DEF Queue, Shrunk
<1>5. Floor(p) < p.next
  BY <1>1, <1>2 DEF Complete, Floor, Larger, Queue, HighWater
<1>6. ASSUME NEW i \in Floor(p) + 1 .. HighWater(p)
      PROVE  i \in Ids(p.rows)
  <2>1. i > cursor /\ i \in Floor(q) + 1 .. HighWater(q)
    BY <1>1, <1>2 DEF Floor, Larger, Queue, HighWater
  <2> QED
    BY <1>1, <1>2, <2>1 DEF Complete, Ids
<1>7. ASSUME NEW r \in p.rows
      PROVE  r.id \in p.acked + 1 .. HighWater(p)
  <2>1. r \in q.rows /\ r.id > cursor /\ r.id \in q.acked + 1 .. HighWater(q)
    BY <1>1, <1>2 DEF Complete, Ids
  <2> QED
    BY <1>1, <1>2, <2>1 DEF Larger, Queue, HighWater
<1> QED
  BY <1>3, <1>4, <1>5, <1>6, <1>7 DEF Good, Complete, Ids

-----------------------------------------------------------------------------
\* The four transactions.

\* What AppendDelivery hands to enforceDeliveryCapacity: the compacted history
\* with the delivery it was given under the next id, and the sequence advanced.
LEMMA AppendEnters ==
    ASSUME NEW q, Good(q), q.next # MaxInt64,
           NEW size \in Sizes, NEW expires \in Times, NEW now
    PROVE  LET new == [id |-> q.next, size |-> size, expires |-> expires]
           IN  \E a : /\ AppendDelivery(q, size, expires, now) = enforceDeliveryCapacity(a)
                      /\ Good(a)
                      /\ a.next = q.next + 1
                      /\ a.acked = q.acked
                      /\ a.unavailable >= q.unavailable
                      /\ a.unavailable < q.next
                      /\ new \in a.rows
                      /\ a.rows \subseteq q.rows \cup {new}
<1>1. PICK e : /\ e = ensureDeliveryState(q)
               /\ Good(e) /\ Shrunk(e, q) /\ e.acked = q.acked
  BY EnsureKeeps
<1>2. PICK c : /\ c = compactExpiredDeliveries(e, now)
               /\ Good(c) /\ Shrunk(c, e) /\ c.acked = e.acked
  BY <1>1, CompactKeeps
<1>3. q \in Queue /\ e \in Queue /\ c \in Queue /\ Complete(c)
  BY <1>1, <1>2 DEF Good
<1>4. /\ c.next = q.next /\ c.acked = q.acked
      /\ c.unavailable >= q.unavailable /\ c.rows \subseteq q.rows
  BY <1>1, <1>2, <1>3 DEF Shrunk, Queue
<1> DEFINE row == [id |-> c.next, size |-> size, expires |-> expires]
<1>5. PICK a : a = [created |-> c.created, next |-> c.next + 1, acked |-> c.acked,
                    unavailable |-> c.unavailable, rows |-> c.rows \cup {row}]
  BY Zenon
<1>6. AppendDelivery(q, size, expires, now) = enforceDeliveryCapacity(a)
  <2>1. AppendDelivery(q, size, expires, now)
          = enforceDeliveryCapacity([c EXCEPT !.rows = @ \cup {row}, !.next = @ + 1])
    BY <1>1, <1>2, Zenon DEF AppendDelivery
  <2>2. [c EXCEPT !.rows = @ \cup {row}, !.next = @ + 1]
          = [[c EXCEPT !.rows = c.rows \cup {row}] EXCEPT !.next = c.next + 1]
    BY <1>3, Zenon DEF Queue
  <2>3. [[c EXCEPT !.rows = c.rows \cup {row}] EXCEPT !.next = c.next + 1] = a
    <3> DEFINE rows == c.rows \cup {row}
               next == c.next + 1
    <3>1. a = [created |-> c.created, next |-> next, acked |-> c.acked,
               unavailable |-> c.unavailable, rows |-> rows]
      BY <1>5
    <3> HIDE DEF rows, next
    <3>2. PICK x : x = [c EXCEPT !.rows = rows]
      BY Zenon
    <3>3. x = [created |-> c.created, next |-> c.next, acked |-> c.acked,
               unavailable |-> c.unavailable, rows |-> rows]
      BY <1>3, <3>2, Zenon DEF Queue
    <3>4. [x EXCEPT !.next = next] = a
      BY <3>1, <3>3
    <3> QED
      BY <3>2, <3>4 DEF rows, next
  <2> QED
    BY <2>1, <2>2, <2>3
<1>7. Good(a)
  <2>1. c.next + 1 \in 1..MaxInt64 /\ row \in Delivery
    BY <1>3, <1>4, QueueAssumption DEF Queue, Delivery
  <2>2. a \in Queue
    BY <1>3, <1>5, <2>1 DEF Queue
  <2>3. Floor(a) < a.next
    BY <1>3, <1>5 DEF Complete, Floor, Larger, Queue
  <2>4. ASSUME NEW i \in Floor(a) + 1 .. HighWater(a)
        PROVE  i \in Ids(a.rows)
    <3>1. i \in Floor(c) + 1 .. HighWater(c) \/ i = c.next
      BY <1>3, <1>5 DEF Floor, Larger, Queue, HighWater
    <3> QED
      BY <1>3, <1>5, <3>1, ZenonT(30) DEF Complete, Ids
  <2>5. ASSUME NEW r \in a.rows
        PROVE  r.id \in a.acked + 1 .. HighWater(a)
    <3>1. CASE r \in c.rows
      <4>1. r.id \in c.acked + 1 .. HighWater(c)
        BY <1>3, <3>1 DEF Complete, Ids
      <4> QED
        BY <1>3, <1>5, <4>1 DEF Queue, HighWater
    <3>2. CASE r = row
      BY <1>3, <1>5, <3>2 DEF Complete, Floor, Larger, Queue, HighWater
    <3> QED
      BY <1>5, <3>1, <3>2
  <2> QED
    BY <2>2, <2>3, <2>4, <2>5 DEF Good, Complete, Ids
<1>8. /\ a.next = q.next + 1 /\ a.acked = q.acked /\ a.unavailable >= q.unavailable
      /\ a.rows = c.rows \cup {[id |-> q.next, size |-> size, expires |-> expires]}
  BY <1>4, <1>5
<1>9. a.unavailable < q.next
  BY <1>3, <1>4, <1>5 DEF Complete, Floor, Larger, Queue
<1> QED
  BY <1>4, <1>6, <1>7, <1>8, <1>9

\* AppendDelivery keeps the history complete, advances the sequence by one and
\* stores nothing but the delivery it was given under the next id.
LEMMA AppendKeeps ==
    ASSUME NEW q, Good(q), q.next # MaxInt64,
           NEW size \in Sizes, NEW expires \in Times, NEW now
    PROVE  LET p == AppendDelivery(q, size, expires, now)
           IN  /\ Good(p)
               /\ p.next = q.next + 1
               /\ p.acked = q.acked
               /\ p.unavailable >= q.unavailable
               /\ p.rows \subseteq
                      q.rows \cup {[id |-> q.next, size |-> size, expires |-> expires]}
<1> DEFINE new == [id |-> q.next, size |-> size, expires |-> expires]
<1>1. PICK a : /\ AppendDelivery(q, size, expires, now) = enforceDeliveryCapacity(a)
               /\ Good(a)
               /\ a.next = q.next + 1
               /\ a.acked = q.acked
               /\ a.unavailable >= q.unavailable
               /\ a.rows \subseteq q.rows \cup {new}
  <2> HIDE DEF new
  <2> QED
    BY AppendEnters, Zenon DEF new
<1>2. PICK p : /\ p = AppendDelivery(q, size, expires, now)
               /\ Good(p) /\ Shrunk(p, a) /\ p.acked = a.acked
  BY <1>1, CapacityKeeps
<1>3. q \in Queue /\ a \in Queue /\ p \in Queue
  BY <1>1, <1>2 DEF Good
<1> HIDE DEF new
<1>4. /\ p.next = q.next + 1 /\ p.acked = q.acked /\ p.unavailable >= q.unavailable
      /\ p.rows \subseteq q.rows \cup {new}
  BY <1>1, <1>2, <1>3 DEF Shrunk, Queue
<1> QED
  BY <1>2, <1>4 DEF new

\* ResumeDeliveries keeps the history complete and adds nothing to it.
LEMMA ResumeKeeps ==
    ASSUME NEW q, Good(q), NEW cursor \in Nat, CanResume(q, cursor), NEW now
    PROVE  /\ Good(ResumeDeliveries(q, cursor, now))
           /\ Shrunk(ResumeDeliveries(q, cursor, now), q)
<1>1. PICK e : /\ e = ensureDeliveryState(q)
               /\ Good(e) /\ Shrunk(e, q)
  BY EnsureKeeps
<1>2. PICK o : /\ o = compactExpiredDeliveries(e, now)
               /\ Good(o) /\ Shrunk(o, e)
  BY <1>1, CompactKeeps
<1>3. q \in Queue /\ e \in Queue /\ o \in Queue
  BY <1>1, <1>2 DEF Good
<1>4. Shrunk(o, q)
  BY <1>1, <1>2, <1>3 DEF Shrunk, Queue
<1>5. CASE ResumeDeliveries(q, cursor, now) = o
  BY <1>2, <1>4, <1>5
<1>6. CASE ResumeDeliveries(q, cursor, now) = acknowledgeThrough(o, cursor)
  <2>1. cursor <= HighWater(o)
    BY <1>3, <1>4 DEF CanResume, HighWater, Shrunk
  <2>2. PICK p : /\ p = acknowledgeThrough(o, cursor)
                 /\ Good(p) /\ Shrunk(p, o)
    BY <1>2, <2>1, AcknowledgeKeeps
  <2>3. p \in Queue
    BY <2>2 DEF Good
  <2>4. Shrunk(p, q)
    BY <1>3, <1>4, <2>2, <2>3 DEF Shrunk, Queue
  <2> QED
    BY <1>6, <2>2, <2>4
<1> QED
  BY <1>1, <1>2, <1>5, <1>6 DEF ResumeDeliveries

\* AcknowledgeDelivery keeps the history complete and adds nothing to it.
LEMMA AcknowledgeDeliveryKeeps ==
    ASSUME NEW q, Good(q), NEW cursor \in Nat, CanAcknowledge(q, cursor)
    PROVE  /\ Good(AcknowledgeDelivery(q, cursor))
           /\ Shrunk(AcknowledgeDelivery(q, cursor), q)
<1>1. PICK e : /\ e = ensureDeliveryState(q)
               /\ Good(e) /\ Shrunk(e, q)
  BY EnsureKeeps
<1>2. q \in Queue /\ e \in Queue
  BY <1>1 DEF Good
<1>3. cursor <= HighWater(e)
  BY <1>1, <1>2 DEF CanAcknowledge, HighWater, Shrunk, Queue
<1>4. PICK p : /\ p = acknowledgeThrough(e, cursor)
               /\ Good(p) /\ Shrunk(p, e)
  BY <1>1, <1>3, AcknowledgeKeeps
<1>5. p \in Queue
  BY <1>4 DEF Good
<1>6. Shrunk(p, q)
  BY <1>1, <1>2, <1>4, <1>5 DEF Shrunk, Queue
<1> QED
  BY <1>1, <1>4, <1>6 DEF AcknowledgeDelivery

-----------------------------------------------------------------------------
\* What a reader is handed.

\* A set of deliveries that starts right after a cursor and skips nothing.
Unbroken(deliveries, after) ==
    \A r \in deliveries : r.id > after /\ after + 1 .. r.id \subseteq Ids(deliveries)

\* What a batch read after a cursor owes its reader, of the queue p the read
\* left: a reset, or deliveries without a gap, and some as long as any remain.
Continues(b, after, p) ==
    /\ b \in [reset : BOOLEAN, high : Int, deliveries : SUBSET Delivery]
    /\ b.high = HighWater(p)
    /\ Unbroken(b.deliveries, after)
    /\ \A r \in b.deliveries : r.id <= HighWater(p)
    /\ b.reset => b.deliveries = {}
    /\ (b.deliveries = {} /\ ~b.reset) => b.high <= after

\* Rows only ever leave a finite queue, or one is added to it.
LEMMA StaysFinite ==
    ASSUME NEW rows, IsFiniteSet(rows), NEW row, NEW left, left \subseteq rows \cup {row}
    PROVE  IsFiniteSet(left)
<1>1. IsFiniteSet(rows \cup {row})
  BY FS_AddElement
<1> QED
  BY <1>1, FS_Subset

\* SELECT ... LIMIT: the rows above a cursor that is not below the floor come
\* without a gap, and the limit leaves at least the first of them.
LEMMA RowsAfterUnbroken ==
    ASSUME NEW q, Good(q), IsFiniteSet(q.rows), NEW after \in Nat, Floor(q) <= after
    PROVE  /\ RowsAfter(q, after) \subseteq q.rows
           /\ Unbroken(RowsAfter(q, after), after)
           /\ RowsAfter(q, after) = {} => HighWater(q) <= after
<1> DEFINE above == {r \in q.rows : r.id > after}
           Below(n) == {s \in above : s.id < n}
<1>1. q \in Queue /\ Complete(q)
  BY DEF Good
<1>2. /\ q.next \in Int /\ q.acked \in Int /\ q.unavailable \in Int
      /\ \A r \in q.rows : r.id \in Int
  BY <1>1, QueueAssumption DEF Queue, Delivery
<1>3. RowsAfter(q, after) = {r \in above : Cardinality(Below(r.id)) < BatchLimit}
  BY DEF RowsAfter
<1>4. \A n : IsFiniteSet(Below(n)) /\ Cardinality(Below(n)) \in Nat
  <2>1. \A n : Below(n) \subseteq q.rows
    OBVIOUS
  <2> QED
    BY <2>1, FS_Subset, FS_CardinalityType
<1>5. ASSUME NEW n \in Int, NEW m \in Int, n <= m
      PROVE  Cardinality(Below(n)) <= Cardinality(Below(m))
  <2>1. Below(n) \subseteq Below(m)
    BY <1>2, <1>5
  <2> QED
    BY <1>4, <2>1, FS_Subset
<1>6. ASSUME NEW k \in Int, after < k, k <= HighWater(q)
      PROVE  \E s \in above : s.id = k
  <2>1. k \in Floor(q) + 1 .. HighWater(q)
    BY <1>2, <1>6 DEF Floor, Larger, HighWater
  <2>2. k \in Ids(q.rows)
    BY <1>1, <2>1 DEF Complete
  <2> QED
    BY <1>6, <2>2 DEF Ids
<1>7. \A r \in above : r.id \in Int /\ after < r.id /\ r.id <= HighWater(q)
  <2>1. \A r \in q.rows : r.id \in Ids(q.rows)
    BY DEF Ids
  <2> QED
    BY <1>1, <1>2, <2>1 DEF Complete, HighWater
<1> HIDE DEF above, Below
<1>8. Unbroken(RowsAfter(q, after), after)
  <2>1. SUFFICES ASSUME NEW r \in RowsAfter(q, after), NEW k \in after + 1 .. r.id
                 PROVE  k \in Ids(RowsAfter(q, after))
    BY <1>3, <1>7 DEF Unbroken
  <2>2. r \in above /\ Cardinality(Below(r.id)) < BatchLimit
    BY <1>3
  <2>3. k \in Int /\ after < k /\ k <= r.id /\ r.id \in Int /\ r.id <= HighWater(q)
    BY <1>7, <2>2
  <2>4. PICK s \in above : s.id = k
    BY <1>2, <1>6, <2>3 DEF HighWater
  <2>5. Cardinality(Below(k)) <= Cardinality(Below(r.id))
    BY <1>5, <2>3
  <2>6. Cardinality(Below(s.id)) < BatchLimit
    BY <1>4, <2>2, <2>4, <2>5, QueueAssumption
  <2> QED
    BY <1>3, <2>4, <2>6 DEF Ids
<1>9. ASSUME after < HighWater(q) PROVE RowsAfter(q, after) # {}
  <2>1. PICK s \in above : s.id = after + 1
    BY <1>2, <1>6, <1>9 DEF HighWater
  <2>2. Below(s.id) = {}
    BY <1>7, <2>1 DEF Below
  <2>3. Cardinality(Below(s.id)) < BatchLimit
    BY <2>2, FS_EmptySet, QueueAssumption
  <2> QED
    BY <1>3, <2>3
<1>10. RowsAfter(q, after) \subseteq q.rows
  BY <1>3 DEF above
<1> QED
  BY <1>2, <1>8, <1>9, <1>10 DEF HighWater

\* A batch of rows, read at or above the floor, continues from its cursor.
LEMMA RowsBatchContinues ==
    ASSUME NEW q, Good(q), IsFiniteSet(q.rows), NEW after \in Nat, Floor(q) <= after
    PROVE  Continues(RowsBatch(q, after), after, q)
<1>1. q \in Queue /\ Complete(q)
  BY DEF Good
<1>2. \A r \in q.rows : r \in Delivery /\ r.id <= HighWater(q)
  BY <1>1, QueueAssumption DEF Queue, Complete, Ids, HighWater
<1>3. HighWater(q) \in Int
  BY <1>1 DEF Queue, HighWater
<1>4. /\ RowsAfter(q, after) \subseteq q.rows
      /\ Unbroken(RowsAfter(q, after), after)
      /\ RowsAfter(q, after) = {} => HighWater(q) <= after
  BY RowsAfterUnbroken
<1>5. RowsAfter(q, after) \in SUBSET Delivery
  BY <1>2, <1>4
<1> QED
  BY <1>2, <1>3, <1>4, <1>5 DEF Continues, RowsBatch

\* A reset names the high-water mark and carries nothing.
LEMMA ResetBatchContinues ==
    ASSUME NEW q, Good(q), NEW after
    PROVE  Continues(ResetBatch(q), after, q)
<1>1. HighWater(q) \in Int
  BY DEF Good, Queue, HighWater
<1> QED
  BY <1>1 DEF Continues, ResetBatch, Unbroken

\* ResumeDeliveries acknowledges no further than the cursor it is given and
\* answers with a batch that continues from it.
LEMMA ResumeContinues ==
    ASSUME NEW q, Good(q), IsFiniteSet(q.rows), NEW cursor \in Nat,
           CanResume(q, cursor), NEW now
    PROVE  LET p == ResumeDeliveries(q, cursor, now)
           IN  /\ Good(p) /\ IsFiniteSet(p.rows) /\ p.next = q.next
               /\ p.acked <= q.acked \/ p.acked <= cursor
               /\ Continues(ResumeBatch(q, cursor, now), cursor, p)
<1>1. PICK e : e = ensureDeliveryState(q) /\ Good(e) /\ Shrunk(e, q) /\ e.acked = q.acked
  BY EnsureKeeps
<1>2. PICK o : /\ o = compactExpiredDeliveries(e, now)
               /\ Good(o) /\ Shrunk(o, e) /\ o.acked = e.acked
  BY <1>1, CompactKeeps
<1>3. PICK p : p = ResumeDeliveries(q, cursor, now) /\ Good(p) /\ Shrunk(p, q)
  BY ResumeKeeps
<1>4. q \in Queue /\ o \in Queue /\ p \in Queue
  BY <1>2, <1>3 DEF Good
<1>5. IsFiniteSet(p.rows)
  BY <1>3, FS_Subset DEF Shrunk
<1>6. p = IF cursor < Floor(o) \/ cursor <= o.acked THEN o ELSE acknowledgeThrough(o, cursor)
  BY <1>1, <1>2, <1>3 DEF ResumeDeliveries
<1>7. /\ acknowledgeThrough(o, cursor).acked = Larger(o.acked, cursor)
      /\ acknowledgeThrough(o, cursor).unavailable = o.unavailable
  BY <1>4 DEF acknowledgeThrough, Queue
<1>8. o.acked \in Int /\ o.unavailable \in Int /\ q.acked \in Int
  BY <1>4 DEF Queue
<1>9. p.acked <= q.acked \/ p.acked <= cursor
  BY <1>1, <1>2, <1>6, <1>7, <1>8 DEF Larger
<1>10. ResumeBatch(q, cursor, now)
         = IF cursor < Floor(o) THEN ResetBatch(o) ELSE RowsBatch(p, cursor)
  BY <1>1, <1>2, <1>3 DEF ResumeBatch
<1>11. CASE cursor < Floor(o)
  BY <1>2, <1>3, <1>5, <1>6, <1>9, <1>10, <1>11, ResetBatchContinues, SMTT(30) DEF Shrunk
<1>12. CASE ~ (cursor < Floor(o))
  <2>1. Floor(p) <= cursor
    BY <1>6, <1>7, <1>8, <1>12 DEF Floor, Larger
  <2>2. Continues(RowsBatch(p, cursor), cursor, p)
    BY <1>3, <1>5, <2>1, RowsBatchContinues
  <2> QED
    BY <1>3, <1>5, <1>9, <1>10, <1>12, <2>2 DEF Shrunk
<1> QED
  BY <1>11, <1>12

\* ReadDeliveriesAfter checks the gap alone; that is enough for a reader that
\* is not behind the acknowledged cursor.
LEMMA ReadContinues ==
    ASSUME NEW q, Good(q), IsFiniteSet(q.rows), NEW after \in Nat, q.acked <= after, NEW now
    PROVE  LET p == ReadDeliveries(q, now)
           IN  /\ Good(p) /\ IsFiniteSet(p.rows) /\ p.next = q.next /\ p.acked = q.acked
               /\ Continues(ReadBatch(q, after, now), after, p)
<1>1. PICK p : p = ReadDeliveries(q, now) /\ Good(p) /\ Shrunk(p, q) /\ p.acked = q.acked
  BY CompactKeeps DEF ReadDeliveries
<1>2. IsFiniteSet(p.rows)
  BY <1>1, FS_Subset DEF Shrunk
<1>3. p.unavailable \in Int /\ p.acked \in Int
  BY <1>1 DEF Good, Queue
<1>4. CASE after < p.unavailable
  BY <1>1, <1>2, <1>4, ResetBatchContinues DEF ReadBatch, Shrunk
<1>5. CASE ~ (after < p.unavailable)
  <2>1. Floor(p) <= after
    BY <1>1, <1>3, <1>5 DEF Floor, Larger
  <2>2. Continues(RowsBatch(p, after), after, p)
    BY <1>1, <1>2, <2>1, RowsBatchContinues
  <2> QED
    BY <1>1, <1>2, <1>5, <2>2 DEF ReadBatch, Shrunk
<1> QED
  BY <1>4, <1>5

\* AcknowledgeDelivery forgets no further than the cursor it is given.
LEMMA AcknowledgeBounded ==
    ASSUME NEW q, Good(q), IsFiniteSet(q.rows), NEW cursor \in Nat, CanAcknowledge(q, cursor)
    PROVE  LET p == AcknowledgeDelivery(q, cursor)
           IN  /\ Good(p) /\ IsFiniteSet(p.rows) /\ p.next = q.next
               /\ p.acked <= q.acked \/ p.acked <= cursor
<1>1. PICK e : e = ensureDeliveryState(q) /\ Good(e) /\ Shrunk(e, q) /\ e.acked = q.acked
  BY EnsureKeeps
<1>2. PICK p : p = AcknowledgeDelivery(q, cursor) /\ Good(p) /\ Shrunk(p, q)
  BY AcknowledgeDeliveryKeeps
<1>3. IsFiniteSet(p.rows)
  BY <1>2, FS_Subset DEF Shrunk
<1>4. acknowledgeThrough(e, cursor).acked = Larger(e.acked, cursor)
  BY <1>1 DEF acknowledgeThrough, Queue, Good
<1>5. q.acked \in Int
  BY DEF Good, Queue
<1>6. p.acked <= q.acked \/ p.acked <= cursor
  BY <1>1, <1>2, <1>4, <1>5 DEF AcknowledgeDelivery, Larger
<1> QED
  BY <1>2, <1>3, <1>6 DEF Shrunk

-----------------------------------------------------------------------------
\* A batch holds rows of the queue it was read from and its high-water mark.
LEMMA BatchType ==
    ASSUME NEW q, Good(q), NEW after
    PROVE  /\ ResetBatch(q) \in [reset : BOOLEAN, high : Cursors, deliveries : SUBSET Delivery]
           /\ RowsBatch(q, after)
                \in [reset : BOOLEAN, high : Cursors, deliveries : SUBSET Delivery]
<1>1. q \in Queue
  BY DEF Good
<1>2. HighWater(q) \in Cursors
  BY <1>1, QueueAssumption DEF HighWater, Cursors, Queue
<1>3. RowsAfter(q, after) \in SUBSET Delivery
  <2>1. RowsAfter(q, after) \subseteq q.rows
    BY DEF RowsAfter
  <2> QED
    BY <1>1, <2>1 DEF Queue
<1> QED
  BY <1>2, <1>3 DEF ResetBatch, RowsBatch

-----------------------------------------------------------------------------
\* The inductive invariant: types and completeness support each other, since
\* the high-water mark bounds every cursor only in a complete history.
IndInv == StoreTypeOK /\ HistoryComplete

\* What one step may do to the queue, whichever caller takes it.
StepKeeps(p, q) ==
    /\ Good(p)
    /\ p.next >= q.next
    /\ p.acked >= q.acked
    /\ p.unavailable >= q.unavailable
    /\ \A r \in p.rows \ q.rows : r.id = q.next

\* Every step of every caller keeps the queue complete and its cursors
\* advancing.
LEMMA NextKeepsQueue ==
    ASSUME IndInv, [StoreNext]_storeVars
    PROVE  StepKeeps(stored', stored)
<1> USE DEF StepKeeps
<1>1. Good(stored) /\ stored \in Queue
  BY DEF IndInv, StoreTypeOK, HistoryComplete, Good
<1>2. ASSUME NEW p, Good(p), Shrunk(p, stored) PROVE StepKeeps(p, stored)
  BY <1>1, <1>2 DEF Shrunk, Queue, Good
<1>3. ASSUME NEW size \in Sizes, NEW expires \in Times, NEW now \in Times,
             AppendCall(size, expires, now)
      PROVE  StepKeeps(stored', stored)
  <2>1. stored' = AppendDelivery(stored, size, expires, now) /\ stored.next # MaxInt64
    BY <1>3 DEF AppendCall, CanAppend
  <2> QED
    BY <1>1, <2>1, AppendKeeps DEF Queue
<1>4. ASSUME NEW cursor \in Cursors, NEW now \in Times, ResumeCall(cursor, now)
      PROVE  StepKeeps(stored', stored)
  <2>1. stored' = ResumeDeliveries(stored, cursor, now) /\ CanResume(stored, cursor)
    BY <1>4 DEF ResumeCall
  <2>2. cursor \in Nat
    BY QueueAssumption DEF Cursors
  <2> QED
    BY <1>1, <1>2, <2>1, <2>2, ResumeKeeps
<1>5. ASSUME NEW after \in Cursors, NEW now \in Times, ReadCall(after, now)
      PROVE  StepKeeps(stored', stored)
  <2>1. stored' = compactExpiredDeliveries(stored, now)
    BY <1>5 DEF ReadCall, ReadDeliveries
  <2> QED
    BY <1>1, <1>2, <2>1, CompactKeeps
<1>6. ASSUME NEW cursor \in Cursors, AcknowledgeCall(cursor)
      PROVE  StepKeeps(stored', stored)
  <2>1. stored' = AcknowledgeDelivery(stored, cursor) /\ CanAcknowledge(stored, cursor)
    BY <1>6 DEF AcknowledgeCall
  <2>2. cursor \in Nat
    BY QueueAssumption DEF Cursors
  <2> QED
    BY <1>1, <1>2, <2>1, <2>2, AcknowledgeDeliveryKeeps
<1>7. ASSUME stored' = stored PROVE StepKeeps(stored', stored)
  BY <1>1, <1>7 DEF Queue
<1> QED
  BY <1>3, <1>4, <1>5, <1>6, <1>7 DEF StoreNext, RefuseCall, storeVars

\* Every step answers in the type of an answer.
LEMMA NextKeepsReply ==
    ASSUME IndInv, [StoreNext]_storeVars
    PROVE  reply' \in Reply
<1>1. Good(stored) /\ stored \in Queue /\ reply \in Reply
  BY DEF IndInv, StoreTypeOK, HistoryComplete, Good
<1>2. Cursors \subseteq Nat /\ 0 \in Cursors /\ Times \subseteq Nat
  BY QueueAssumption DEF Cursors
<1> DEFINE Batch == [reset : BOOLEAN, high : Cursors, deliveries : SUBSET Delivery]
<1>3. ASSUME NEW kind \in {"resumed", "read"}, NEW cursor \in Cursors, NEW now \in Times,
             NEW batch \in Batch
      PROVE  Answer(kind, cursor, now, batch) \in Reply
  BY <1>2 DEF Answer, Reply
<1>4. ASSUME NEW kind \in {"appended", "acknowledged", "refused"}, NEW cursor \in Cursors
      PROVE  Plain(kind, cursor) \in Reply
  BY <1>2 DEF Plain, Reply
<1> HIDE DEF Batch
<1>5. ASSUME NEW size \in Sizes, NEW expires \in Times, NEW now \in Times,
             AppendCall(size, expires, now)
      PROVE  reply' \in Reply
  <2>1. stored.next \in Cursors
    BY <1>1, QueueAssumption DEF Queue, Cursors
  <2> QED
    BY <1>4, <1>5, <2>1 DEF AppendCall
<1>6. ASSUME NEW cursor \in Cursors, NEW now \in Times, ResumeCall(cursor, now)
      PROVE  reply' \in Reply
  <2>1. Good(ResumeDeliveries(stored, cursor, now))
    BY <1>1, <1>2, <1>6, ResumeKeeps DEF ResumeCall
  <2>2. Good(compactExpiredDeliveries(ensureDeliveryState(stored), now))
    BY <1>1, EnsureKeeps, CompactKeeps
  <2>3. ResumeBatch(stored, cursor, now) \in Batch
    BY <2>1, <2>2, BatchType DEF ResumeBatch, Batch
  <2> QED
    BY <1>3, <1>6, <2>3 DEF ResumeCall
<1>7. ASSUME NEW after \in Cursors, NEW now \in Times, ReadCall(after, now)
      PROVE  reply' \in Reply
  <2>1. Good(ReadDeliveries(stored, now))
    BY <1>1, CompactKeeps DEF ReadDeliveries
  <2>2. ReadBatch(stored, after, now) \in Batch
    BY <2>1, BatchType DEF ReadBatch, Batch
  <2> QED
    BY <1>3, <1>7, <2>2 DEF ReadCall
<1>8. ASSUME NEW cursor \in Cursors, AcknowledgeCall(cursor)
      PROVE  reply' \in Reply
  BY <1>4, <1>8 DEF AcknowledgeCall
<1>9. CASE RefuseCall
  BY <1>2, <1>4, <1>9 DEF RefuseCall
<1>10. CASE UNCHANGED storeVars
  BY <1>1, <1>10 DEF storeVars
<1> QED
  BY <1>5, <1>6, <1>7, <1>8, <1>9, <1>10 DEF StoreNext

\* The store starts with an empty, complete history.
LEMMA InitIndInv == StoreInit => IndInv
<1>1. SUFFICES ASSUME StoreInit PROVE IndInv
  OBVIOUS
<1>2. stored \in Queue
  BY <1>1, QueueAssumption DEF StoreInit, EmptyQueue, Queue
<1>3. reply \in Reply
  BY <1>1, QueueAssumption DEF StoreInit, NoReply, Reply, Cursors
<1>4. Complete(stored)
  BY <1>1 DEF StoreInit, EmptyQueue, Complete, Floor, Larger, HighWater, Ids
<1> QED
  BY <1>2, <1>3, <1>4 DEF IndInv, StoreTypeOK, HistoryComplete

\* Every step keeps the inductive invariant.
LEMMA NextIndInv == IndInv /\ [StoreNext]_storeVars => IndInv'
<1>1. SUFFICES ASSUME IndInv, [StoreNext]_storeVars PROVE IndInv'
  OBVIOUS
<1>2. stored' \in Queue /\ Complete(stored')
  BY <1>1, NextKeepsQueue DEF StepKeeps, Good
<1>3. reply' \in Reply
  BY <1>1, NextKeepsReply
<1> QED
  BY <1>2, <1>3 DEF IndInv, StoreTypeOK, HistoryComplete, Complete, Floor, HighWater

\* For every capacity, batch size and clock, the queue row, its rows and the
\* answers of the four transactions keep their types.
THEOREM TypeCorrect == StoreSpec => []StoreTypeOK
<1>1. IndInv => StoreTypeOK
  BY Zenon DEF IndInv
<1> QED
  BY <1>1, InitIndInv, NextIndInv, PTL DEF StoreSpec

\* For every capacity, batch size and clock, no delivery between the floor and
\* the high-water mark is ever missing from the store: what a recipient is not
\* told to reconcile, it can still be sent.
THEOREM HistoryNeverGaps == StoreSpec => []HistoryComplete
<1>1. IndInv => HistoryComplete
  BY Zenon DEF IndInv
<1> QED
  BY <1>1, InitIndInv, NextIndInv, PTL DEF StoreSpec

\* No transaction moves a cursor back or stores a delivery under any id but
\* the next, so an id names one delivery for ever.
THEOREM CursorsOnlyAdvance == StoreSpec => CursorsAdvance
<1> DEFINE Advance == /\ stored'.next >= stored.next
                      /\ stored'.acked >= stored.acked
                      /\ stored'.unavailable >= stored.unavailable
                      /\ \A r \in stored'.rows \ stored.rows : r.id = stored.next
<1>1. IndInv /\ [StoreNext]_storeVars => Advance
  BY NextKeepsQueue, Zenon DEF StepKeeps
<1>2. IndInv /\ [StoreNext]_storeVars => [Advance]_storeVars
  BY <1>1, Zenon
<1> QED
  BY <1>2, InitIndInv, NextIndInv, PTL DEF StoreSpec, CursorsAdvance

-----------------------------------------------------------------------------
\* What exactly a batch holds, and that it is fresh and durable.

\* A delivery id names one row (the primary key of relay_deliveries).
Distinct(rows) == \A r, s \in rows : r.id = s.id => r = s

\* The smaller of two numbers is what Min chooses.
LEMMA MinOfTwo ==
    ASSUME NEW a \in Int, NEW b \in Int
    PROVE  Min({a, b}) = IF a <= b THEN a ELSE b
<1>1. \E m \in {a, b} : \A y \in {a, b} : m <= y
  OBVIOUS
<1>2. Min({a, b}) \in {a, b} /\ \A y \in {a, b} : Min({a, b}) <= y
  BY <1>1, Zenon DEF Min
<1> QED
  BY <1>2

\* Above the floor there is exactly one row for each id, so the rows between a
\* cursor and an id are counted by the ids.
LEMMA RowsCounted ==
    ASSUME NEW q, Good(q), IsFiniteSet(q.rows), Distinct(q.rows),
           NEW after \in Nat, Floor(q) <= after,
           NEW k \in Int, after < k, k <= HighWater(q)
    PROVE  Cardinality({s \in {r \in q.rows : r.id > after} : s.id < k}) = k - 1 - after
<1> DEFINE below == {s \in {r \in q.rows : r.id > after} : s.id < k}
           ids == after + 1 .. k - 1
           f == [s \in below |-> s.id]
<1>1. q \in Queue /\ Complete(q)
  BY Zenon DEF Good
<1>2. /\ q.next \in Int /\ q.acked \in Int /\ q.unavailable \in Int
      /\ \A r \in q.rows : r.id \in Int
  BY <1>1, QueueAssumption DEF Queue, Delivery
<1>3. f \in [below -> ids]
  BY <1>2
<1>4. \A r, s \in below : f[r] = f[s] => r = s
  BY Zenon DEF Distinct
<1>5. ASSUME NEW i \in ids PROVE \E s \in below : f[s] = i
  <2>1. i \in Floor(q) + 1 .. HighWater(q)
    BY <1>2 DEF Floor, Larger, HighWater
  <2>2. PICK s \in q.rows : s.id = i
    BY <1>1, <2>1, Zenon DEF Complete, Ids
  <2>3. s \in below
    BY <1>2, <2>2
  <2> QED
    BY <2>2, <2>3, Zenon
<1> HIDE DEF f
<1>6. f \in Bijection(below, ids)
  BY <1>3, <1>4, <1>5, Zenon DEF Bijection, Injection, Surjection, IsInjective
<1>7. below \subseteq q.rows
  BY Zenon
<1> HIDE DEF below, ids
<1>8. IsFiniteSet(below)
  BY <1>7, FS_Subset, Zenon
<1>9. Cardinality(ids) = Cardinality(below)
  BY <1>6, <1>8, FS_Bijection, Zenon DEF ExistsBijection
<1>10. Cardinality(ids) = k - 1 - after
  BY FS_Interval DEF ids
<1> QED
  BY <1>9, <1>10, Zenon DEF below

\* SELECT ... ORDER BY delivery_id LIMIT, read at or above the floor: exactly the
\* ids that follow the cursor, as many as the limit and the history allow.
LEMMA RowsAfterExact ==
    ASSUME NEW q, Good(q), IsFiniteSet(q.rows), Distinct(q.rows),
           NEW after \in Nat, Floor(q) <= after
    PROVE  Ids(RowsAfter(q, after)) = after + 1 .. Min({after + BatchLimit, HighWater(q)})
<1> DEFINE above == {r \in q.rows : r.id > after}
           Below(k) == {s \in above : s.id < k}
<1>1. q \in Queue /\ Complete(q)
  BY Zenon DEF Good
<1>2. /\ q.next \in Int /\ q.acked \in Int /\ q.unavailable \in Int
      /\ \A r \in q.rows : r.id \in Int /\ r.id <= HighWater(q)
  BY <1>1, QueueAssumption DEF Queue, Delivery, Complete, Ids, HighWater
<1>3. RowsAfter(q, after) = {r \in above : Cardinality(Below(r.id)) < BatchLimit}
  BY Zenon DEF RowsAfter
<1>4. ASSUME NEW k \in Int, after < k, k <= HighWater(q)
      PROVE  Cardinality(Below(k)) = k - 1 - after /\ \E s \in above : s.id = k
  <2>1. k \in Floor(q) + 1 .. HighWater(q)
    BY <1>2, <1>4 DEF Floor, Larger, HighWater
  <2>2. k \in Ids(q.rows)
    BY <1>1, <2>1, Zenon DEF Complete
  <2> QED
    BY <1>4, <2>2, RowsCounted, Zenon DEF Ids
<1>5. \A r \in above : r.id \in Int /\ after < r.id /\ r.id <= HighWater(q)
  BY <1>2, Zenon
<1>6. HighWater(q) \in Int /\ BatchLimit \in Nat
  BY <1>2, QueueAssumption DEF HighWater
<1> HIDE DEF above, Below
<1>7. \A k \in Int : k \in Ids(RowsAfter(q, after))
                       <=> after < k /\ k <= HighWater(q) /\ k - 1 - after < BatchLimit
  BY <1>3, <1>4, <1>5, Zenon DEF Ids
<1>8. Ids(RowsAfter(q, after)) \subseteq Int
  BY <1>3, <1>5, Zenon DEF Ids
<1>9. Min({after + BatchLimit, HighWater(q)})
        = IF after + BatchLimit <= HighWater(q) THEN after + BatchLimit ELSE HighWater(q)
  BY <1>6, MinOfTwo
<1> DEFINE top == Min({after + BatchLimit, HighWater(q)})
<1>10. top \in Int /\ \A k \in Int : k <= top <=> k <= HighWater(q) /\ k - 1 - after < BatchLimit
  BY <1>6, <1>9
<1> HIDE DEF top
<1>11. \A k \in Int : k \in Ids(RowsAfter(q, after)) <=> k \in after + 1 .. top
  BY <1>7, <1>10
<1>12. after + 1 .. top \subseteq Int
  BY <1>10
<1>13. Ids(RowsAfter(q, after)) = after + 1 .. top
  BY <1>8, <1>11, <1>12, Zenon
<1> QED
  BY <1>13, Zenon DEF top

-----------------------------------------------------------------------------
\* The envelope bytes of a set of rows, SELECT SUM(LENGTH(envelope)), whatever
\* order the sum is taken in.

Sized(rows) == IsFiniteSet(rows) /\ \A r \in rows : r.size \in Nat

\* The row the sum takes first.
First(rows) == CHOOSE r \in rows : TRUE

\* f sums every subset of all that has at most n rows.
SumsUpTo(f, all, n) ==
    \A s \in SUBSET all : Cardinality(s) <= n =>
        /\ f[s] \in Nat
        /\ f[s] = IF s = {} THEN 0 ELSE First(s).size + f[s \ {First(s)}]

\* f is the recursive function MapThenFoldSet chooses.
SumsAll(f, all) ==
    f = [s \in SUBSET all |-> IF s = {} THEN 0
                              ELSE LET r == First(s) IN r.size + f[s \ {r}]]

\* Taking the first row of a set leaves one row fewer.
LEMMA FirstLeaves ==
    ASSUME NEW s, IsFiniteSet(s), s # {}
    PROVE  /\ First(s) \in s
           /\ IsFiniteSet(s \ {First(s)})
           /\ Cardinality(s) \in Nat
           /\ Cardinality(s \ {First(s)}) = Cardinality(s) - 1
<1>1. First(s) \in s
  BY Zenon DEF First
<1> QED
  BY <1>1, FS_RemoveElement, FS_CardinalityType, Zenon

\* The sum of n rows exists for every n.
LEMMA SumsExist ==
    ASSUME NEW all, Sized(all), NEW n \in Nat
    PROVE  \E f : SumsUpTo(f, all, n)
<1> DEFINE Bad == {m \in Nat : ~ \E f : SumsUpTo(f, all, m)}
<1>1. \A s \in SUBSET all : IsFiniteSet(s) /\ Cardinality(s) \in Nat
  BY FS_Subset, FS_CardinalityType, Zenon DEF Sized
<1>2. ASSUME Bad # {} PROVE FALSE
  <2>1. PICK m \in Bad : \A k \in Bad : m <= k
    <3> HIDE DEF Bad
    <3>1. Bad \in SUBSET Nat
      BY Zenon DEF Bad
    <3> QED
      BY <1>2, <3>1, LeastNatural, Zenon
  <2>2. CASE m = 0
    <3> DEFINE f == [s \in SUBSET all |-> 0]
    <3>1. ASSUME NEW s \in SUBSET all, Cardinality(s) <= 0 PROVE s = {}
      BY <1>1, <3>1, FS_EmptySet
    <3>2. SumsUpTo(f, all, 0)
      BY <3>1, Zenon DEF SumsUpTo
    <3> QED
      BY <2>1, <2>2, <3>2, Zenon
  <2>3. CASE m # 0
    <3>1. PICK g : SumsUpTo(g, all, m - 1)
      BY <2>1, <2>3
    <3> DEFINE f == [s \in SUBSET all |-> IF s = {} THEN 0
                                          ELSE First(s).size + g[s \ {First(s)}]]
    <3>2. ASSUME NEW s \in SUBSET all, Cardinality(s) <= m, s # {}
          PROVE  /\ First(s).size \in Nat
                 /\ s \ {First(s)} \in SUBSET all
                 /\ Cardinality(s \ {First(s)}) <= m - 1
      BY <1>1, <2>1, <3>2, FirstLeaves DEF Sized
    <3>3. ASSUME NEW s \in SUBSET all, Cardinality(s) <= m - 1 PROVE f[s] = g[s]
      BY <3>1, <3>3, Zenon DEF SumsUpTo
    <3>4. ASSUME NEW s \in SUBSET all, Cardinality(s) <= m
          PROVE  /\ f[s] \in Nat
                 /\ f[s] = IF s = {} THEN 0 ELSE First(s).size + f[s \ {First(s)}]
      <4>1. CASE s = {}
        BY <4>1, Zenon
      <4>2. CASE s # {}
        <5>1. /\ First(s).size \in Nat
              /\ s \ {First(s)} \in SUBSET all
              /\ Cardinality(s \ {First(s)}) <= m - 1
          BY <3>2, <3>4, <4>2, Zenon
        <5>2. f[s \ {First(s)}] = g[s \ {First(s)}]
          BY <3>3, <5>1, Zenon
        <5>3. g[s \ {First(s)}] \in Nat
          BY <3>1, <5>1, Zenon DEF SumsUpTo
        <5>4. f[s] = First(s).size + g[s \ {First(s)}]
          BY <4>2, Zenon
        <5> HIDE DEF f
        <5> QED
          BY <4>2, <5>1, <5>2, <5>3, <5>4
      <4> QED
        BY <4>1, <4>2, Zenon
    <3> HIDE DEF f
    <3>5. SumsUpTo(f, all, m)
      BY <3>4, Zenon DEF SumsUpTo
    <3> QED
      BY <2>1, <3>5, Zenon
  <2> QED
    BY <2>2, <2>3, Zenon
<1> QED
  BY <1>2, Zenon

\* The recursive function exists and takes natural values.
LEMMA SumsDefined ==
    ASSUME NEW all, Sized(all)
    PROVE  \E f : SumsAll(f, all) /\ \A s \in SUBSET all : f[s] \in Nat
<1>1. \A s \in SUBSET all : IsFiniteSet(s) /\ Cardinality(s) <= Cardinality(all)
  BY FS_Subset, Zenon DEF Sized
<1>2. Cardinality(all) \in Nat
  BY FS_CardinalityType, Zenon DEF Sized
<1>3. PICK g : SumsUpTo(g, all, Cardinality(all))
  BY <1>2, SumsExist, Zenon
<1>4. \A s \in SUBSET all :
         /\ g[s] \in Nat
         /\ g[s] = IF s = {} THEN 0 ELSE First(s).size + g[s \ {First(s)}]
  BY <1>1, <1>3, Zenon DEF SumsUpTo
<1> DEFINE f == [s \in SUBSET all |-> g[s]]
<1>5. ASSUME NEW s \in SUBSET all
      PROVE  f[s] = IF s = {} THEN 0 ELSE LET r == First(s) IN r.size + f[s \ {r}]
  <2>1. s \ {First(s)} \in SUBSET all
    BY Zenon
  <2>2. f[s] = g[s] /\ f[s \ {First(s)}] = g[s \ {First(s)}]
    BY <2>1, Zenon
  <2> HIDE DEF f
  <2> QED
    BY <1>4, <2>2, Zenon
<1>6. f = [s \in SUBSET all |-> f[s]]
  BY Zenon
<1>7. \A s \in SUBSET all : f[s] \in Nat
  BY <1>4, Zenon
<1> HIDE DEF f
<1>8. SumsAll(f, all)
  BY <1>5, <1>6, Zenon DEF SumsAll
<1> QED
  BY <1>7, <1>8, Zenon

\* Two such functions agree on the sets both of them sum.
LEMMA SumsAgree ==
    ASSUME NEW all, Sized(all), NEW part \in SUBSET all,
           NEW f, SumsAll(f, all), NEW g, SumsAll(g, part), NEW t \in SUBSET part
    PROVE  f[t] = g[t]
<1> DEFINE Bad == {m \in Nat : \E s \in SUBSET part : Cardinality(s) = m /\ f[s] # g[s]}
<1>1. \A s \in SUBSET part : IsFiniteSet(s) /\ Cardinality(s) \in Nat
  BY FS_Subset, FS_CardinalityType, Zenon DEF Sized
<1>2. ASSUME NEW s \in SUBSET part
      PROVE  /\ f[s] = IF s = {} THEN 0 ELSE First(s).size + f[s \ {First(s)}]
             /\ g[s] = IF s = {} THEN 0 ELSE First(s).size + g[s \ {First(s)}]
  BY Zenon DEF SumsAll
<1>3. ASSUME Bad # {} PROVE FALSE
  <2>1. PICK m \in Bad : \A k \in Bad : m <= k
    <3> HIDE DEF Bad
    <3>1. Bad \in SUBSET Nat
      BY Zenon DEF Bad
    <3> QED
      BY <1>3, <3>1, LeastNatural, Zenon
  <2>2. PICK s \in SUBSET part : Cardinality(s) = m /\ f[s] # g[s]
    BY <2>1, Zenon
  <2>3. s # {}
    BY <1>2, <2>2, Zenon
  <2>4. /\ s \ {First(s)} \in SUBSET part
        /\ Cardinality(s \ {First(s)}) \in Nat
        /\ Cardinality(s \ {First(s)}) < m
    BY <1>1, <2>2, <2>3, FirstLeaves
  <2>5. Cardinality(s \ {First(s)}) \notin Bad
    <3> HIDE DEF Bad
    <3>1. m \in Nat
      BY <2>1, Zenon DEF Bad
    <3> QED
      BY <2>1, <2>4, <3>1
  <2>6. f[s \ {First(s)}] = g[s \ {First(s)}]
    BY <2>4, <2>5, Zenon
  <2> HIDE DEF Bad
  <2> QED
    BY <1>2, <2>2, <2>3, <2>6, Zenon
<1> QED
  BY <1>1, <1>3, Zenon

\* The bytes of a set of rows are a natural number, nothing for no rows, and
\* otherwise the first row's and those of the rest.
LEMMA BytesUnfold ==
    ASSUME NEW all, Sized(all)
    PROVE  /\ Bytes(all) \in Nat
           /\ Bytes(all) = IF all = {} THEN 0 ELSE First(all).size + Bytes(all \ {First(all)})
<1> DEFINE Sum(rows) == CHOOSE f : SumsAll(f, rows)
<1>1. \A rows : Bytes(rows) = Sum(rows)[rows]
  BY Zenon DEF Bytes, MapThenSumSet, MapThenFoldSet, SumsAll, First
<1>2. PICK f : SumsAll(f, all) /\ \A s \in SUBSET all : f[s] \in Nat
  BY SumsDefined, Zenon
<1>3. ASSUME NEW rows \in SUBSET all PROVE Bytes(rows) = f[rows]
  <2>1. Sized(rows)
    BY FS_Subset, Zenon DEF Sized
  <2>2. \E g : SumsAll(g, rows)
    BY <2>1, SumsDefined, Zenon
  <2>3. PICK h : h = Sum(rows)
    BY Zenon
  <2>4. SumsAll(h, rows)
    BY <2>2, <2>3, Zenon
  <2>5. f[rows] = h[rows]
    BY <1>2, <2>4, SumsAgree
  <2> HIDE DEF Sum
  <2> QED
    BY <1>1, <2>3, <2>5, Zenon
<1>4. f[all] = IF all = {} THEN 0 ELSE First(all).size + f[all \ {First(all)}]
  BY <1>2, Zenon DEF SumsAll
<1> HIDE DEF Sum
<1> QED
  BY <1>2, <1>3, <1>4, Zenon

\* Any row may be taken first.
LEMMA BytesWithout ==
    ASSUME NEW all, Sized(all), NEW y \in all
    PROVE  Bytes(all) = y.size + Bytes(all \ {y})
<1> DEFINE Wrong(s) == \E x \in s : Bytes(s) # x.size + Bytes(s \ {x})
           Bad == {m \in Nat : \E s \in SUBSET all : Cardinality(s) = m /\ Wrong(s)}
<1>1. ASSUME NEW s \in SUBSET all
      PROVE  Sized(s) /\ IsFiniteSet(s) /\ Cardinality(s) \in Nat
  BY FS_Subset, FS_CardinalityType, Zenon DEF Sized
<1>2. ASSUME Bad # {} PROVE FALSE
  <2>1. PICK m \in Bad : \A k \in Bad : m <= k
    <3> HIDE DEF Bad
    <3>1. Bad \in SUBSET Nat
      BY Zenon DEF Bad
    <3> QED
      BY <1>2, <3>1, LeastNatural, Zenon
  <2>2. PICK s \in SUBSET all : Cardinality(s) = m /\ Wrong(s)
    BY <2>1, Zenon
  <2>x. PICK x \in s : Bytes(s) # x.size + Bytes(s \ {x})
    BY <2>2, Zenon
  <2>3. ASSUME NEW t \in SUBSET all, Cardinality(t) < m, NEW z \in t
        PROVE  Bytes(t) = z.size + Bytes(t \ {z})
    <3>1. Cardinality(t) \notin Bad
      <4> HIDE DEF Bad
      <4>1. m \in Nat /\ Cardinality(t) \in Nat
        BY <1>1, <2>1, Zenon DEF Bad
      <4> QED
        BY <2>1, <2>3, <4>1
    <3> QED
      BY <1>1, <3>1, Zenon
  <2> HIDE DEF Bad
  <2> DEFINE r == First(s)
  <2>4. r \in s /\ Bytes(s) = r.size + Bytes(s \ {r})
    BY <1>1, FirstLeaves, BytesUnfold, Zenon
  <2>5. r # x
    BY <2>x, <2>4, Zenon
  <2> HIDE DEF r
  <2>6. Cardinality(s \ {r}) < m /\ Cardinality(s \ {x}) < m
    BY <1>1, <2>2, <2>4, FS_RemoveElement
  <2>7. Bytes(s \ {r}) = x.size + Bytes((s \ {r}) \ {x})
    BY <2>3, <2>5, <2>6, Zenon
  <2>8. Bytes(s \ {x}) = r.size + Bytes((s \ {x}) \ {r})
    BY <2>3, <2>4, <2>5, <2>6, Zenon
  <2>9. (s \ {x}) \ {r} = (s \ {r}) \ {x}
    BY Zenon
  <2>10. PICK left : left = Bytes((s \ {r}) \ {x}) /\ left \in Nat
    <3>1. (s \ {r}) \ {x} \in SUBSET all
      BY Zenon
    <3> QED
      BY <1>1, <3>1, BytesUnfold, Zenon
  <2>11. r.size \in Nat /\ x.size \in Nat
    BY <2>4, Zenon DEF Sized
  <2>12. Bytes(s) = r.size + (x.size + left) /\ Bytes(s \ {x}) = r.size + left
    BY <2>4, <2>7, <2>8, <2>9, <2>10, Zenon
  <2> QED
    BY <2>x, <2>10, <2>11, <2>12
<1> QED
  BY <1>1, <1>2, Zenon

\* Fewer rows never have more bytes.
LEMMA BytesMonotone ==
    ASSUME NEW all, Sized(all), NEW part \in SUBSET all
    PROVE  Bytes(part) <= Bytes(all)
<1> DEFINE Bad == {m \in Nat : \E s \in SUBSET all :
                        part \subseteq s /\ Cardinality(s) = m /\ ~ (Bytes(part) <= Bytes(s))}
<1>1. ASSUME NEW s \in SUBSET all
      PROVE  Sized(s) /\ IsFiniteSet(s) /\ Cardinality(s) \in Nat /\ Bytes(s) \in Nat
  <2>1. Sized(s) /\ IsFiniteSet(s)
    BY FS_Subset, Zenon DEF Sized
  <2> QED
    BY <2>1, FS_CardinalityType, BytesUnfold, Zenon
<1>2. ASSUME Bad # {} PROVE FALSE
  <2>1. PICK m \in Bad : \A k \in Bad : m <= k
    <3> HIDE DEF Bad
    <3>1. Bad \in SUBSET Nat
      BY Zenon DEF Bad
    <3> QED
      BY <1>2, <3>1, LeastNatural, Zenon
  <2>2. PICK s \in SUBSET all :
            part \subseteq s /\ Cardinality(s) = m /\ ~ (Bytes(part) <= Bytes(s))
    BY <2>1, Zenon
  <2>3. PICK x \in s : x \notin part
    BY <1>1, <2>2
  <2>4. PICK t : t = s \ {x}
    BY Zenon
  <2>5. t \in SUBSET all /\ part \subseteq t
    BY <2>2, <2>3, <2>4, Zenon
  <2>6. Bytes(s) = x.size + Bytes(t) /\ x.size \in Nat
    BY <1>1, <2>4, BytesWithout, Zenon DEF Sized
  <2>7. Cardinality(t) = m - 1 /\ m \in Nat
    BY <1>1, <2>2, <2>4, FS_RemoveElement, Zenon
  <2>8. ~ (Bytes(part) <= Bytes(t))
    BY <1>1, <2>2, <2>5, <2>6
  <2>9. m - 1 \in Bad
    BY <1>1, <2>5, <2>7, <2>8, Zenon
  <2> HIDE DEF Bad
  <2> QED
    BY <2>1, <2>7, <2>9
<1> QED
  BY <1>1, <1>2, Zenon

\* Rows that fit the capacity still do when some of them go.
LEMMA FitsSubset ==
    ASSUME NEW all, Sized(all), FitsCapacity(all), NEW part \in SUBSET all
    PROVE  FitsCapacity(part)
<1>1. Sized(part)
  BY FS_Subset, Zenon DEF Sized
<1>2. /\ Cardinality(part) \in Nat /\ Cardinality(all) \in Nat
      /\ Cardinality(part) <= Cardinality(all)
  BY <1>1, FS_Subset, FS_CardinalityType, Zenon DEF Sized
<1>3. Bytes(part) \in Nat /\ Bytes(all) \in Nat /\ Bytes(part) <= Bytes(all)
  BY <1>1, BytesUnfold, BytesMonotone, Zenon
<1> QED
  BY <1>2, <1>3, QueueAssumption DEF FitsCapacity

\* What enforceDeliveryCapacity leaves: the rows that fit with all newer ones.
LEMMA CapacityRows ==
    ASSUME NEW q \in Queue
    PROVE  enforceDeliveryCapacity(q).rows
             = {r \in q.rows : FitsCapacity({s \in q.rows : s.id >= r.id})}
<1> DEFINE kept == {r \in q.rows : FitsCapacity({s \in q.rows : s.id >= r.id})}
<1>1. PICK k : k = kept
  BY Zenon
<1>2. k \subseteq q.rows
  BY <1>1, Zenon
<1> HIDE DEF kept
<1>3. enforceDeliveryCapacity(q)
        = IF q.rows \ k = {} THEN q
          ELSE markUnavailableThrough([q EXCEPT !.rows = k], Max(Ids(q.rows \ k)))
  BY <1>1, Zenon DEF enforceDeliveryCapacity, kept
<1>4. enforceDeliveryCapacity(q).rows = k
  BY <1>2, <1>3, Zenon DEF markUnavailableThrough, Queue
<1> QED
  BY <1>1, <1>4, Zenon DEF kept

\* No envelope is larger than the byte limit.
LEMMA SizesBounded == \A size \in Sizes : size \in Nat /\ size <= MaxQueuedBytes
BY QueueAssumption

\* The rows of a queue have sizes to add up.
LEMMA RowsAreSized ==
    ASSUME NEW q \in Queue, IsFiniteSet(q.rows), NEW rows \in SUBSET q.rows
    PROVE  Sized(rows)
<1>1. \A r \in rows : r.size \in Sizes
  BY Zenon DEF Queue, Delivery
<1> QED
  BY <1>1, SizesBounded, FS_Subset, Zenon DEF Sized

\* What enforceDeliveryCapacity leaves fits both limits: the oldest row it
\* leaves fits together with everything newer.
LEMMA CapacityFits ==
    ASSUME NEW q \in Queue, IsFiniteSet(q.rows)
    PROVE  FitsCapacity(enforceDeliveryCapacity(q).rows)
<1>1. PICK kept : kept = {r \in q.rows : FitsCapacity({s \in q.rows : s.id >= r.id})}
  BY Zenon
<1>2. enforceDeliveryCapacity(q).rows = kept
  BY <1>1, CapacityRows, Zenon
<1>3. CASE kept = {}
  <2>1. Sized({}) /\ Cardinality({}) = 0
    BY FS_EmptySet, Zenon DEF Sized
  <2>2. Bytes({}) = 0
    BY <2>1, BytesUnfold, Zenon
  <2> QED
    BY <1>2, <1>3, <2>1, <2>2, QueueAssumption DEF FitsCapacity
<1>4. CASE kept # {}
  <2>1. \A r \in q.rows : r.id \in Nat
    BY DEF Queue, Delivery
  <2>2. Ids(kept) \in SUBSET Nat /\ Ids(kept) # {}
    BY <1>1, <1>4, <2>1, Zenon DEF Ids
  <2>3. PICK i \in Ids(kept) : \A j \in Ids(kept) : i <= j
    BY <2>2, LeastNatural, Zenon
  <2>4. PICK m \in kept : m.id = i
    BY <2>3, Zenon DEF Ids
  <2>5. PICK newer : newer = {s \in q.rows : s.id >= m.id}
    BY Zenon
  <2>6. FitsCapacity(newer) /\ newer \in SUBSET q.rows
    BY <1>1, <2>4, <2>5, Zenon
  <2>7. \A r \in kept : r \in q.rows /\ r.id >= m.id
    BY <1>1, <2>1, <2>3, <2>4, Zenon DEF Ids
  <2>8. kept \in SUBSET newer
    BY <2>5, <2>7, Zenon
  <2>9. Sized(newer)
    BY <2>6, RowsAreSized, Zenon
  <2> QED
    BY <1>2, <2>6, <2>8, <2>9, FitsSubset, Zenon
<1> QED
  BY <1>3, <1>4, Zenon

\* enforceDeliveryCapacity never evicts the newest row: alone it always fits,
\* since no envelope is larger than the byte limit and the count is at least one.
LEMMA CapacityKeepsNewest ==
    ASSUME NEW q \in Queue, IsFiniteSet(q.rows), NEW new \in q.rows,
           \A r \in q.rows : r # new => r.id < new.id
    PROVE  new \in enforceDeliveryCapacity(q).rows
<1>1. \A r \in q.rows : r.id \in Nat
  BY DEF Queue, Delivery
<1>2. {s \in q.rows : s.id >= new.id} = {new}
  BY <1>1
<1>3. new.size \in Nat /\ new.size <= MaxQueuedBytes
  <2>1. new.size \in Sizes
    BY Zenon DEF Queue, Delivery
  <2> QED
    BY <2>1, SizesBounded, Zenon
<1>4. Sized({new}) /\ Sized({}) /\ Cardinality({new}) = 1
  BY <1>3, FS_Singleton, FS_EmptySet, Zenon DEF Sized
<1>5. Bytes({new}) = new.size + Bytes({new} \ {new})
  BY <1>4, BytesWithout, Zenon
<1>6. Bytes({}) = 0
  BY <1>4, BytesUnfold, Zenon
<1>7. {new} \ {new} = {}
  BY Zenon
<1>8. FitsCapacity({new})
  BY <1>3, <1>4, <1>5, <1>6, <1>7, QueueAssumption DEF FitsCapacity
<1> QED
  BY <1>2, <1>8, CapacityRows

\* One pass of the loop of enforceDeliveryCapacity that does not return: the
\* oldest row is deleted and the gap recorded through it.
EvictOldest(q) ==
    markUnavailableThrough([q EXCEPT !.rows = {r \in @ : r.id # Min(Ids(q.rows))}],
                           Min(Ids(q.rows)))

\* The least of a set of identifiers.
LEMMA MinIsMinimum ==
    ASSUME NEW S \in SUBSET Nat, S # {}
    PROVE  Min(S) \in S /\ \A x \in S : Min(S) <= x
<1>1. PICK m \in S : \A n \in S : m <= n
  BY LeastNatural, Zenon
<1>2. Min(S) = CHOOSE x \in S : \A y \in S : x <= y
  BY Zenon DEF Min
<1> QED
  BY <1>1, <1>2, Zenon

\* What enforceDeliveryCapacity computes, by the rows it keeps.
LEMMA CapacityResult ==
    ASSUME NEW q \in Queue, NEW kept,
           kept = {r \in q.rows : FitsCapacity({s \in q.rows : s.id >= r.id})}
    PROVE  enforceDeliveryCapacity(q)
             = IF q.rows \ kept = {} THEN q
               ELSE [created |-> q.created, next |-> q.next, acked |-> q.acked,
                     unavailable |-> Larger(q.unavailable, Max(Ids(q.rows \ kept))),
                     rows |-> kept]
<1>1. CASE q.rows \ kept = {}
  BY <1>1, Zenon DEF enforceDeliveryCapacity
<1>2. CASE q.rows \ kept # {}
  <2>1. enforceDeliveryCapacity(q)
          = markUnavailableThrough([q EXCEPT !.rows = kept], Max(Ids(q.rows \ kept)))
    BY <1>2, Zenon DEF enforceDeliveryCapacity
  <2> QED
    BY <1>2, <2>1, Zenon DEF markUnavailableThrough, Queue
<1> QED
  BY <1>1, <1>2, Zenon

\* The closed form of enforceDeliveryCapacity is the loop of the source: where the
\* loop returns it changes nothing, and where the loop deletes the oldest row it
\* computes what it computes from the queue without that row.  Every pass
\* deletes a row, so the two equations leave the loop no other result.
THEOREM CapacityIsTheLoop ==
    ASSUME NEW q \in Queue, IsFiniteSet(q.rows)
    PROVE  /\ FitsCapacity(q.rows) => enforceDeliveryCapacity(q) = q
           /\ ~FitsCapacity(q.rows) =>
                  /\ enforceDeliveryCapacity(q) = enforceDeliveryCapacity(EvictOldest(q))
                  /\ EvictOldest(q) \in Queue /\ IsFiniteSet(EvictOldest(q).rows)
                  /\ Cardinality(EvictOldest(q).rows) < Cardinality(q.rows)
<1> DEFINE Kept(rows) == {r \in rows : FitsCapacity({s \in rows : s.id >= r.id})}
<1>1. \A r \in q.rows : r.id \in Nat /\ r.id \in 1..MaxInt64
  BY QueueAssumption DEF Queue, Delivery
<1>2. ASSUME FitsCapacity(q.rows) PROVE enforceDeliveryCapacity(q) = q
  <2>1. PICK kept : kept = Kept(q.rows)
    BY Zenon
  <2>2. ASSUME NEW r \in q.rows PROVE r \in kept
    <3>1. {s \in q.rows : s.id >= r.id} \in SUBSET q.rows
      OBVIOUS
    <3>2. Sized(q.rows)
      BY RowsAreSized, Zenon
    <3>3. FitsCapacity({s \in q.rows : s.id >= r.id})
      BY <1>2, <3>1, <3>2, FitsSubset, Zenon
    <3> QED
      BY <2>1, <3>3, Zenon
  <2>3. q.rows \ kept = {}
    BY <2>2, Zenon
  <2> QED
    BY <2>1, <2>3, CapacityResult, Zenon
<1>3. ASSUME ~FitsCapacity(q.rows)
      PROVE  /\ enforceDeliveryCapacity(q) = enforceDeliveryCapacity(EvictOldest(q))
             /\ EvictOldest(q) \in Queue /\ IsFiniteSet(EvictOldest(q).rows)
             /\ Cardinality(EvictOldest(q).rows) < Cardinality(q.rows)
  <2>1. q.rows # {}
    <3>1. Sized({}) /\ Cardinality({}) = 0
      BY FS_EmptySet, Zenon DEF Sized
    <3>2. Bytes({}) = 0
      BY <3>1, BytesUnfold, Zenon
    <3>3. FitsCapacity({})
      BY <3>1, <3>2, QueueAssumption DEF FitsCapacity
    <3> QED
      BY <1>3, <3>3, Zenon
  <2>2. PICK m : m = Min(Ids(q.rows))
    BY Zenon
  <2>3. Ids(q.rows) \in SUBSET Nat /\ Ids(q.rows) # {}
    BY <1>1, <2>1, Zenon DEF Ids
  <2>4. m \in Ids(q.rows) /\ \A i \in Ids(q.rows) : m <= i
    BY <2>2, <2>3, MinIsMinimum, Zenon
  <2>5. PICK first \in q.rows : first.id = m
    BY <2>4, Zenon DEF Ids
  <2>6. m \in Nat /\ m \in 1..MaxInt64 /\ \A r \in q.rows : m <= r.id
    BY <1>1, <2>4, <2>5, Zenon DEF Ids
  <2>7. PICK rest : rest = {r \in q.rows : r.id # m}
    BY Zenon
  <2>8. PICK p : p = [created |-> q.created, next |-> q.next, acked |-> q.acked,
                      unavailable |-> Larger(q.unavailable, m), rows |-> rest]
    BY Zenon
  <2>9. EvictOldest(q) = p
    <3>1. EvictOldest(q) = markUnavailableThrough([q EXCEPT !.rows = rest], m)
      BY <2>2, <2>7, Zenon DEF EvictOldest
    <3> QED
      BY <2>8, <3>1, Zenon DEF markUnavailableThrough, Queue
  <2>10. p \in Queue
    <3>1. rest \in SUBSET Delivery /\ Larger(q.unavailable, m) \in 0..MaxInt64
      BY <2>6, <2>7 DEF Queue, Larger
    <3> QED
      BY <2>8, <3>1 DEF Queue
  <2>11. IsFiniteSet(rest) /\ Cardinality(rest) < Cardinality(q.rows)
    <3>1. rest \subseteq q.rows /\ rest # q.rows
      BY <2>5, <2>7, Zenon
    <3>2. /\ IsFiniteSet(rest) /\ Cardinality(rest) <= Cardinality(q.rows)
          /\ Cardinality(q.rows) # Cardinality(rest)
      BY <3>1, FS_Subset, Zenon
    <3>3. Cardinality(rest) \in Nat /\ Cardinality(q.rows) \in Nat
      BY <3>2, FS_CardinalityType, Zenon
    <3> QED
      BY <3>2, <3>3
  <2>12. PICK kept : kept = Kept(q.rows)
    BY Zenon
  <2>13. \A r \in q.rows : r.id = m => r \notin kept
    <3>1. {s \in q.rows : s.id >= m} = q.rows
      BY <1>1, <2>6
    <3> QED
      BY <1>3, <2>12, <3>1, Zenon
  <2>14. \A r \in rest : {s \in q.rows : s.id >= r.id} = {s \in rest : s.id >= r.id}
    BY <1>1, <2>6, <2>7
  <2>15. kept = Kept(rest)
    BY <2>7, <2>12, <2>13, <2>14, Zenon
  <2> HIDE DEF Kept
  <2>16. PICK gone : gone = q.rows \ kept
    BY Zenon
  <2>17. PICK later : later = rest \ kept
    BY Zenon
  <2>18. Ids(gone) = Ids(later) \cup {m}
    BY <2>5, <2>7, <2>13, <2>16, <2>17 DEF Ids
  <2>19. Ids(gone) \in SUBSET (1..MaxInt64) /\ Ids(later) \in SUBSET (1..MaxInt64)
    BY <1>1, <2>7, <2>16, <2>17, Zenon DEF Ids
  <2>20. gone # {}
    BY <2>5, <2>13, <2>16, Zenon
  <2>21. PICK top : top = Max(Ids(gone))
    BY Zenon
  <2>22. top \in Ids(gone) /\ \A i \in Ids(gone) : i <= top
    BY <2>18, <2>19, <2>21, MaxIsMaximum, QueueAssumption, Zenon
  <2>23. enforceDeliveryCapacity(q)
           = [created |-> q.created, next |-> q.next, acked |-> q.acked,
              unavailable |-> Larger(q.unavailable, top), rows |-> kept]
    BY <2>12, <2>16, <2>20, <2>21, CapacityResult, Zenon DEF Kept
  <2>24. /\ p.created = q.created /\ p.next = q.next /\ p.acked = q.acked
         /\ p.unavailable = Larger(q.unavailable, m) /\ p.rows = rest
    BY <2>8, Zenon
  <2>25. enforceDeliveryCapacity(p) =
           IF later = {} THEN p
           ELSE [created |-> q.created, next |-> q.next, acked |-> q.acked,
                 unavailable |-> Larger(Larger(q.unavailable, m), Max(Ids(later))),
                 rows |-> kept]
    <3>1. kept = {r \in p.rows : FitsCapacity({s \in p.rows : s.id >= r.id})}
      BY <2>15, <2>24, Zenon DEF Kept
    <3> QED
      BY <2>10, <2>17, <2>24, <3>1, CapacityResult, Zenon
  <2>26. ASSUME later = {} PROVE enforceDeliveryCapacity(q) = enforceDeliveryCapacity(p)
    <3>1. Ids(later) = {}
      BY <2>26, Zenon DEF Ids
    <3>2. top = m
      BY <2>18, <2>22, <3>1, Zenon
    <3>3. rest = kept
      BY <2>15, <2>17, <2>26, Zenon DEF Kept
    <3> QED
      BY <2>8, <2>23, <2>25, <2>26, <3>2, <3>3, Zenon
  <2>27. ASSUME later # {} PROVE enforceDeliveryCapacity(q) = enforceDeliveryCapacity(p)
    <3>1. PICK last : last = Max(Ids(later))
      BY Zenon
    <3>2. last \in Ids(later) /\ \A i \in Ids(later) : i <= last
      <4>1. Ids(later) # {}
        BY <2>27, Zenon DEF Ids
      <4> QED
        BY <2>19, <3>1, <4>1, MaxIsMaximum, QueueAssumption, Zenon
    <3>3. m <= last /\ last \in Nat
      BY <1>1, <2>6, <2>7, <2>17, <3>2, Zenon DEF Ids
    <3>4. top = last
      BY <2>6, <2>18, <2>22, <3>2, <3>3
    <3>5. Larger(Larger(q.unavailable, m), last) = Larger(q.unavailable, last)
      BY <2>6, <3>3 DEF Larger, Queue
    <3> QED
      BY <2>23, <2>25, <2>27, <3>1, <3>4, <3>5, Zenon
  <2> QED
    BY <2>9, <2>10, <2>11, <2>24, <2>26, <2>27, Zenon
<1> QED
  BY <1>2, <1>3, Zenon

-----------------------------------------------------------------------------
\* The answers: what a batch holds, and what an append leaves stored.

\* No row that compactExpiredDeliveries leaves has expired.
LEMMA CompactLeavesFresh ==
    ASSUME NEW q \in Queue, NEW now \in Times,
           NEW r \in compactExpiredDeliveries(q, now).rows
    PROVE  r.expires > now
<1>1. PICK expired : expired = {s \in q.rows : s.expires <= now}
  BY Zenon
<1>2. compactExpiredDeliveries(q, now)
        = IF expired = {} THEN q
          ELSE markUnavailableThrough([q EXCEPT !.rows = @ \ expired], Max(Ids(expired)))
  BY <1>1, Zenon DEF compactExpiredDeliveries
<1>3. compactExpiredDeliveries(q, now).rows = q.rows \ expired
  BY <1>2, Zenon DEF markUnavailableThrough, Queue
<1>4. r \in q.rows /\ ~ (r.expires <= now)
  BY <1>1, <1>3, Zenon
<1>5. r.expires \in Times
  BY <1>4, Zenon DEF Queue, Delivery
<1>6. r.expires \in Nat /\ now \in Nat
  BY <1>5, QueueAssumption, Zenon
<1> QED
  BY <1>4, <1>6

\* What every batch has in common: it reports the high-water mark of the queue
\* the transaction leaves, and holds nothing that has expired.
Answers(batch, p, now) ==
    /\ batch.high = HighWater(p)
    /\ \A r \in batch.deliveries : r.expires > now

\* The batch of ResumeDeliveries: fresh, and an unbroken run from the cursor
\* unless it is a reset.
LEMMA ResumeAnswers ==
    ASSUME NEW q, Good(q), IsFiniteSet(q.rows), Distinct(q.rows),
           NEW cursor \in Nat, CanResume(q, cursor), NEW now \in Times
    PROVE  LET p == ResumeDeliveries(q, cursor, now)
               batch == ResumeBatch(q, cursor, now)
           IN  /\ Answers(batch, p, now)
               /\ ~ batch.reset => Ids(batch.deliveries)
                                     = cursor + 1 .. Min({cursor + BatchLimit, batch.high})
<1>1. PICK e : e = ensureDeliveryState(q) /\ Good(e) /\ Shrunk(e, q)
  BY EnsureKeeps, Zenon
<1>2. PICK o : o = compactExpiredDeliveries(e, now) /\ Good(o) /\ Shrunk(o, e)
  BY <1>1, CompactKeeps, Zenon
<1>3. PICK p : p = ResumeDeliveries(q, cursor, now) /\ Good(p) /\ Shrunk(p, q)
  BY ResumeKeeps, Zenon
<1>4. q \in Queue /\ e \in Queue /\ o \in Queue /\ p \in Queue
  BY <1>1, <1>2, <1>3, Zenon DEF Good
<1>5. IsFiniteSet(p.rows) /\ Distinct(p.rows)
  BY <1>3, FS_Subset, Zenon DEF Shrunk, Distinct
<1>6. p = IF cursor < Floor(o) \/ cursor <= o.acked THEN o ELSE acknowledgeThrough(o, cursor)
  BY <1>1, <1>2, <1>3, Zenon DEF ResumeDeliveries
<1>7. /\ acknowledgeThrough(o, cursor).acked = Larger(o.acked, cursor)
      /\ acknowledgeThrough(o, cursor).unavailable = o.unavailable
      /\ acknowledgeThrough(o, cursor).rows \subseteq o.rows
  BY <1>4, Zenon DEF acknowledgeThrough, Queue
<1>8. p.rows \subseteq o.rows
  BY <1>6, <1>7, Zenon
<1>9. \A r \in p.rows : r.expires > now
  BY <1>2, <1>4, <1>8, CompactLeavesFresh, Zenon
<1>10. PICK batch : batch = ResumeBatch(q, cursor, now)
  BY Zenon
<1>11. batch = IF cursor < Floor(o) THEN ResetBatch(o) ELSE RowsBatch(p, cursor)
  BY <1>1, <1>2, <1>3, <1>10, Zenon DEF ResumeBatch
<1>12. CASE cursor < Floor(o)
  <2>1. p = o
    BY <1>6, <1>12, Zenon
  <2> QED
    BY <1>3, <1>10, <1>11, <1>12, <2>1 DEF ResetBatch, Answers
<1>13. CASE ~ (cursor < Floor(o))
  <2>1. Floor(p) <= cursor
    <3>1. o.acked \in Int /\ o.unavailable \in Int
      BY <1>4 DEF Queue
    <3> QED
      BY <1>6, <1>7, <1>13, <3>1 DEF Floor, Larger
  <2>2. Ids(RowsAfter(p, cursor)) = cursor + 1 .. Min({cursor + BatchLimit, HighWater(p)})
    BY <1>3, <1>5, <2>1, RowsAfterExact, Zenon
  <2>3. batch.high = HighWater(p) /\ batch.deliveries = RowsAfter(p, cursor)
    BY <1>11, <1>13, Zenon DEF RowsBatch
  <2>4. RowsAfter(p, cursor) \subseteq p.rows
    BY Zenon DEF RowsAfter
  <2> QED
    BY <1>3, <1>9, <1>10, <2>2, <2>3, <2>4, ZenonT(30) DEF Answers
<1> QED
  BY <1>12, <1>13, Zenon

\* The batch of ReadDeliveriesAfter: fresh, and an unbroken run from the cursor
\* unless it is a reset or the cursor is behind the acknowledged one.
LEMMA ReadAnswers ==
    ASSUME NEW q, Good(q), IsFiniteSet(q.rows), Distinct(q.rows),
           NEW after \in Nat, NEW now \in Times
    PROVE  LET p == ReadDeliveries(q, now)
               batch == ReadBatch(q, after, now)
           IN  /\ Answers(batch, p, now)
               /\ (~ batch.reset /\ after >= p.acked)
                     => Ids(batch.deliveries) = after + 1 .. Min({after + BatchLimit, batch.high})
<1>1. PICK p : /\ p = ReadDeliveries(q, now) /\ p = compactExpiredDeliveries(q, now)
               /\ Good(p) /\ Shrunk(p, q)
  BY CompactKeeps, Zenon DEF ReadDeliveries
<1>2. IsFiniteSet(p.rows) /\ Distinct(p.rows) /\ q \in Queue /\ p \in Queue
  BY <1>1, FS_Subset, Zenon DEF Shrunk, Distinct, Good
<1>3. \A r \in p.rows : r.expires > now
  BY <1>1, <1>2, CompactLeavesFresh, Zenon
<1>4. PICK batch : batch = ReadBatch(q, after, now)
  BY Zenon
<1>5. batch = IF after < p.unavailable THEN ResetBatch(p) ELSE RowsBatch(p, after)
  BY <1>1, <1>4, Zenon DEF ReadBatch
<1>6. CASE after < p.unavailable
  BY <1>1, <1>4, <1>5, <1>6 DEF ResetBatch, Answers
<1>7. CASE ~ (after < p.unavailable)
  <2>1. after >= p.acked => Floor(p) <= after
    BY <1>2, <1>7 DEF Floor, Larger, Queue
  <2>2. after >= p.acked =>
           Ids(RowsAfter(p, after)) = after + 1 .. Min({after + BatchLimit, HighWater(p)})
    BY <1>1, <1>2, <2>1, RowsAfterExact, Zenon
  <2>3. batch.high = HighWater(p) /\ batch.deliveries = RowsAfter(p, after)
    BY <1>5, <1>7, Zenon DEF RowsBatch
  <2>4. RowsAfter(p, after) \subseteq p.rows
    BY Zenon DEF RowsAfter
  <2> QED
    BY <1>1, <1>3, <1>4, <2>2, <2>3, <2>4, Zenon DEF Answers
<1> QED
  BY <1>6, <1>7, Zenon

\* The rows of a queue: finitely many, one for each id, within both limits.
RowsOK(rows) == IsFiniteSet(rows) /\ Distinct(rows) /\ FitsCapacity(rows)

\* What the answers rest on, with what they say.
AnswerInv ==
    /\ IndInv
    /\ RowsOK(stored.rows)
    /\ BatchContiguous
    /\ BatchUnexpired
    /\ AcceptedIsStored

\* Transactions that add no row keep the rows in order.
LEMMA FewerRowsOK ==
    ASSUME NEW q, Good(q), RowsOK(q.rows), NEW rows, rows \subseteq q.rows
    PROVE  RowsOK(rows)
<1>1. IsFiniteSet(q.rows) /\ q \in Queue /\ FitsCapacity(q.rows)
  BY Zenon DEF RowsOK, Good
<1>2. Sized(q.rows)
  BY <1>1, RowsAreSized, Zenon
<1>3. FitsCapacity(rows)
  BY <1>1, <1>2, FitsSubset, Zenon
<1>4. IsFiniteSet(rows)
  BY <1>1, FS_Subset, Zenon
<1>5. Distinct(rows)
  BY Zenon DEF RowsOK, Distinct
<1> QED
  BY <1>3, <1>4, <1>5, Zenon DEF RowsOK

\* An append keeps the rows in order and stores the delivery it accepts.
LEMMA AppendStores ==
    ASSUME NEW q, Good(q), RowsOK(q.rows), q.next # MaxInt64,
           NEW size \in Sizes, NEW expires \in Times, NEW now
    PROVE  LET p == AppendDelivery(q, size, expires, now)
           IN  RowsOK(p.rows) /\ q.next \in Ids(p.rows)
<1> DEFINE new == [id |-> q.next, size |-> size, expires |-> expires]
<1>1. new.id = q.next
  BY Zenon
<1> HIDE DEF new
<1>2. PICK a : /\ AppendDelivery(q, size, expires, now) = enforceDeliveryCapacity(a)
               /\ Good(a) /\ new \in a.rows /\ a.rows \subseteq q.rows \cup {new}
  BY AppendEnters, Zenon DEF new
<1>3. a \in Queue /\ q \in Queue /\ Complete(q) /\ new.id = q.next
  BY <1>1, <1>2, Zenon DEF Good
<1>4. \A r \in q.rows : r.id \in Int /\ r.id < q.next
  BY <1>3 DEF Queue, Delivery, Complete, Ids, HighWater
<1>5. IsFiniteSet(a.rows)
  BY <1>2, StaysFinite, Zenon DEF RowsOK
<1>6. \A r \in a.rows : r # new => r.id < new.id
  BY <1>2, <1>3, <1>4, Zenon
<1>7. Distinct(a.rows)
  <2>1. Distinct(q.rows) /\ q.next \in Int
    BY <1>3 DEF RowsOK, Queue
  <2> QED
    BY <1>2, <1>3, <1>4, <2>1 DEF Distinct
<1>8. PICK p : p = enforceDeliveryCapacity(a) /\ Shrunk(p, a)
  BY <1>2, CapacityKeeps, Zenon
<1>9. FitsCapacity(p.rows)
  BY <1>3, <1>5, <1>8, CapacityFits, Zenon
<1>10. new \in p.rows
  BY <1>2, <1>3, <1>5, <1>6, <1>8, CapacityKeepsNewest, Zenon
<1>11. IsFiniteSet(p.rows) /\ Distinct(p.rows)
  BY <1>5, <1>7, <1>8, FS_Subset, Zenon DEF Shrunk, Distinct
<1> QED
  BY <1>2, <1>3, <1>8, <1>9, <1>10, <1>11, Zenon DEF RowsOK, Ids

\* enforceDeliveryCapacity records no gap beyond the rows it evicts.
LEMMA CapacityLoses ==
    ASSUME NEW q, Good(q), NEW n \in Int, q.unavailable <= n,
           \A r \in q.rows : r \in enforceDeliveryCapacity(q).rows \/ r.id <= n
    PROVE  enforceDeliveryCapacity(q).unavailable <= n
<1>1. PICK kept : kept = {r \in q.rows : FitsCapacity({s \in q.rows : s.id >= r.id})}
  BY Zenon
<1>2. enforceDeliveryCapacity(q).rows = kept
  BY <1>1, CapacityRows, Zenon DEF Good
<1>3. PICK evicted : evicted = q.rows \ kept
  BY Zenon
<1>4. CASE evicted = {}
  <2>1. enforceDeliveryCapacity(q) = q
    BY <1>1, <1>3, <1>4, Zenon DEF enforceDeliveryCapacity
  <2> QED
    BY <2>1
<1>5. CASE evicted # {}
  <2>1. enforceDeliveryCapacity(q)
          = markUnavailableThrough([q EXCEPT !.rows = kept], Max(Ids(evicted)))
    BY <1>1, <1>3, <1>5, Zenon DEF enforceDeliveryCapacity
  <2>2. enforceDeliveryCapacity(q).unavailable = Larger(q.unavailable, Max(Ids(evicted)))
    BY <2>1, Zenon DEF markUnavailableThrough, Good, Queue
  <2>3. Ids(evicted) \in SUBSET (1..MaxInt64) /\ Ids(evicted) # {}
    BY <1>3, <1>5 DEF Ids, Good, Queue, Delivery
  <2>4. Max(Ids(evicted)) \in Ids(evicted)
    BY <2>3, MaxIsMaximum, QueueAssumption, Zenon
  <2>5. \A r \in evicted : r.id <= n
    BY <1>2, <1>3, Zenon
  <2>6. Max(Ids(evicted)) <= n
    BY <2>4, <2>5, Zenon DEF Ids
  <2> QED
    BY <2>2, <2>6, Zenon DEF Larger
<1> QED
  BY <1>4, <1>5, Zenon

\* The delivery an append adds is never lost to make room for itself: the
\* recorded gap stays within what was published before it.
LEMMA AppendLoses ==
    ASSUME NEW q, Good(q), IsFiniteSet(q.rows), q.next # MaxInt64,
           NEW size \in Sizes, NEW expires \in Times, NEW now
    PROVE  AppendDelivery(q, size, expires, now).unavailable <= HighWater(q)
<1> DEFINE new == [id |-> q.next, size |-> size, expires |-> expires]
<1>1. new.id = q.next
  BY Zenon
<1> HIDE DEF new
<1>2. PICK a : /\ AppendDelivery(q, size, expires, now) = enforceDeliveryCapacity(a)
               /\ Good(a) /\ a.unavailable < q.next
               /\ new \in a.rows /\ a.rows \subseteq q.rows \cup {new}
  BY AppendEnters, Zenon DEF new
<1>3. a \in Queue /\ q \in Queue /\ Complete(q)
  BY <1>2, Zenon DEF Good
<1>4. \A r \in q.rows : r.id \in Int /\ r.id < q.next /\ r.id <= HighWater(q)
  BY <1>3 DEF Queue, Delivery, Complete, Ids, HighWater
<1>5. IsFiniteSet(a.rows)
  BY <1>2, StaysFinite, Zenon
<1>6. \A r \in a.rows : r # new => r.id < new.id /\ r.id <= HighWater(q)
  BY <1>1, <1>2, <1>4, Zenon
<1>7. new \in enforceDeliveryCapacity(a).rows
  BY <1>2, <1>3, <1>5, <1>6, CapacityKeepsNewest, Zenon
<1>8. HighWater(q) \in Int /\ a.unavailable <= HighWater(q)
  BY <1>2, <1>3 DEF HighWater, Queue
<1>9. \A r \in a.rows : r \in enforceDeliveryCapacity(a).rows \/ r.id <= HighWater(q)
  BY <1>6, <1>7, Zenon
<1>10. enforceDeliveryCapacity(a).unavailable <= HighWater(q)
  BY <1>2, <1>8, <1>9, CapacityLoses, Zenon
<1> QED
  BY <1>2, <1>10, Zenon

\* ResumeDeliveries asks for a reset only when the cursor is below a recorded
\* gap, given that nothing beyond the cursor was acknowledged.
LEMMA ResumeResets ==
    ASSUME NEW q, Good(q), NEW cursor \in Nat, q.acked <= cursor, NEW now,
           ResumeBatch(q, cursor, now).reset
    PROVE  cursor < ResumeDeliveries(q, cursor, now).unavailable
<1>1. PICK e : e = ensureDeliveryState(q) /\ Good(e) /\ e.acked = q.acked
  BY EnsureKeeps, Zenon
<1>2. PICK o : o = compactExpiredDeliveries(e, now) /\ Good(o) /\ o.acked = e.acked
  BY <1>1, CompactKeeps, Zenon
<1>3. cursor < Floor(o)
  <2>1. SUFFICES ASSUME ~ (cursor < Floor(o)) PROVE FALSE
    BY Zenon
  <2>2. ResumeBatch(q, cursor, now) = RowsBatch(ResumeDeliveries(q, cursor, now), cursor)
    BY <1>1, <1>2, <2>1, Zenon DEF ResumeBatch
  <2> QED
    BY <2>2 DEF RowsBatch
<1>4. ResumeDeliveries(q, cursor, now) = o
  BY <1>1, <1>2, <1>3, Zenon DEF ResumeDeliveries
<1>5. cursor < o.unavailable
  BY <1>1, <1>2, <1>3 DEF Floor, Larger, Good, Queue
<1> QED
  BY <1>4, <1>5, Zenon

\* ReadDeliveriesAfter asks for a reset only below a recorded gap.
LEMMA ReadResets ==
    ASSUME NEW q, NEW after, NEW now, ReadBatch(q, after, now).reset
    PROVE  after < ReadDeliveries(q, now).unavailable
<1>1. CASE ~ (after < ReadDeliveries(q, now).unavailable)
  <2>1. ReadBatch(q, after, now) = RowsBatch(ReadDeliveries(q, now), after)
    BY <1>1, Zenon DEF ReadBatch
  <2> QED
    BY <2>1 DEF RowsBatch
<1> QED
  BY <1>1, Zenon

\* Every step keeps the rows in order and answers truthfully.
LEMMA AnswersStep ==
    ASSUME AnswerInv, [StoreNext]_storeVars
    PROVE  /\ RowsOK(stored'.rows)
           /\ BatchContiguous'
           /\ BatchUnexpired'
           /\ AcceptedIsStored'
<1> USE DEF BatchContiguous, BatchUnexpired, AcceptedIsStored
<1>1. Good(stored) /\ RowsOK(stored.rows) /\ IsFiniteSet(stored.rows) /\ Distinct(stored.rows)
  BY Zenon DEF AnswerInv, IndInv, StoreTypeOK, HistoryComplete, Good, RowsOK
<1>2. Cursors \subseteq Nat
  BY QueueAssumption DEF Cursors
<1>3. ASSUME NEW size \in Sizes, NEW expires \in Times, NEW now \in Times,
             AppendCall(size, expires, now)
      PROVE  RowsOK(stored'.rows) /\ BatchContiguous' /\ BatchUnexpired' /\ AcceptedIsStored'
  <2>1. /\ stored' = AppendDelivery(stored, size, expires, now) /\ stored.next # MaxInt64
        /\ reply' = Plain("appended", stored.next)
    BY <1>3, Zenon DEF AppendCall, CanAppend
  <2>2. RowsOK(stored'.rows) /\ stored.next \in Ids(stored'.rows)
    BY <1>1, <2>1, AppendStores, Zenon
  <2>3. reply'.kind = "appended" /\ reply'.cursor = stored.next /\ reply'.deliveries = {}
    BY <2>1, Zenon DEF Plain
  <2> QED
    BY <2>2, <2>3, Zenon
<1>4. ASSUME NEW cursor \in Cursors, NEW now \in Times, ResumeCall(cursor, now)
      PROVE  RowsOK(stored'.rows) /\ BatchContiguous' /\ BatchUnexpired' /\ AcceptedIsStored'
  <2>1. PICK p, batch :
           /\ p = ResumeDeliveries(stored, cursor, now)
           /\ batch = ResumeBatch(stored, cursor, now)
    BY Zenon
  <2>2. /\ stored' = p /\ CanResume(stored, cursor) /\ cursor \in Nat
        /\ reply' = Answer("resumed", cursor, now, batch)
    BY <1>2, <1>4, <2>1, Zenon DEF ResumeCall
  <2>3. /\ \A r \in batch.deliveries : r.expires > now
        /\ ~ batch.reset => Ids(batch.deliveries)
                              = cursor + 1 .. Min({cursor + BatchLimit, batch.high})
    BY <1>1, <2>1, <2>2, ResumeAnswers, Zenon DEF Answers
  <2>4. Shrunk(p, stored)
    BY <1>1, <2>1, <2>2, ResumeKeeps, Zenon
  <2>5. RowsOK(stored'.rows)
    BY <1>1, <2>2, <2>4, FewerRowsOK, Zenon DEF Shrunk
  <2>6. /\ reply'.kind = "resumed" /\ reply'.cursor = cursor /\ reply'.now = now
        /\ reply'.reset = batch.reset /\ reply'.high = batch.high
        /\ reply'.deliveries = batch.deliveries
    BY <2>2, Zenon DEF Answer
  <2> QED
    BY <2>3, <2>5, <2>6, Zenon
<1>5. ASSUME NEW after \in Cursors, NEW now \in Times, ReadCall(after, now)
      PROVE  RowsOK(stored'.rows) /\ BatchContiguous' /\ BatchUnexpired' /\ AcceptedIsStored'
  <2>1. PICK p, batch :
           p = ReadDeliveries(stored, now) /\ batch = ReadBatch(stored, after, now)
    BY Zenon
  <2>2. stored' = p /\ after \in Nat /\ reply' = Answer("read", after, now, batch)
    BY <1>2, <1>5, <2>1, Zenon DEF ReadCall
  <2>3. /\ \A r \in batch.deliveries : r.expires > now
        /\ (~ batch.reset /\ after >= p.acked)
              => Ids(batch.deliveries) = after + 1 .. Min({after + BatchLimit, batch.high})
    BY <1>1, <2>1, <2>2, ReadAnswers, Zenon DEF Answers
  <2>4. Shrunk(p, stored)
    BY <1>1, <2>1, CompactKeeps, Zenon DEF ReadDeliveries
  <2>5. RowsOK(stored'.rows)
    BY <1>1, <2>2, <2>4, FewerRowsOK, Zenon DEF Shrunk
  <2>6. /\ reply'.kind = "read" /\ reply'.cursor = after /\ reply'.now = now
        /\ reply'.reset = batch.reset /\ reply'.high = batch.high
        /\ reply'.deliveries = batch.deliveries
    BY <2>2, Zenon DEF Answer
  <2> QED
    BY <2>2, <2>3, <2>5, <2>6, Zenon
<1>6. ASSUME NEW cursor \in Cursors, AcknowledgeCall(cursor)
      PROVE  RowsOK(stored'.rows) /\ BatchContiguous' /\ BatchUnexpired' /\ AcceptedIsStored'
  <2>1. /\ stored' = AcknowledgeDelivery(stored, cursor) /\ CanAcknowledge(stored, cursor)
        /\ reply'.kind = "acknowledged" /\ reply'.deliveries = {}
    BY <1>6, Zenon DEF AcknowledgeCall, Plain
  <2>2. Shrunk(stored', stored)
    BY <1>1, <1>2, <2>1, AcknowledgeDeliveryKeeps, Zenon
  <2> QED
    BY <1>1, <2>1, <2>2, FewerRowsOK, Zenon DEF Shrunk
<1>7. CASE RefuseCall
  <2>1. stored' = stored /\ reply'.kind = "refused" /\ reply'.deliveries = {}
    BY <1>7, Zenon DEF RefuseCall, Plain
  <2> QED
    BY <1>1, <2>1, Zenon
<1>8. CASE UNCHANGED storeVars
  BY <1>1, <1>8, Zenon DEF storeVars, AnswerInv
<1> QED
  BY <1>3, <1>4, <1>5, <1>6, <1>7, <1>8, Zenon DEF StoreNext

\* The empty store answers nothing and holds nothing.
LEMMA InitAnswers == StoreInit => AnswerInv
<1>1. SUFFICES ASSUME StoreInit PROVE AnswerInv
  BY Zenon
<1>2. stored.rows = {} /\ reply.kind = "none" /\ reply.deliveries = {}
  BY <1>1, Zenon DEF StoreInit, EmptyQueue, NoReply
<1>3. Sized({}) /\ IsFiniteSet({}) /\ Cardinality({}) = 0
  BY FS_EmptySet, Zenon DEF Sized
<1>4. Bytes({}) = 0
  BY <1>3, BytesUnfold, Zenon
<1>5. RowsOK(stored.rows)
  BY <1>2, <1>3, <1>4, QueueAssumption DEF RowsOK, Distinct, FitsCapacity
<1>6. IndInv
  BY <1>1, InitIndInv, Zenon
<1> QED
  BY <1>2, <1>5, <1>6, Zenon DEF AnswerInv, BatchContiguous, BatchUnexpired, AcceptedIsStored

\* The invariant behind the answers, in every state of the store.
LEMMA AnswersInvariant == StoreSpec => []AnswerInv
<1>1. ASSUME AnswerInv, [StoreNext]_storeVars PROVE AnswerInv'
  <2>1. IndInv'
    BY <1>1, NextIndInv, Zenon DEF AnswerInv
  <2>2. RowsOK(stored'.rows) /\ BatchContiguous' /\ BatchUnexpired' /\ AcceptedIsStored'
    BY <1>1, AnswersStep, Zenon
  <2> QED
    BY <2>1, <2>2, Zenon DEF AnswerInv
<1> QED
  BY <1>1, InitAnswers, PTL DEF StoreSpec

\* For every capacity, batch size, clock and interleaving of callers, a batch
\* that does not ask for a reset is an unbroken run of ids from the cursor the
\* caller gave, as long as the LIMIT allows and otherwise up to the high-water
\* mark it reports (ResumeDeliveries, ReadDeliveriesAfter).
THEOREM BatchesAreContiguous == StoreSpec => []BatchContiguous
<1>1. AnswerInv => BatchContiguous
  BY Zenon DEF AnswerInv
<1> QED
  BY <1>1, AnswersInvariant, PTL

\* For every clock, no batch holds a delivery that has expired at the clock
\* reading of its own transaction (compactExpiredDeliveries before the SELECT).
THEOREM BatchesAreFresh == StoreSpec => []BatchUnexpired
<1>1. AnswerInv => BatchUnexpired
  BY Zenon DEF AnswerInv
<1> QED
  BY <1>1, AnswersInvariant, PTL

\* For all limits and sizes, the queue never holds more deliveries or more
\* envelope bytes than enforceDeliveryCapacity allows.
THEOREM CapacityIsRespected == StoreSpec => []WithinCapacity
<1>1. AnswerInv => WithinCapacity
  BY Zenon DEF AnswerInv, RowsOK, WithinCapacity
<1> QED
  BY <1>1, AnswersInvariant, PTL

\* For all limits and sizes, making room never costs the delivery that
\* AppendDelivery has just accepted.
THEOREM AcceptedIsAlwaysStored == StoreSpec => []AcceptedIsStored
<1>1. AnswerInv => AcceptedIsStored
  BY Zenon DEF AnswerInv
<1> QED
  BY <1>1, AnswersInvariant, PTL

-----------------------------------------------------------------------------
\* What is on its way between a session and its client, and how it changes
\* when one end adds a frame or the other takes one.

\* The frame at a position of the wire is a delivery.
Delivers(out, i) == out[i].kind = "delivery"

Message == [kind : {"resume", "ack"}, id : Nat]
Wire == [kind : {"delivery", "caughtUp", "reset"}, id : Int]

\* A client that has committed through c will have committed n by the time it
\* has read the wire.
Reached(out, c, n) ==
    n <= c \/ \E i \in 1..Len(out) : Delivers(out, i) /\ out[i].id = n

\* The wire, for a client that has committed through c of a history through
\* high: every delivery is the next one, or a replay, when its turn comes;
\* every marker is true when its turn comes; nothing follows a reset, which
\* is above everything before it.
WireOK(out, c, high) ==
    /\ out \in Seq(Wire)
    /\ \A i \in 1..Len(out) : Delivers(out, i) =>
           /\ out[i].id <= high
           /\ \/ out[i].id <= c + 1
              \/ \E j \in 1..(i - 1) : Delivers(out, j) /\ out[j].id + 1 = out[i].id
    /\ \A i \in 1..Len(out) : out[i].kind = "caughtUp" =>
           \/ out[i].id <= c
           \/ \E j \in 1..(i - 1) : Delivers(out, j) /\ out[i].id <= out[j].id
    /\ \A i \in 1..Len(out) : out[i].kind = "reset" =>
           /\ i = Len(out) /\ c <= out[i].id /\ out[i].id <= high
           /\ \A j \in 1..(i - 1) : Delivers(out, j) => out[j].id <= out[i].id

\* A request to resume is on its way to the reader loop.
Asks(in) == \E i \in 1..Len(in) : in[i].kind = "resume"

\* What the client has sent: nothing ahead of its cursor, and one request to
\* resume at most, from that very cursor.
RequestsOK(in, requests, c) ==
    /\ in \in Seq(Message)
    /\ requests \in Seq(Nat) /\ Len(requests) <= 1
    /\ \A i \in 1..Len(in) : in[i].id <= c /\ (in[i].kind = "resume" => in[i].id = c)
    /\ \A i, j \in 1..Len(in) : in[i].kind = "resume" /\ in[j].kind = "resume" => i = j
    /\ requests # <<>> => ~Asks(in) /\ requests[1] = c

-----------------------------------------------------------------------------
\* The wire.

\* The frames of a wire have their type.
LEMMA WireTyped ==
    ASSUME NEW out, NEW c, NEW high, WireOK(out, c, high)
    PROVE  out \in Seq(Wire) /\ \A i \in 1..Len(out) : out[i] \in Wire /\ out[i].id \in Int
<1>1. out \in Seq(Wire)
  BY Zenon DEF WireOK
<1>2. \A i \in 1..Len(out) : out[i] \in Wire
  BY <1>1
<1>3. \A f \in Wire : f.id \in Int
  BY Zenon DEF Wire
<1> QED
  BY <1>1, <1>2, <1>3, Zenon

\* An empty wire owes nothing.
LEMMA EmptyWire ==
    ASSUME NEW c, NEW high
    PROVE  WireOK(<<>>, c, high)
<1>1. <<>> \in Seq(Wire) /\ Len(<<>>) = 0
  OBVIOUS
<1> QED
  BY <1>1 DEF WireOK

\* More history does not disturb what is on the wire.
LEMMA WireGrows ==
    ASSUME NEW out, NEW c \in Nat, NEW high \in Int, NEW more \in Int, high <= more,
           WireOK(out, c, high)
    PROVE  WireOK(out, c, more)
<1>1. out \in Seq(Wire) /\ \A i \in 1..Len(out) : out[i].id \in Int
  BY WireTyped, Zenon
<1> QED
  BY <1>1, SMTT(40) DEF WireOK

\* A frame is written: the wire is longer by it.
LEMMA WireLonger ==
    ASSUME NEW out \in Seq(Wire), NEW f \in Wire
    PROVE  LET new == Append(out, f)
           IN  /\ Len(new) = Len(out) + 1 /\ new[Len(out) + 1] = f
               /\ \A i \in 1..Len(out) : new[i] = out[i]
               /\ Len(out) \in Nat
  OBVIOUS

\* The writer loop may send the delivery after one the client will have
\* committed, a marker for what the client will have committed, or a reset
\* above everything it sent.
LEMMA WireAppend ==
    ASSUME NEW out, NEW c \in Nat, NEW high \in Int, WireOK(out, c, high),
           \A i \in 1..Len(out) : out[i].kind # "reset",
           NEW f \in Wire,
           f.kind = "delivery" => f.id <= high /\ Reached(out, c, f.id - 1),
           f.kind = "caughtUp" =>
               \/ f.id <= c
               \/ \E j \in 1..Len(out) : Delivers(out, j) /\ f.id <= out[j].id,
           f.kind = "reset" =>
               /\ c <= f.id /\ f.id <= high
               /\ \A j \in 1..Len(out) : Delivers(out, j) => out[j].id <= f.id
    PROVE  WireOK(Append(out, f), c, high)
<1>1. out \in Seq(Wire) /\ \A i \in 1..Len(out) : out[i].id \in Int
  BY WireTyped, Zenon
<1>2. PICK new : new = Append(out, f)
  BY Zenon
<1>3. /\ new \in Seq(Wire) /\ Len(new) = Len(out) + 1 /\ Len(out) \in Nat
      /\ new[Len(out) + 1] = f
      /\ \A i \in 1..Len(out) : new[i] = out[i]
  BY <1>1, <1>2
<1>4. ASSUME NEW i \in 1..Len(new), Delivers(new, i)
      PROVE  /\ new[i].id <= high
             /\ \/ new[i].id <= c + 1
                \/ \E j \in 1..(i - 1) : Delivers(new, j) /\ new[j].id + 1 = new[i].id
  <2>1. CASE i \in 1..Len(out)
    <3>1. Delivers(out, i) /\ new[i] = out[i]
      BY <1>3, <1>4, <2>1, Zenon DEF Delivers
    <3>2. /\ out[i].id <= high
          /\ \/ out[i].id <= c + 1
             \/ \E j \in 1..(i - 1) : Delivers(out, j) /\ out[j].id + 1 = out[i].id
      BY <2>1, <3>1, Zenon DEF WireOK
    <3> QED
      BY <1>3, <2>1, <3>1, <3>2, SMTT(30) DEF Delivers
  <2>2. CASE i = Len(out) + 1
    <3>1. f.kind = "delivery" /\ f.id \in Int
      BY <1>3, <1>4, <2>2, Zenon DEF Delivers, Wire
    <3>2. f.id - 1 <= c \/ \E j \in 1..Len(out) : Delivers(out, j) /\ out[j].id = f.id - 1
      BY <3>1, Zenon DEF Reached
    <3> QED
      BY <1>1, <1>3, <2>2, <3>1, <3>2, SMTT(40) DEF Delivers
  <2> QED
    BY <1>3, <2>1, <2>2, SMTT(40)
<1>5. ASSUME NEW i \in 1..Len(new), new[i].kind = "caughtUp"
      PROVE  \/ new[i].id <= c
             \/ \E j \in 1..(i - 1) : Delivers(new, j) /\ new[i].id <= new[j].id
  <2>1. CASE i \in 1..Len(out)
    <3>1. \/ out[i].id <= c
          \/ \E j \in 1..(i - 1) : Delivers(out, j) /\ out[i].id <= out[j].id
      BY <1>3, <1>5, <2>1, Zenon DEF WireOK
    <3> QED
      BY <1>3, <2>1, <3>1, SMTT(40) DEF Delivers
  <2>2. CASE i = Len(out) + 1
    BY <1>3, <1>5, <2>2 DEF Delivers
  <2> QED
    BY <1>3, <2>1, <2>2, SMTT(30)
<1>6. ASSUME NEW i \in 1..Len(new), new[i].kind = "reset"
      PROVE  /\ i = Len(new) /\ c <= new[i].id /\ new[i].id <= high
             /\ \A j \in 1..(i - 1) : Delivers(new, j) => new[j].id <= new[i].id
  <2>1. i = Len(out) + 1
    BY <1>3, <1>6
  <2> QED
    BY <1>3, <1>6, <2>1 DEF Delivers
<1> QED
  BY <1>2, <1>3, <1>4, <1>5, <1>6, Zenon DEF WireOK

\* The client takes the first frame; if it is a delivery, it commits it.
LEMMA WireTail ==
    ASSUME NEW out, out # <<>>, NEW c \in Nat, NEW high \in Int, WireOK(out, c, high),
           NEW d \in Nat, c <= d,
           out[1].kind = "delivery" => out[1].id <= d,
           d = c \/ (out[1].kind = "delivery" /\ d = out[1].id)
    PROVE  WireOK(Tail(out), d, high)
<1>1. out \in Seq(Wire) /\ \A i \in 1..Len(out) : out[i].id \in Int
  BY WireTyped, Zenon
<1>2. PICK new : new = Tail(out)
  BY Zenon
<1>3. /\ new \in Seq(Wire) /\ Len(out) \in Nat \ {0} /\ Len(new) = Len(out) - 1
      /\ \A i \in 1..Len(new) : i + 1 \in 1..Len(out) /\ new[i] = out[i + 1]
  BY <1>1, <1>2, SMTT(40)
<1>4. ASSUME NEW i \in 1..Len(new), Delivers(new, i)
      PROVE  /\ new[i].id <= high
             /\ \/ new[i].id <= d + 1
                \/ \E j \in 1..(i - 1) : Delivers(new, j) /\ new[j].id + 1 = new[i].id
  <2>1. i + 1 \in 1..Len(out) /\ new[i] = out[i + 1] /\ Delivers(out, i + 1)
    BY <1>3, <1>4, Zenon DEF Delivers
  <2>2. /\ out[i + 1].id <= high
        /\ \/ out[i + 1].id <= c + 1
           \/ \E j \in 1..((i + 1) - 1) : Delivers(out, j) /\ out[j].id + 1 = out[i + 1].id
    BY <2>1, Zenon DEF WireOK
  <2>3. CASE out[i + 1].id <= c + 1
    BY <1>1, <2>1, <2>2, <2>3
  <2>4. ASSUME NEW j \in 1..((i + 1) - 1), Delivers(out, j), out[j].id + 1 = out[i + 1].id
        PROVE  \/ new[i].id <= d + 1
               \/ \E k \in 1..(i - 1) : Delivers(new, k) /\ new[k].id + 1 = new[i].id
    <3>1. CASE j = 1
      BY <1>1, <1>3, <2>1, <2>4, <3>1, SMTT(30) DEF Delivers
    <3>2. CASE j # 1
      <4>1. j - 1 \in 1..(i - 1) /\ j - 1 \in 1..Len(new) /\ (j - 1) + 1 = j
        BY <1>3, <3>2
      <4>2. new[j - 1] = out[j]
        BY <1>3, <4>1, Zenon
      <4> QED
        BY <2>1, <2>4, <4>1, <4>2, Zenon DEF Delivers
    <3> QED
      BY <3>1, <3>2, Zenon
  <2> QED
    BY <2>1, <2>2, <2>3, <2>4, Zenon
<1>5. ASSUME NEW i \in 1..Len(new), new[i].kind = "caughtUp"
      PROVE  \/ new[i].id <= d
             \/ \E j \in 1..(i - 1) : Delivers(new, j) /\ new[i].id <= new[j].id
  <2>1. i + 1 \in 1..Len(out) /\ new[i] = out[i + 1]
    BY <1>3, Zenon
  <2>2. \/ out[i + 1].id <= c
        \/ \E j \in 1..((i + 1) - 1) : Delivers(out, j) /\ out[i + 1].id <= out[j].id
    BY <1>5, <2>1, Zenon DEF WireOK
  <2>3. CASE out[i + 1].id <= c
    BY <1>1, <2>1, <2>3, SMTT(40)
  <2>4. ASSUME NEW j \in 1..((i + 1) - 1), Delivers(out, j), out[i + 1].id <= out[j].id
        PROVE  \/ new[i].id <= d
               \/ \E k \in 1..(i - 1) : Delivers(new, k) /\ new[i].id <= new[k].id
    <3>1. CASE j = 1
      BY <1>1, <1>3, <2>1, <2>4, <3>1, SMTT(40) DEF Delivers
    <3>2. CASE j # 1
      <4>1. j - 1 \in 1..(i - 1) /\ j - 1 \in 1..Len(new) /\ (j - 1) + 1 = j
        BY <1>3, <3>2
      <4>2. new[j - 1] = out[j]
        BY <1>3, <4>1, Zenon
      <4> QED
        BY <2>1, <2>4, <4>1, <4>2, ZenonT(30) DEF Delivers
    <3> QED
      BY <3>1, <3>2, Zenon
  <2> QED
    BY <2>2, <2>3, <2>4, Zenon
<1>6. ASSUME NEW i \in 1..Len(new), new[i].kind = "reset"
      PROVE  /\ i = Len(new) /\ d <= new[i].id /\ new[i].id <= high
             /\ \A j \in 1..(i - 1) : Delivers(new, j) => new[j].id <= new[i].id
  <2>1. i + 1 \in 1..Len(out) /\ new[i] = out[i + 1]
    BY <1>3, Zenon
  <2>2. /\ i + 1 = Len(out) /\ c <= out[i + 1].id /\ out[i + 1].id <= high
        /\ \A j \in 1..((i + 1) - 1) : Delivers(out, j) => out[j].id <= out[i + 1].id
    BY <1>6, <2>1, Zenon DEF WireOK
  <2>3. d <= out[i + 1].id
    BY <1>3, <2>2 DEF Delivers
  <2>4. ASSUME NEW j \in 1..(i - 1), Delivers(new, j)
        PROVE  new[j].id <= new[i].id
    <3>1. j + 1 \in 1..((i + 1) - 1) /\ new[j] = out[j + 1]
      BY <1>3, <2>4, SMTT(30)
    <3> QED
      BY <2>1, <2>2, <2>4, <3>1, Zenon DEF Delivers
  <2> QED
    BY <1>3, <2>1, <2>2, <2>3, <2>4, SMTT(40)
<1> QED
  BY <1>2, <1>3, <1>4, <1>5, <1>6, Zenon DEF WireOK

-----------------------------------------------------------------------------
\* The client's messages.

\* A session may start with no message.
LEMMA NoRequests ==
    ASSUME NEW c \in Nat
    PROVE  RequestsOK(<<>>, <<>>, c) /\ ~Asks(<<>>)
<1>1. <<>> \in Seq(Message) /\ <<>> \in Seq(Nat) /\ Len(<<>>) = 0
  OBVIOUS
<1> QED
  BY <1>1 DEF RequestsOK, Asks

\* Or it starts with one request to resume.
LEMMA FirstRequest ==
    ASSUME NEW c \in Nat, NEW f \in Message, f.id = c
    PROVE  RequestsOK(<<f>>, <<>>, c)
<1>1. <<>> \in Seq(Nat) /\ Len(<<>>) = 0
  OBVIOUS
<1>2. PICK in : in = <<f>>
  BY Zenon
<1>3. in \in Seq(Message) /\ Len(in) = 1 /\ in[1] = f
  BY <1>2
<1>4. RequestsOK(in, <<>>, c)
  BY <1>1, <1>3 DEF RequestsOK
<1> QED
  BY <1>2, <1>4, Zenon

\* The reader loop takes a message: what is left is as it was, and a request
\* to resume was the only one.
LEMMA RequestsTail ==
    ASSUME NEW in, in # <<>>, NEW requests, NEW c \in Nat, RequestsOK(in, requests, c)
    PROVE  /\ RequestsOK(Tail(in), requests, c)
           /\ Asks(Tail(in)) => Asks(in)
           /\ Head(in) = in[1] /\ in[1].id \in Nat /\ in[1].id <= c
           /\ in[1].kind = "resume" =>
                  Asks(in) /\ in[1].id = c /\ RequestsOK(Tail(in), <<c>>, c)
<1>1. in \in Seq(Message)
  BY Zenon DEF RequestsOK
<1>2. PICK new : new = Tail(in)
  BY Zenon
<1>3. /\ new \in Seq(Message) /\ Len(in) \in Nat \ {0} /\ Len(new) = Len(in) - 1
      /\ \A i \in 1..Len(new) : i + 1 \in 1..Len(in) /\ new[i] = in[i + 1]
      /\ Head(in) = in[1] /\ 1 \in 1..Len(in)
  BY <1>1, <1>2
<1>4. in[1].id \in Nat /\ in[1].id <= c
  <2>1. in[1] \in Message
    BY <1>1, <1>3
  <2> QED
    BY <1>3, <2>1, Zenon DEF RequestsOK, Message
<1>5. Asks(new) => Asks(in)
  BY <1>3, Zenon DEF Asks
<1>6. /\ \A i \in 1..Len(new) : new[i].id <= c /\ (new[i].kind = "resume" => new[i].id = c)
      /\ \A i, j \in 1..Len(new) : new[i].kind = "resume" /\ new[j].kind = "resume" => i = j
  <2>1. ASSUME NEW i \in 1..Len(new)
        PROVE  new[i].id <= c /\ (new[i].kind = "resume" => new[i].id = c)
    <3>1. \A k \in 1..Len(in) : in[k].id <= c /\ (in[k].kind = "resume" => in[k].id = c)
      BY Zenon DEF RequestsOK
    <3>2. i + 1 \in 1..Len(in) /\ new[i] = in[i + 1]
      BY <1>3, Zenon
    <3> QED
      BY <3>1, <3>2, Zenon
  <2>2. ASSUME NEW i \in 1..Len(new), NEW j \in 1..Len(new),
               new[i].kind = "resume", new[j].kind = "resume"
        PROVE  i = j
    <3>1. i + 1 = j + 1
      BY <1>3, <2>2, ZenonT(30) DEF RequestsOK
    <3> QED
      BY <3>1
  <2> QED
    BY <2>1, <2>2, Zenon
<1>7. RequestsOK(new, requests, c)
  BY <1>3, <1>5, <1>6, Zenon DEF RequestsOK
<1>8. ASSUME in[1].kind = "resume"
      PROVE  Asks(in) /\ in[1].id = c /\ RequestsOK(new, <<c>>, c)
  <2>1. Asks(in) /\ in[1].id = c
    BY <1>3, <1>8, Zenon DEF Asks, RequestsOK
  <2>2. ~Asks(new)
    <3>1. SUFFICES ASSUME NEW i \in 1..Len(new), new[i].kind = "resume" PROVE FALSE
      BY Zenon DEF Asks
    <3>2. i + 1 = 1
      BY <1>3, <1>8, <3>1, Zenon DEF RequestsOK
    <3> QED
      BY <3>2
  <2>3. PICK one : one = <<c>>
    BY Zenon
  <2>4. one \in Seq(Nat) /\ Len(one) <= 1 /\ one[1] = c
    BY <2>3
  <2>5. RequestsOK(new, one, c)
    BY <1>3, <1>6, <2>2, <2>4 DEF RequestsOK
  <2> QED
    BY <2>1, <2>3, <2>5
<1> QED
  BY <1>2, <1>3, <1>4, <1>5, <1>7, <1>8

\* The client sends one more message: an acknowledgement of its cursor, or a
\* request to resume when it has none open.
LEMMA RequestsAppend ==
    ASSUME NEW in, NEW requests, NEW c \in Nat, RequestsOK(in, requests, c),
           NEW f \in Message, f.id = c,
           f.kind = "resume" => ~Asks(in) /\ requests = <<>>
    PROVE  /\ RequestsOK(Append(in, f), requests, c)
           /\ f.kind = "ack" => (Asks(Append(in, f)) <=> Asks(in))
<1>1. in \in Seq(Message) /\ Len(in) \in Nat
  BY DEF RequestsOK
<1>2. PICK kind \in {"resume", "ack"} : f.kind = kind
  BY DEF Message
<1>3. f \in Message /\ f.id = c /\ f.kind = kind
  BY <1>2
<1>4. PICK new : new = Append(in, f)
  BY Zenon
<1>5. /\ new \in Seq(Message) /\ Len(new) = Len(in) + 1
      /\ new[Len(in) + 1] = f
      /\ \A i \in 1..Len(in) : new[i] = in[i]
  BY <1>1, <1>3, <1>4
<1>6. kind = "ack" => (Asks(new) <=> Asks(in))
  BY <1>1, <1>3, <1>5 DEF Asks
<1>7. \A i \in 1..Len(new) : new[i].id <= c /\ (new[i].kind = "resume" => new[i].id = c)
  <2>1. \A i \in 1..Len(in) : in[i].id <= c /\ (in[i].kind = "resume" => in[i].id = c)
    BY DEF RequestsOK
  <2> QED
    BY <1>1, <1>3, <1>5, <2>1
<1>8. ASSUME NEW i \in 1..Len(new), NEW j \in 1..Len(new),
             new[i].kind = "resume", new[j].kind = "resume"
      PROVE  i = j
  <2>1. CASE kind = "ack"
    <3>1. i \in 1..Len(in) /\ j \in 1..Len(in)
      BY <1>1, <1>3, <1>5, <1>8, <2>1
    <3> QED
      BY <1>5, <1>8, <3>1, Zenon DEF RequestsOK
  <2>2. CASE kind = "resume"
    <3>1. ASSUME NEW k \in 1..Len(new), new[k].kind = "resume" PROVE k = Len(in) + 1
      <4>1. k \notin 1..Len(in)
        BY <1>2, <1>5, <2>2, <3>1 DEF Asks
      <4> QED
        BY <1>1, <1>5, <4>1
    <3> QED
      BY <1>8, <3>1
  <2> QED
    BY <2>1, <2>2
<1>9. requests # <<>> => ~Asks(new) /\ requests[1] = c
  BY <1>2, <1>6 DEF RequestsOK
<1>10. requests \in Seq(Nat)
  BY DEF RequestsOK
<1>11. RequestsOK(new, requests, c)
  BY <1>5, <1>7, <1>8, <1>9, <1>10, SMTT(30) DEF RequestsOK
<1> QED
  BY <1>2, <1>4, <1>6, <1>11

\* The client may advance while it has no request open.
LEMMA RequestsAdvance ==
    ASSUME NEW in, NEW c \in Nat, NEW d \in Nat, c <= d, RequestsOK(in, <<>>, c), ~Asks(in)
    PROVE  RequestsOK(in, <<>>, d)
<1>1. in \in Seq(Message)
  BY DEF RequestsOK
<1>2. \A i \in 1..Len(in) : in[i].id \in Nat
  <2>1. \A i \in 1..Len(in) : in[i] \in Message
    BY <1>1
  <2> QED
    BY <2>1 DEF Message
<1>3. \A i \in 1..Len(in) : in[i].id <= d /\ in[i].kind # "resume"
  BY <1>2 DEF RequestsOK, Asks
<1> QED
  BY <1>3 DEF RequestsOK

=============================================================================
