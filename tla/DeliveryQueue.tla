---------------------------- MODULE DeliveryQueue ----------------------------
(***************************************************************************)
(* The durable history of one recipient, and the effect every transaction  *)
(* of internal/admission/relay_delivery_store.go has on it.                *)
(*                                                                         *)
(* A queue is the recipient's relay_delivery_state row together with its   *)
(* relay_deliveries rows.  Every SQL statement of the file is filtered by  *)
(* (workspace, recipient), so queues of two recipients never meet and one  *)
(* queue is the whole state of interest.  An operator below is what one    *)
(* committed transaction does to a queue; a transaction that fails is      *)
(* rolled back as a whole and leaves the queue as it was.                  *)
(*                                                                         *)
(* Times are the `now` arguments of the callers, who read the clock before *)
(* they wait for locks and for the single database connection: two         *)
(* transactions may run in the opposite order of their times, so nothing   *)
(* here assumes that times advance.                                        *)
(***************************************************************************)
EXTENDS Integers, FiniteSets, FiniteSetsExt

CONSTANTS MaxQueued,        \* maxQueuedDeliveriesPerRecipient
          MaxQueuedBytes,   \* maxQueuedDeliveryBytesPerRecipient
          MaxInt64,         \* math.MaxInt64, the end of the sequence
          BatchLimit,       \* deliveryBatchSize, the LIMIT of a read
          Sizes,            \* lengths of the envelopes senders submit
          Times             \* clock readings and expiry instants

ASSUME QueueAssumption ==
    /\ MaxQueued \in Nat \ {0}
    /\ MaxQueuedBytes \in Nat
    /\ MaxInt64 \in Nat \ {0}
    /\ BatchLimit \in Nat \ {0}
    /\ Sizes \subseteq 1..MaxQueuedBytes
    /\ Times \subseteq Nat

Delivery == [id : 1..MaxInt64, size : Sizes, expires : Times]

Queue == [created     : BOOLEAN,
          next        : 1..MaxInt64,
          acked       : 0..MaxInt64,
          unavailable : 0..MaxInt64,
          rows        : SUBSET Delivery]

EmptyQueue == [created |-> FALSE, next |-> 1, acked |-> 0, unavailable |-> 0,
               rows |-> {}]

Ids(rows) == {r.id : r \in rows}

Larger(a, b) == IF a >= b THEN a ELSE b

HighWater(q) == q.next - 1

\* A cursor below the floor has lost deliveries it can no longer be sent.
Floor(q) == Larger(q.acked, q.unavailable)

\* What a queue owes its recipient: every id above the floor is still stored,
\* and no id at or below the acknowledged cursor is.
Complete(q) ==
    /\ Floor(q) < q.next
    /\ Floor(q) + 1 .. HighWater(q) \subseteq Ids(q.rows)
    /\ Ids(q.rows) \subseteq q.acked + 1 .. HighWater(q)

Bytes(rows) == MapThenSumSet(LAMBDA r : r.size, rows)

FitsCapacity(rows) ==
    /\ Cardinality(rows) <= MaxQueued
    /\ Bytes(rows) <= MaxQueuedBytes

-----------------------------------------------------------------------------
\* The helpers the transactions share.

ensureDeliveryState(q) == [q EXCEPT !.created = TRUE]

markUnavailableThrough(q, cursor) ==
    [q EXCEPT !.unavailable = Larger(@, cursor)]

\* Mutant of compactExpiredDeliveries: expired rows go without a record of the gap.
MutCompactSilently(q, now) ==
    [q EXCEPT !.rows = {r \in @ : r.expires > now}]

\* Every expired row goes, and the gap is recorded through the newest of
\* them.  Rows that have not expired stay even below that point.
compactExpiredDeliveries(q, now) ==
    LET expired == {r \in q.rows : r.expires <= now}
    IN  IF expired = {} THEN q
        ELSE markUnavailableThrough([q EXCEPT !.rows = @ \ expired],
                                    Max(Ids(expired)))

\* Mutant of enforceDeliveryCapacity: rows are evicted without a record of the gap.
MutEvictSilently(q) ==
    [q EXCEPT !.rows = {r \in @ : FitsCapacity({s \in q.rows : s.id >= r.id})}]

\* Mutant of enforceDeliveryCapacity: only the first of several evictions is recorded.
MutMarkFirstEvicted(q) ==
    LET kept == {r \in q.rows : FitsCapacity({s \in q.rows : s.id >= r.id})}
        evicted == q.rows \ kept
    IN  IF evicted = {} THEN q
        ELSE markUnavailableThrough([q EXCEPT !.rows = kept], Min(Ids(evicted)))

\* The loop deletes the oldest row until the rest fits, and records each
\* deletion: what is left is the longest run of newest rows that fits.
enforceDeliveryCapacity(q) ==
    LET kept == {r \in q.rows : FitsCapacity({s \in q.rows : s.id >= r.id})}
        evicted == q.rows \ kept
    IN  IF evicted = {} THEN q
        ELSE markUnavailableThrough([q EXCEPT !.rows = kept],
                                    Max(Ids(evicted)))

acknowledgeThrough(q, cursor) ==
    [q EXCEPT !.rows = {r \in @ : r.id > cursor},
              !.acked = Larger(@, cursor)]

\* Mutant of RowsAfter: the cursor itself is read again.
MutRowsFrom(q, after) ==
    LET above == {r \in q.rows : r.id >= after}
    IN  {r \in above : Cardinality({s \in above : s.id < r.id}) < BatchLimit}

\* SELECT ... WHERE delivery_id > after ORDER BY delivery_id LIMIT BatchLimit
RowsAfter(q, after) ==
    LET above == {r \in q.rows : r.id > after}
    IN  {r \in above : Cardinality({s \in above : s.id < r.id}) < BatchLimit}

-----------------------------------------------------------------------------
\* The transactions.  A batch is a DeliveryBatch; its deliveries are sent in
\* the order of their ids.

ResetBatch(q) == [reset |-> TRUE, high |-> HighWater(q), deliveries |-> {}]

RowsBatch(q, after) ==
    [reset |-> FALSE, high |-> HighWater(q), deliveries |-> RowsAfter(q, after)]

CanAppend(q, expires, now) == expires > now /\ q.next # MaxInt64

AppendDelivery(q, size, expires, now) ==
    LET compacted == compactExpiredDeliveries(ensureDeliveryState(q), now)
        row == [id |-> compacted.next, size |-> size, expires |-> expires]
    IN  enforceDeliveryCapacity(
            [compacted EXCEPT !.rows = @ \cup {row}, !.next = @ + 1])

\* A cursor above the high-water mark is ErrDeliveryCursorAhead.
CanResume(q, cursor) == cursor <= HighWater(q)

ResumeDeliveries(q, cursor, now) ==
    LET opened == compactExpiredDeliveries(ensureDeliveryState(q), now)
    IN  IF cursor < Floor(opened) \/ cursor <= opened.acked
        THEN opened
        ELSE acknowledgeThrough(opened, cursor)

ResumeBatch(q, cursor, now) ==
    LET opened == compactExpiredDeliveries(ensureDeliveryState(q), now)
    IN  IF cursor < Floor(opened)
        THEN ResetBatch(opened)
        ELSE RowsBatch(ResumeDeliveries(q, cursor, now), cursor)

\* Reading needs the state row and never creates it.
CanRead(q) == q.created

ReadDeliveries(q, now) == compactExpiredDeliveries(q, now)

\* Mutant of ReadBatch: a read does not look at the gap.
MutReadWithoutFloor(q, after, now) == RowsBatch(ReadDeliveries(q, now), after)

\* The acknowledged cursor plays no part in a read.
ReadBatch(q, after, now) ==
    LET compacted == ReadDeliveries(q, now)
    IN  IF after < compacted.unavailable
        THEN ResetBatch(compacted)
        ELSE RowsBatch(compacted, after)

CanAcknowledge(q, cursor) == cursor >= 1 /\ cursor < q.next

AcknowledgeDelivery(q, cursor) ==
    LET ensured == ensureDeliveryState(q)
    IN  IF cursor > ensured.acked THEN acknowledgeThrough(ensured, cursor)
        ELSE ensured

=============================================================================
