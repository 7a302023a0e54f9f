---------------------------- MODULE DeliveryStore ----------------------------
(***************************************************************************)
(* The DeliveryStore interface of internal/relay/delivery_store.go as the  *)
(* SQLite registry implements it: one recipient's queue, any number of     *)
(* callers, every transaction atomic, callers' clocks and cursors          *)
(* arbitrary.  `reply` is what the last call returned.                     *)
(***************************************************************************)
EXTENDS DeliveryQueue

VARIABLES stored,  \* the recipient's queue, as committed
          reply    \* the answer to the last call

storeVars == <<stored, reply>>

Cursors == 0..MaxInt64

Reply == [kind : {"none", "appended", "resumed", "read", "acknowledged", "refused"},
          cursor : Cursors,
          now : Nat,
          reset : BOOLEAN,
          high : Cursors,
          deliveries : SUBSET Delivery]

NoReply == [kind |-> "none", cursor |-> 0, now |-> 0, reset |-> FALSE, high |-> 0,
            deliveries |-> {}]

Answer(kind, cursor, now, batch) ==
    [kind |-> kind, cursor |-> cursor, now |-> now,
     reset |-> batch.reset, high |-> batch.high, deliveries |-> batch.deliveries]

\* The answer of a call that returns an identifier or only success.
Plain(kind, cursor) ==
    [kind |-> kind, cursor |-> cursor, now |-> 0, reset |-> FALSE, high |-> 0,
     deliveries |-> {}]

StoreInit == stored = EmptyQueue /\ reply = NoReply

-----------------------------------------------------------------------------

AppendCall(size, expires, now) ==
    /\ CanAppend(stored, expires, now)
    /\ stored' = AppendDelivery(stored, size, expires, now)
    /\ reply' = Plain("appended", stored.next)

ResumeCall(cursor, now) ==
    /\ CanResume(stored, cursor)
    /\ stored' = ResumeDeliveries(stored, cursor, now)
    /\ reply' = Answer("resumed", cursor, now, ResumeBatch(stored, cursor, now))

ReadCall(after, now) ==
    /\ CanRead(stored)
    /\ stored' = ReadDeliveries(stored, now)
    /\ reply' = Answer("read", after, now, ReadBatch(stored, after, now))

AcknowledgeCall(cursor) ==
    /\ CanAcknowledge(stored, cursor)
    /\ stored' = AcknowledgeDelivery(stored, cursor)
    /\ reply' = Plain("acknowledged", cursor)

\* An invalid argument, an exhausted sequence, a cursor ahead of the history,
\* a missing state row, a cancelled context or a storage error: the deferred
\* Rollback undoes everything the transaction did.
RefuseCall ==
    /\ stored' = stored
    /\ reply' = Plain("refused", 0)

StoreNext ==
    \/ \E size \in Sizes, expires, now \in Times : AppendCall(size, expires, now)
    \/ \E cursor \in Cursors, now \in Times : ResumeCall(cursor, now)
    \/ \E after \in Cursors, now \in Times : ReadCall(after, now)
    \/ \E cursor \in Cursors : AcknowledgeCall(cursor)
    \/ RefuseCall

StoreSpec == StoreInit /\ [][StoreNext]_storeVars

-----------------------------------------------------------------------------
\* Properties.

\* The queue row, its rows and the answers have the types of the schema.
StoreTypeOK == stored \in Queue /\ reply \in Reply

\* Every delivery that is neither acknowledged nor reported unavailable is
\* still stored, whatever order appends, expiries, evictions and cumulative
\* acknowledgements came in; and nothing at or below the acknowledged cursor
\* or above the high-water mark is.  A resume can therefore never skip a
\* delivery without answering "reset" (relay_delivery_store.go, all four
\* transactions).
HistoryComplete == Complete(stored)

\* A batch that does not ask for a reset is an unbroken run of ids starting
\* right after the caller's cursor: as long as the LIMIT allows, and otherwise
\* reaching the reported high-water mark.  ReadDeliveries does not look at the
\* acknowledged cursor, so the claim is for cursors it has not passed.
BatchContiguous ==
    (/\ reply.kind \in {"resumed", "read"}
     /\ ~reply.reset
     /\ reply.cursor <= reply.high
     /\ reply.cursor >= stored.acked)
        => Ids(reply.deliveries)
             = reply.cursor + 1 .. Min({reply.cursor + BatchLimit, reply.high})

\* No transaction returns a delivery that has expired at its own clock
\* reading (compactExpiredDeliveries runs before the SELECT).
BatchUnexpired == \A r \in reply.deliveries : r.expires > reply.now

\* The queue stays within both documented bounds, count and bytes, although
\* rows that no cursor can reach any more keep counting until they expire.
WithinCapacity == FitsCapacity(stored.rows)

\* Making room never costs the delivery being accepted: the id AppendDelivery
\* returns is stored when the transaction commits.
AcceptedIsStored ==
    reply.kind = "appended" => reply.cursor \in Ids(stored.rows)

\* The three cursors of the state row only move forward, and a stored
\* delivery is never new unless its id is the next one: ids are not reused
\* after expiry, eviction or acknowledgement.
CursorsAdvance ==
    [][/\ stored'.next >= stored.next
       /\ stored'.acked >= stored.acked
       /\ stored'.unavailable >= stored.unavailable
       /\ \A r \in stored'.rows \ stored.rows : r.id = stored.next]_storeVars

=============================================================================
