---------------------------- MODULE RelaySession ----------------------------
(***************************************************************************)
(* Durable delivery to one recipient device, end to end: senders running   *)
(* Hub.RouteDurable, the recipient's queue, and the successive sessions of  *)
(* internal/relay/websocket.go through which the recipient reads it.        *)
(*                                                                         *)
(* A session is its reader loop, its writer loop and the channels between  *)
(* them.  A new session starts only when the old one is gone (module Hub), *)
(* so one set of session variables is enough.  The client is external: it  *)
(* follows protocol/relay-delivery-v1.md, commits what it is sent in       *)
(* order, acknowledges only what it has committed, and on a reset          *)
(* reconciles before it resumes.  Its committed cursor and its open        *)
(* recovery are durable; everything in a session is volatile.              *)
(***************************************************************************)
EXTENDS DeliveryQueue, Sequences

CONSTANTS Senders,          \* bound on RouteDurable calls in progress at once
          MaxWire,          \* frames the transport buffers in one direction
          MaxConnections,   \* bound on the sessions of one behaviour
          MaxNow            \* bound on the clock; later instants never come

ASSUME SessionAssumption ==
    /\ Senders \in Nat \ {0}
    /\ MaxWire \in Nat \ {0}
    /\ MaxConnections \in Nat \ {0}
    /\ 0..MaxNow \subseteq Times

VARIABLES now,           \* the server's clock
          queue,         \* the recipient's durable history
          unsignalled,   \* RouteDurable calls that committed but have not signalled
          connections,   \* sessions started so far
          live,          \* whether a session is registered
          inbox,         \* client messages on their way to the reader loop
          outbox,        \* server frames on their way to the client
          resumeRequests, durableWake,          \* channels of capacity one
          cursorInitialized, sentCursor, batch, \* locals of the writer loop
          gapReported,   \* the writer gave up on an unreported gap
          committed,     \* client: highest contiguous committed delivery
          recovery       \* client: high-water mark being reconciled, or 0

sessionVars == <<inbox, outbox, resumeRequests, durableWake,
                 cursorInitialized, sentCursor, batch>>
writerVars == <<cursorInitialized, sentCursor, batch>>
clientVars == <<committed, recovery>>
vars == <<now, queue, unsignalled, connections, live, sessionVars, gapReported,
          clientVars>>

NoBatch == [reset |-> FALSE, high |-> -1, deliveries |-> {}]

Frame(kind, id) == [kind |-> kind, id |-> id]

Init ==
    /\ now = 0 /\ queue = EmptyQueue /\ unsignalled = 0
    /\ connections = 0 /\ live = FALSE
    /\ inbox = <<>> /\ outbox = <<>> /\ resumeRequests = <<>> /\ durableWake = FALSE
    /\ cursorInitialized = FALSE /\ sentCursor = 0 /\ batch = NoBatch
    /\ gapReported = FALSE
    /\ committed = 0 /\ recovery = 0

-----------------------------------------------------------------------------
\* The environment.

Tick ==
    /\ now < MaxNow
    /\ now' = now + 1
    /\ UNCHANGED <<queue, unsignalled, connections, live, sessionVars, gapReported,
                   clientVars>>

\* The loops of a session start with empty channels and an unset cursor.
FreshSession(firstMessages) ==
    /\ inbox' = firstMessages /\ outbox' = <<>>
    /\ resumeRequests' = <<>> /\ durableWake' = FALSE
    /\ cursorInitialized' = FALSE /\ sentCursor' = 0 /\ batch' = NoBatch

\* A session is registered and acknowledged; the client asks to resume from
\* its committed cursor, unless it has a recovery to finish first.
Connect ==
    /\ ~live /\ connections < MaxConnections
    /\ live' = TRUE /\ connections' = connections + 1
    /\ FreshSession(IF recovery = 0 THEN <<Frame("resume", committed)>> ELSE <<>>)
    /\ UNCHANGED <<now, queue, unsignalled, gapReported, clientVars>>

EndSession == live' = FALSE /\ FreshSession(<<>>)

\* The transport fails, the session is superseded, or an operation errs.
Drop ==
    /\ live /\ connections < MaxConnections
    /\ EndSession
    /\ UNCHANGED <<now, queue, unsignalled, connections, gapReported, clientVars>>

\* The server stops between any two transactions: calls that committed never
\* signal, and the database is what survives.
Crash ==
    /\ connections < MaxConnections
    /\ EndSession
    /\ unsignalled' = 0
    /\ UNCHANGED <<now, queue, connections, gapReported, clientVars>>

-----------------------------------------------------------------------------
\* RouteDurable: commit, then signal whatever session is live by then.

RouteDurableCommit(size, expires) ==
    /\ unsignalled < Senders
    /\ CanAppend(queue, expires, now)
    /\ queue' = AppendDelivery(queue, size, expires, now)
    /\ unsignalled' = unsignalled + 1
    /\ UNCHANGED <<now, connections, live, sessionVars, gapReported, clientVars>>

\* Mutant of RouteDurableSignal: a wake is lost while the writer loop is busy.
MutUnbufferedWake ==
    /\ unsignalled > 0
    /\ unsignalled' = unsignalled - 1
    /\ durableWake' = (durableWake \/ (live /\ batch = NoBatch))
    /\ UNCHANGED <<now, queue, connections, live, inbox, outbox, resumeRequests,
                   writerVars, gapReported, clientVars>>

RouteDurableSignal ==
    /\ unsignalled > 0
    /\ unsignalled' = unsignalled - 1
    /\ durableWake' = (durableWake \/ live)
    /\ UNCHANGED <<now, queue, connections, live, inbox, outbox, resumeRequests,
                   writerVars, gapReported, clientVars>>

-----------------------------------------------------------------------------
\* The reader loop.

ReadResume ==
    /\ inbox # <<>> /\ Head(inbox).kind = "resume"
    /\ resumeRequests = <<>>
    /\ resumeRequests' = <<Head(inbox).id>>
    /\ inbox' = Tail(inbox)
    /\ UNCHANGED <<now, queue, unsignalled, connections, live, outbox, durableWake,
                   writerVars, gapReported, clientVars>>

ReadAcknowledge ==
    /\ inbox # <<>> /\ Head(inbox).kind = "ack"
    /\ CanAcknowledge(queue, Head(inbox).id)
    /\ queue' = AcknowledgeDelivery(queue, Head(inbox).id)
    /\ inbox' = Tail(inbox)
    /\ UNCHANGED <<now, unsignalled, connections, live, outbox, resumeRequests,
                   durableWake, writerVars, gapReported, clientVars>>

Reader == ReadResume \/ ReadAcknowledge

-----------------------------------------------------------------------------
\* The writer loop.  Between two batches it waits in its select.

Idle == live /\ batch = NoBatch

Draining == live /\ batch # NoBatch

TakeResume ==
    /\ Idle /\ resumeRequests # <<>>
    /\ LET cursor == Head(resumeRequests)
       IN  /\ CanResume(queue, cursor)
           /\ queue' = ResumeDeliveries(queue, cursor, now)
           /\ batch' = ResumeBatch(queue, cursor, now)
           /\ sentCursor' = cursor
    /\ cursorInitialized' = TRUE
    /\ resumeRequests' = <<>>
    /\ UNCHANGED <<now, unsignalled, connections, live, inbox, outbox, durableWake,
                   gapReported, clientVars>>

TakeWake ==
    /\ Idle /\ durableWake
    /\ durableWake' = FALSE
    /\ IF cursorInitialized
       THEN /\ queue' = ReadDeliveries(queue, now)
            /\ batch' = ReadBatch(queue, sentCursor, now)
       ELSE UNCHANGED <<queue, batch>>
    /\ UNCHANGED <<now, unsignalled, connections, live, inbox, outbox, resumeRequests,
                   cursorInitialized, sentCursor, gapReported, clientVars>>

Send(frame) == Len(outbox) < MaxWire /\ outbox' = Append(outbox, frame)

SendReset ==
    /\ Draining /\ batch.reset
    /\ Send(Frame("reset", batch.high))
    /\ batch' = NoBatch /\ cursorInitialized' = FALSE
    /\ UNCHANGED <<now, queue, unsignalled, connections, live, inbox, resumeRequests,
                   durableWake, sentCursor, gapReported, clientVars>>

SendDelivery ==
    /\ Draining /\ batch.deliveries # {}
    /\ LET id == Min(Ids(batch.deliveries))
       IN  /\ Send(Frame("delivery", id))
           /\ sentCursor' = id
           /\ batch' = [batch EXCEPT !.deliveries = {r \in @ : r.id # id}]
    /\ UNCHANGED <<now, queue, unsignalled, connections, live, inbox, resumeRequests,
                   durableWake, cursorInitialized, gapReported, clientVars>>

Drained == Draining /\ ~batch.reset /\ batch.deliveries = {}

\* Mutant of SendCaughtUp: the marker is sent after one batch.
MutCaughtUpEarly ==
    /\ Drained
    /\ Send(Frame("caughtUp", batch.high))
    /\ batch' = NoBatch
    /\ UNCHANGED <<now, queue, unsignalled, connections, live, inbox, resumeRequests,
                   durableWake, cursorInitialized, sentCursor, gapReported, clientVars>>

SendCaughtUp ==
    /\ Drained /\ sentCursor >= batch.high
    /\ Send(Frame("caughtUp", batch.high))
    /\ batch' = NoBatch
    /\ UNCHANGED <<now, queue, unsignalled, connections, live, inbox, resumeRequests,
                   durableWake, cursorInitialized, sentCursor, gapReported, clientVars>>

\* drainBatch reads on; an empty batch below the high-water mark ends the
\* session with "relay delivery history contains an unreported gap".
ReadOn ==
    /\ Drained /\ sentCursor < batch.high
    /\ queue' = ReadDeliveries(queue, now)
    /\ LET next == ReadBatch(queue, sentCursor, now)
           gap == next.deliveries = {} /\ next.high > sentCursor /\ ~next.reset
       IN  /\ gapReported' = (gapReported \/ gap)
           /\ IF gap THEN EndSession
              ELSE /\ batch' = next
                   /\ UNCHANGED <<live, inbox, outbox, resumeRequests, durableWake,
                                  cursorInitialized, sentCursor>>
    /\ UNCHANGED <<now, unsignalled, connections, clientVars>>

Writer == TakeResume \/ TakeWake \/ SendReset \/ SendDelivery \/ SendCaughtUp \/ ReadOn

-----------------------------------------------------------------------------
\* The recipient.

\* A delivery is committed in order; one already committed is a replay.
ClientReceive ==
    /\ outbox # <<>> /\ Head(outbox).kind = "delivery"
    /\ committed' = Larger(committed, Head(outbox).id)
    /\ outbox' = Tail(outbox)
    /\ UNCHANGED <<now, queue, unsignalled, connections, live, inbox, resumeRequests,
                   durableWake, writerVars, gapReported, recovery>>

ClientCaughtUp ==
    /\ outbox # <<>> /\ Head(outbox).kind = "caughtUp"
    /\ outbox' = Tail(outbox)
    /\ UNCHANGED <<now, queue, unsignalled, connections, live, inbox, resumeRequests,
                   durableWake, writerVars, gapReported, clientVars>>

ClientReset ==
    /\ outbox # <<>> /\ Head(outbox).kind = "reset"
    /\ recovery' = Head(outbox).id
    /\ outbox' = Tail(outbox)
    /\ UNCHANGED <<now, queue, unsignalled, connections, live, inbox, resumeRequests,
                   durableWake, writerVars, gapReported, committed>>

ClientAcknowledge ==
    /\ live /\ Len(inbox) < MaxWire
    /\ committed > 0 /\ recovery = 0
    /\ inbox' = Append(inbox, Frame("ack", committed))
    /\ UNCHANGED <<now, queue, unsignalled, connections, live, outbox, resumeRequests,
                   durableWake, writerVars, gapReported, clientVars>>

\* Every source has answered with its snapshot: the high-water mark becomes
\* the committed cursor and the client resumes from it.
ClientReconcile ==
    /\ recovery # 0 /\ live /\ Len(inbox) < MaxWire
    /\ committed' = recovery /\ recovery' = 0
    /\ inbox' = Append(inbox, Frame("resume", recovery))
    /\ UNCHANGED <<now, queue, unsignalled, connections, live, outbox, resumeRequests,
                   durableWake, writerVars, gapReported>>

Client == ClientReceive \/ ClientCaughtUp \/ ClientReset \/ ClientReconcile

-----------------------------------------------------------------------------

Next ==
    \/ Tick \/ Connect \/ Drop \/ Crash
    \/ \E size \in Sizes, expires \in Times : RouteDurableCommit(size, expires)
    \/ RouteDurableSignal
    \/ Reader \/ Writer \/ Client \/ ClientAcknowledge

Spec == Init /\ [][Next]_vars

\* Goroutines are scheduled, the transport of a live session makes progress,
\* and a recipient that is off line comes back and finishes its recovery.
\* Nothing obliges time to pass, senders to send, or acknowledgements to be
\* sent.
Fairness ==
    /\ WF_vars(Connect)
    /\ WF_vars(RouteDurableSignal)
    /\ WF_vars(Reader)
    /\ WF_vars(Writer)
    /\ WF_vars(Client)

FairSpec == Spec /\ Fairness

-----------------------------------------------------------------------------
\* Properties.

Messages == [kind : {"resume", "ack"}, id : 0..MaxInt64]
Frames == [kind : {"delivery", "caughtUp", "reset"}, id : 0..MaxInt64]
Batches == [reset : BOOLEAN, high : -1..MaxInt64, deliveries : SUBSET Delivery]

\* The locals and channels of a session and the client's cursors keep their
\* types and their capacities.
TypeOK ==
    /\ now \in 0..MaxNow /\ queue \in Queue /\ unsignalled \in 0..Senders
    /\ connections \in 0..MaxConnections /\ live \in BOOLEAN
    /\ inbox \in Seq(Messages) /\ Len(inbox) <= MaxWire
    /\ outbox \in Seq(Frames) /\ Len(outbox) <= MaxWire
    /\ resumeRequests \in Seq(0..MaxInt64) /\ Len(resumeRequests) <= 1
    /\ durableWake \in BOOLEAN /\ cursorInitialized \in BOOLEAN
    /\ sentCursor \in 0..MaxInt64 /\ batch \in Batches
    /\ gapReported \in BOOLEAN
    /\ committed \in 0..MaxInt64 /\ recovery \in 0..MaxInt64

\* The delivery a client reads next is the one after its committed cursor or
\* a replay, never one further on: expiry, eviction, a lost acknowledgement,
\* a reconnect or a batch read long before it is written cannot make the
\* relay skip a delivery without a reset (drainBatch, websocket.go).
NoSilentGap ==
    (outbox # <<>> /\ Head(outbox).kind = "delivery") => Head(outbox).id <= committed + 1

\* When a client reads a caught-up marker it has committed everything through
\* the marker's high-water mark.
CaughtUpIsTrue ==
    (outbox # <<>> /\ Head(outbox).kind = "caughtUp") => committed >= Head(outbox).id

\* A reset is sent only to a client that really missed something: there is a
\* delivery above its cursor that the store had to give up.
ResetIsNeeded ==
    (outbox # <<>> /\ Head(outbox).kind = "reset")
        => committed < queue.unavailable /\ committed < Head(outbox).id

\* The store forgets as acknowledged only what the client has committed, and
\* no cursor on its way to the relay is ahead of the history, so neither
\* ErrDeliveryCursorAhead can happen to a client that follows the protocol.
CursorsAreCommitted ==
    /\ queue.acked <= committed
    /\ committed <= HighWater(queue)
    /\ \A i \in DOMAIN inbox : inbox[i].id <= committed
    /\ \A i \in DOMAIN resumeRequests : resumeRequests[i] <= committed

\* drainBatch never ends a session over "an unreported gap".
NoUnreportedGap == ~gapReported

\* Durable delivery implements the abstract history: the recipient advances by
\* one delivery at a time or jumps over a loss by reconciling, and everything
\* published is eventually applied or reconciled, although signals coalesce,
\* are dropped before the first resume and can miss the session they were
\* meant for.
History == INSTANCE RecipientHistory
               WITH published <- HighWater(queue), lost <- queue.unavailable
ImplementsHistory == History!Spec

\* The safety half of it: every step of every process moves the published, the
\* lost and the committed history as the abstract recipient allows.
KeepsHistory == History!Safety

\* protocol/relay-delivery-v1.md: "Envelopes are not delivered after their
\* authenticated Routing Header expiry."  Stated of the moment the writer loop
\* hands a delivery to the socket.
NotDeliveredExpired ==
    [][\A r \in batch.deliveries \ batch'.deliveries :
           sentCursor' = r.id => r.expires > now]_vars

=============================================================================
