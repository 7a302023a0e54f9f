------------------------- MODULE RelaySessionProofs -------------------------
(***************************************************************************)
(* Durable delivery has no silent gap, for every capacity, batch size,     *)
(* number of senders and sessions, wire length and clock.                  *)
(***************************************************************************)
EXTENDS RelaySession, DeliveryStoreProofs

\* The batch in the writer loop's hands continues from the cursor it has sent.
Pending(b, sent, high) ==
    /\ b \in [reset : BOOLEAN, high : Int, deliveries : SUBSET Delivery]
    /\ Unbroken(b.deliveries, sent)
    /\ \A r \in b.deliveries : r.id <= high
    /\ b.high <= high
    /\ b.reset => sent <= b.high /\ b.deliveries = {}

\* Where the writer loop stands: an open request to resume or an open
\* recovery finds the wire empty and the loop waiting; once the loop has a
\* cursor, it has sent exactly what the client commits up to that cursor.
WriterOK(out, asked, init, sent, b, c, open, high) ==
    /\ sent \in Nat
    /\ b # NoBatch => init
    /\ asked => out = <<>> /\ ~open /\ ~init
    /\ open => out = <<>>
    /\ init => /\ ~open
               /\ c <= sent /\ sent <= high /\ Reached(out, c, sent)
               /\ \A i \in 1..Len(out) : /\ out[i].kind # "reset"
                                         /\ Delivers(out, i) => out[i].id <= sent
               /\ Pending(b, sent, high)

\* The history and the client's cursors.
CursorsOK(q, c, r) ==
    /\ Good(q) /\ IsFiniteSet(q.rows)
    /\ c \in Nat /\ r \in Int
    /\ q.acked <= c /\ c <= HighWater(q)
    /\ r # 0 => c <= r /\ r <= HighWater(q)

Asked == Asks(inbox) \/ resumeRequests # <<>>

\* The inductive invariant.
Inv ==
    /\ CursorsOK(queue, committed, recovery)
    /\ RequestsOK(inbox, resumeRequests, committed)
    /\ WireOK(outbox, committed, HighWater(queue))
    /\ WriterOK(outbox, Asked, cursorInitialized, sentCursor, batch, committed,
                recovery # 0, HighWater(queue))
    /\ ~gapReported

-----------------------------------------------------------------------------
\* The steps.  Each lemma covers the actions that change the same part.

\* A session that starts afresh: the wire is empty and the writer waits.
LEMMA FreshWriter ==
    ASSUME NEW asked, NEW c, NEW open, NEW high, asked => ~open
    PROVE  WriterOK(<<>>, asked, FALSE, 0, NoBatch, c, open, high)
  BY Zenon DEF WriterOK

\* The loop's cursor and batch stay good while the history grows.
LEMMA WriterGrows ==
    ASSUME NEW out, NEW asked, NEW init, NEW sent, NEW b, NEW c, NEW open,
           NEW high \in Int, NEW more \in Int, high <= more,
           WriterOK(out, asked, init, sent, b, c, open, high)
    PROVE  WriterOK(out, asked, init, sent, b, c, open, more)
<1>1. ASSUME init PROVE Pending(b, sent, more)
  <2>1. Pending(b, sent, high)
    BY <1>1, Zenon DEF WriterOK
  <2>2. b.high \in Int /\ b.deliveries \in SUBSET Delivery
    BY <2>1, Zenon DEF Pending
  <2>3. \A r \in b.deliveries : r.id \in Int
    BY <2>2, QueueAssumption DEF Delivery
  <2> QED
    BY <2>1, <2>2, <2>3 DEF Pending
<1>2. ASSUME init PROVE sent <= more
  BY <1>2 DEF WriterOK
<1> QED
  BY <1>1, <1>2, Zenon DEF WriterOK

\* Connect, Drop and Crash keep the history and the client's cursors.
LEMMA SessionsKeep ==
    ASSUME Inv, Connect \/ Drop \/ Crash
    PROVE  Inv'
<1>1. /\ queue' = queue /\ committed' = committed /\ recovery' = recovery
      /\ gapReported' = gapReported
      /\ outbox' = <<>> /\ resumeRequests' = <<>>
      /\ cursorInitialized' = FALSE /\ sentCursor' = 0 /\ batch' = NoBatch
      /\ inbox' = <<>> \/ (recovery = 0 /\ inbox' = <<Frame("resume", committed)>>)
  BY Zenon DEF Connect, Drop, Crash, EndSession, FreshSession, clientVars
<1>2. committed \in Nat
  BY Zenon DEF Inv, CursorsOK
<1>3. CursorsOK(queue', committed', recovery') /\ ~gapReported'
  BY <1>1, Zenon DEF Inv
<1>4. RequestsOK(inbox', resumeRequests', committed')
  <2>1. Frame("resume", committed) \in Message /\ Frame("resume", committed).id = committed
    BY <1>2, Zenon DEF Frame, Message
  <2> QED
    BY <1>1, <1>2, <2>1, NoRequests, FirstRequest, Zenon
<1>5. WireOK(outbox', committed', HighWater(queue'))
  BY <1>1, EmptyWire, Zenon
<1>6. Asked' => ~ (recovery' # 0)
  BY <1>1, <1>2, NoRequests, Zenon DEF Asked
<1>7. WriterOK(outbox', Asked', cursorInitialized', sentCursor', batch', committed',
               recovery' # 0, HighWater(queue'))
  BY <1>1, <1>6, FreshWriter, Zenon
<1> QED
  BY <1>3, <1>4, <1>5, <1>7, Zenon DEF Inv

\* RouteDurable commits: the history grows by one delivery.
LEMMA CommitKeeps ==
    ASSUME Inv, NEW size \in Sizes, NEW expires \in Times, RouteDurableCommit(size, expires)
    PROVE  Inv'
<1>1. /\ queue' = AppendDelivery(queue, size, expires, now) /\ queue.next # MaxInt64
      /\ UNCHANGED <<inbox, outbox, resumeRequests, cursorInitialized, sentCursor, batch,
                     gapReported, committed, recovery>>
  BY Zenon DEF RouteDurableCommit, CanAppend, sessionVars, clientVars
<1>2. Good(queue) /\ IsFiniteSet(queue.rows) /\ committed \in Nat /\ recovery \in Int
  BY Zenon DEF Inv, CursorsOK
<1>3. /\ Good(queue') /\ queue'.next = queue.next + 1 /\ queue'.acked = queue.acked
      /\ queue'.rows \subseteq
             queue.rows \cup {[id |-> queue.next, size |-> size, expires |-> expires]}
  BY <1>1, <1>2, AppendKeeps
<1>4. IsFiniteSet(queue'.rows)
  BY <1>2, <1>3, StaysFinite, Zenon
<1>5. HighWater(queue) \in Int /\ HighWater(queue') = HighWater(queue) + 1
  BY <1>2, <1>3 DEF HighWater, Good, Queue
<1>6. CursorsOK(queue', committed', recovery')
  BY <1>1, <1>2, <1>3, <1>4, <1>5 DEF Inv, CursorsOK
<1>7. WireOK(outbox, committed, HighWater(queue'))
  BY <1>2, <1>5, WireGrows DEF Inv
<1>8. WriterOK(outbox, Asked, cursorInitialized, sentCursor, batch, committed,
               recovery # 0, HighWater(queue'))
  BY <1>5, WriterGrows DEF Inv
<1> QED
  BY <1>1, <1>6, <1>7, <1>8 DEF Inv, Asked

\* The clock and a signal change nothing the invariant is about.
LEMMA OthersKeep ==
    ASSUME Inv, Tick \/ RouteDurableSignal \/ UNCHANGED vars
    PROVE  Inv'
<1>1. UNCHANGED <<queue, inbox, outbox, resumeRequests, cursorInitialized, sentCursor, batch,
                  gapReported, committed, recovery>>
  BY Zenon DEF Tick, RouteDurableSignal, vars, sessionVars, writerVars, clientVars
<1> QED
  BY <1>1, Zenon DEF Inv, Asked

\* The reader loop hands a request to the writer loop.
LEMMA ReadResumeKeeps ==
    ASSUME Inv, ReadResume
    PROVE  Inv'
<1>1. /\ inbox # <<>> /\ Head(inbox).kind = "resume" /\ resumeRequests = <<>>
      /\ resumeRequests' = <<Head(inbox).id>> /\ inbox' = Tail(inbox)
      /\ UNCHANGED <<queue, outbox, cursorInitialized, sentCursor, batch, gapReported,
                     committed, recovery>>
  BY Zenon DEF ReadResume, writerVars, clientVars
<1>2. committed \in Nat /\ RequestsOK(inbox, resumeRequests, committed)
  BY Zenon DEF Inv, CursorsOK
<1>3. Asks(inbox) /\ Head(inbox).id = committed /\ RequestsOK(Tail(inbox), <<committed>>, committed)
  BY <1>1, <1>2, RequestsTail, Zenon
<1>4. RequestsOK(inbox', resumeRequests', committed')
  BY <1>1, <1>3, Zenon
<1>5. WriterOK(outbox', Asked', cursorInitialized', sentCursor', batch', committed',
               recovery' # 0, HighWater(queue'))
  BY <1>1, <1>3, Zenon DEF Inv, WriterOK, Asked
<1> QED
  BY <1>1, <1>4, <1>5, Zenon DEF Inv

\* The reader loop acknowledges what the client has committed.
LEMMA ReadAcknowledgeKeeps ==
    ASSUME Inv, ReadAcknowledge
    PROVE  Inv'
<1>1. /\ inbox # <<>> /\ CanAcknowledge(queue, Head(inbox).id)
      /\ queue' = AcknowledgeDelivery(queue, Head(inbox).id) /\ inbox' = Tail(inbox)
      /\ UNCHANGED <<outbox, resumeRequests, cursorInitialized, sentCursor, batch, gapReported,
                     committed, recovery>>
  BY Zenon DEF ReadAcknowledge, writerVars, clientVars
<1>2. /\ Good(queue) /\ IsFiniteSet(queue.rows) /\ committed \in Nat
      /\ RequestsOK(inbox, resumeRequests, committed) /\ queue.acked <= committed
  BY Zenon DEF Inv, CursorsOK
<1>3. /\ Head(inbox).id \in Nat /\ Head(inbox).id <= committed
      /\ RequestsOK(Tail(inbox), resumeRequests, committed)
      /\ Asks(Tail(inbox)) => Asks(inbox)
  BY <1>1, <1>2, RequestsTail, Zenon
<1>4. /\ Good(queue') /\ IsFiniteSet(queue'.rows) /\ queue'.next = queue.next
      /\ queue'.acked <= queue.acked \/ queue'.acked <= Head(inbox).id
  BY <1>1, <1>2, <1>3, AcknowledgeBounded, Zenon
<1>5. HighWater(queue') = HighWater(queue)
  BY <1>4, Zenon DEF HighWater
<1>6. queue'.acked <= committed
  <2>1. queue.acked \in Int /\ queue'.acked \in Int
    BY <1>2, <1>4 DEF Good, Queue
  <2> QED
    BY <1>2, <1>3, <1>4, <2>1
<1>7. CursorsOK(queue', committed', recovery')
  BY <1>1, <1>4, <1>5, <1>6, Zenon DEF Inv, CursorsOK
<1>8. WriterOK(outbox', Asked', cursorInitialized', sentCursor', batch', committed',
               recovery' # 0, HighWater(queue'))
  BY <1>1, <1>3, <1>5, Zenon DEF Inv, WriterOK, Asked
<1> QED
  BY <1>1, <1>3, <1>5, <1>7, <1>8 DEF Inv

\* A batch that has just been read continues from the cursor it was read after.
LEMMA ContinuesIsPending ==
    ASSUME NEW b, NEW sent \in Nat, NEW p, Continues(b, sent, p), sent <= HighWater(p)
    PROVE  Pending(b, sent, HighWater(p))
<1>1. b.high = HighWater(p) /\ b.high \in Int
  BY Zenon DEF Continues
<1> QED
  BY <1>1 DEF Continues, Pending

\* The writer loop takes a request: it has sent nothing yet, and its cursor
\* is the client's.
LEMMA TakeResumeKeeps ==
    ASSUME Inv, TakeResume
    PROVE  Inv'
<1>1. /\ resumeRequests # <<>>
      /\ CanResume(queue, Head(resumeRequests))
      /\ queue' = ResumeDeliveries(queue, Head(resumeRequests), now)
      /\ batch' = ResumeBatch(queue, Head(resumeRequests), now)
      /\ sentCursor' = Head(resumeRequests)
      /\ cursorInitialized' = TRUE /\ resumeRequests' = <<>>
      /\ UNCHANGED <<inbox, outbox, gapReported, committed, recovery>>
  BY Zenon DEF TakeResume, clientVars
<1>2. /\ Good(queue) /\ IsFiniteSet(queue.rows) /\ committed \in Nat
      /\ queue.acked <= committed /\ committed <= HighWater(queue)
      /\ RequestsOK(inbox, resumeRequests, committed)
  BY Zenon DEF Inv, CursorsOK
<1>3. Head(resumeRequests) = committed /\ ~Asks(inbox)
  BY <1>1, <1>2 DEF RequestsOK
<1>4. outbox = <<>> /\ recovery = 0
  BY <1>1, Zenon DEF Inv, WriterOK, Asked
<1>5. /\ Good(queue') /\ IsFiniteSet(queue'.rows) /\ queue'.next = queue.next
      /\ queue'.acked <= queue.acked \/ queue'.acked <= committed
      /\ Continues(batch', committed, queue')
  BY <1>1, <1>2, <1>3, ResumeContinues, Zenon
<1>6. HighWater(queue') = HighWater(queue)
  BY <1>5, Zenon DEF HighWater
<1>7. queue'.acked <= committed
  <2>1. queue.acked \in Int /\ queue'.acked \in Int
    BY <1>2, <1>5 DEF Good, Queue
  <2> QED
    BY <1>2, <1>5, <2>1
<1>8. CursorsOK(queue', committed', recovery')
  BY <1>1, <1>4, <1>5, <1>6, <1>7, Zenon DEF Inv, CursorsOK
<1>9. RequestsOK(inbox', resumeRequests', committed')
  <2>1. <<>> \in Seq(Nat)
    OBVIOUS
  <2> QED
    BY <1>1, <1>2, <2>1 DEF RequestsOK
<1>10. Pending(batch', sentCursor', HighWater(queue'))
  BY <1>1, <1>2, <1>3, <1>5, <1>6, ContinuesIsPending, Zenon
<1>11. WriterOK(outbox', Asked', cursorInitialized', sentCursor', batch', committed',
                recovery' # 0, HighWater(queue'))
  <2>1. ~Asked' /\ Len(outbox') = 0
    BY <1>1, <1>3, <1>4, Zenon DEF Asked
  <2>2. Reached(outbox', committed', sentCursor')
    BY <1>1, <1>2, <1>3 DEF Reached
  <2> QED
    BY <1>1, <1>2, <1>3, <1>4, <1>6, <1>10, <2>1, <2>2 DEF WriterOK
<1> QED
  BY <1>1, <1>6, <1>8, <1>9, <1>11, Zenon DEF Inv

\* Once it has a cursor, the writer loop reads on without a gap.
LEMMA WriterReads ==
    ASSUME Inv, cursorInitialized
    PROVE  LET p == ReadDeliveries(queue, now)
               b == ReadBatch(queue, sentCursor, now)
           IN  /\ CursorsOK(p, committed, recovery)
               /\ HighWater(p) = HighWater(queue)
               /\ WriterOK(outbox, Asked, cursorInitialized, sentCursor, b, committed,
                           recovery # 0, HighWater(queue))
               /\ (b.deliveries = {} /\ ~b.reset) => ~ (b.high > sentCursor)
<1>1. /\ Good(queue) /\ IsFiniteSet(queue.rows) /\ committed \in Nat
      /\ queue.acked <= committed
  BY Zenon DEF Inv, CursorsOK
<1>2. sentCursor \in Nat /\ committed <= sentCursor /\ sentCursor <= HighWater(queue)
  BY Zenon DEF Inv, WriterOK
<1>3. queue.acked <= sentCursor
  BY <1>1, <1>2 DEF Good, Queue
<1>4. PICK p : p = ReadDeliveries(queue, now)
  BY Zenon
<1>5. PICK b : b = ReadBatch(queue, sentCursor, now)
  BY Zenon
<1>6. /\ Good(p) /\ IsFiniteSet(p.rows) /\ p.next = queue.next /\ p.acked = queue.acked
      /\ Continues(b, sentCursor, p)
  BY <1>1, <1>2, <1>3, <1>4, <1>5, ReadContinues
<1>7. HighWater(p) = HighWater(queue)
  BY <1>6, Zenon DEF HighWater
<1>8. CursorsOK(p, committed, recovery)
  BY <1>6, <1>7, Zenon DEF Inv, CursorsOK
<1>9. Pending(b, sentCursor, HighWater(queue))
  BY <1>2, <1>6, <1>7, ContinuesIsPending, Zenon
<1>10. WriterOK(outbox, Asked, cursorInitialized, sentCursor, b, committed,
                recovery # 0, HighWater(queue))
  BY <1>9, Zenon DEF Inv, WriterOK
<1>11. (b.deliveries = {} /\ ~b.reset) => ~ (b.high > sentCursor)
  BY <1>2, <1>6 DEF Continues
<1> QED
  BY <1>4, <1>5, <1>7, <1>8, <1>10, <1>11, Zenon

\* A wake before the first resume is dropped; later it reads on.
LEMMA TakeWakeKeeps ==
    ASSUME Inv, TakeWake
    PROVE  Inv'
<1>1. UNCHANGED <<inbox, outbox, resumeRequests, cursorInitialized, sentCursor, gapReported,
                  committed, recovery>>
  BY Zenon DEF TakeWake, clientVars
<1>2. CASE ~cursorInitialized
  <2>1. UNCHANGED <<queue, batch>>
    BY <1>2, Zenon DEF TakeWake
  <2> QED
    BY <1>1, <2>1, Zenon DEF Inv, Asked
<1>3. CASE cursorInitialized
  <2>1. /\ queue' = ReadDeliveries(queue, now)
        /\ batch' = ReadBatch(queue, sentCursor, now)
    BY <1>3, Zenon DEF TakeWake
  <2>2. /\ CursorsOK(queue', committed, recovery)
        /\ HighWater(queue') = HighWater(queue)
        /\ WriterOK(outbox, Asked, cursorInitialized, sentCursor, batch', committed,
                    recovery # 0, HighWater(queue))
    BY <1>3, <2>1, WriterReads, Zenon
  <2> QED
    BY <1>1, <2>2, Zenon DEF Inv, Asked
<1> QED
  BY <1>2, <1>3, Zenon

\* drainBatch reads on and never finds an unreported gap.
LEMMA ReadOnKeeps ==
    ASSUME Inv, ReadOn
    PROVE  Inv'
<1>1. cursorInitialized
  BY Zenon DEF ReadOn, Drained, Draining, Inv, WriterOK
<1>2. PICK b : b = ReadBatch(queue, sentCursor, now)
  BY Zenon
<1>3. queue' = ReadDeliveries(queue, now)
  BY Zenon DEF ReadOn
<1>4. /\ CursorsOK(queue', committed, recovery)
      /\ HighWater(queue') = HighWater(queue)
      /\ WriterOK(outbox, Asked, cursorInitialized, sentCursor, b, committed,
                  recovery # 0, HighWater(queue))
      /\ (b.deliveries = {} /\ ~b.reset) => ~ (b.high > sentCursor)
  BY <1>1, <1>2, <1>3, WriterReads, Zenon
<1>5. /\ batch' = b /\ ~gapReported'
      /\ UNCHANGED <<inbox, outbox, resumeRequests, cursorInitialized, sentCursor,
                     committed, recovery>>
  <2>1. ~gapReported
    BY Zenon DEF Inv
  <2> QED
    BY <1>2, <1>4, <2>1, Zenon DEF ReadOn, clientVars
<1> QED
  BY <1>4, <1>5, Zenon DEF Inv, Asked

\* What the writer loop knows while it has a batch.
LEMMA WriterDrains ==
    ASSUME Inv, Draining
    PROVE  /\ cursorInitialized /\ ~Asked /\ recovery = 0
           /\ committed \in Nat /\ sentCursor \in Nat /\ HighWater(queue) \in Int
           /\ committed <= sentCursor /\ sentCursor <= HighWater(queue)
           /\ Reached(outbox, committed, sentCursor)
           /\ \A i \in 1..Len(outbox) : /\ outbox[i].id \in Int
                                        /\ outbox[i].kind # "reset"
                                        /\ Delivers(outbox, i) => outbox[i].id <= sentCursor
           /\ WireOK(outbox, committed, HighWater(queue))
           /\ Pending(batch, sentCursor, HighWater(queue))
<1>1. cursorInitialized
  BY Zenon DEF Draining, Inv, WriterOK
<1>2. WireOK(outbox, committed, HighWater(queue))
  BY Zenon DEF Inv
<1>3. \A i \in 1..Len(outbox) : outbox[i].id \in Int
  BY <1>2, WireTyped, Zenon
<1>4. committed \in Nat /\ HighWater(queue) \in Int
  BY DEF Inv, CursorsOK, Good, Queue, HighWater
<1> QED
  BY <1>1, <1>2, <1>3, <1>4, SMTT(30) DEF Inv, WriterOK

\* A frame is one of the wire's.
LEMMA FrameTyped ==
    ASSUME NEW kind \in {"delivery", "caughtUp", "reset"}, NEW id \in Int
    PROVE  Frame(kind, id) \in Wire /\ Frame(kind, id).kind = kind /\ Frame(kind, id).id = id
  BY Zenon DEF Frame, Wire

\* The reset ends what the writer loop has to say until the next resume.
LEMMA SendResetKeeps ==
    ASSUME Inv, SendReset
    PROVE  Inv'
<1>1. /\ Draining /\ batch.reset
      /\ outbox' = Append(outbox, Frame("reset", batch.high))
      /\ batch' = NoBatch /\ cursorInitialized' = FALSE
      /\ UNCHANGED <<queue, inbox, resumeRequests, sentCursor, gapReported, committed, recovery>>
  BY Zenon DEF SendReset, Send, clientVars
<1>2. /\ ~Asked /\ recovery = 0
      /\ committed \in Nat /\ sentCursor \in Nat /\ HighWater(queue) \in Int
      /\ committed <= sentCursor
      /\ \A i \in 1..Len(outbox) : /\ outbox[i].id \in Int
                                   /\ outbox[i].kind # "reset"
                                   /\ Delivers(outbox, i) => outbox[i].id <= sentCursor
      /\ WireOK(outbox, committed, HighWater(queue))
      /\ Pending(batch, sentCursor, HighWater(queue))
  BY <1>1, WriterDrains, Zenon
<1>3. batch.high \in Int /\ sentCursor <= batch.high /\ batch.high <= HighWater(queue)
  BY <1>1, <1>2, Zenon DEF Pending
<1>4. PICK f : f = Frame("reset", batch.high)
  BY Zenon
<1>5. f \in Wire /\ f.kind = "reset" /\ f.id = batch.high
  BY <1>3, <1>4, FrameTyped, Zenon
<1>6. /\ committed <= f.id /\ f.id <= HighWater(queue)
      /\ \A j \in 1..Len(outbox) : Delivers(outbox, j) => outbox[j].id <= f.id
  BY <1>2, <1>3, <1>5
<1>7. WireOK(Append(outbox, f), committed, HighWater(queue))
  BY <1>2, <1>5, <1>6, WireAppend, Zenon
<1>8. WriterOK(outbox', Asked', cursorInitialized', sentCursor', batch', committed',
               recovery' # 0, HighWater(queue'))
  BY <1>1, <1>2, Zenon DEF WriterOK, Asked
<1> QED
  BY <1>1, <1>4, <1>7, <1>8, Zenon DEF Inv

\* The first delivery of an unbroken batch is the one after the cursor, and
\* the rest continue from it.
LEMMA FirstOfUnbroken ==
    ASSUME NEW D \in SUBSET Delivery, D # {}, NEW sent \in Nat, Unbroken(D, sent)
    PROVE  /\ Min(Ids(D)) = sent + 1
           /\ \E r \in D : r.id = sent + 1
           /\ Unbroken({r \in D : r.id # sent + 1}, sent + 1)
<1>1. \A r \in D : r.id \in Int
  BY QueueAssumption DEF Delivery
<1>2. PICK r0 \in D : TRUE
  BY Zenon
<1>3. sent + 1 \in sent + 1 .. r0.id
  BY <1>1 DEF Unbroken
<1>4. sent + 1 \in Ids(D)
  BY <1>3, Zenon DEF Unbroken
<1>5. \A n \in Ids(D) : n \in Int /\ sent + 1 <= n
  BY <1>1 DEF Unbroken, Ids
<1>6. Min(Ids(D)) = sent + 1
  <2> DEFINE S == Ids(D)
  <2> HIDE DEF S
  <2>1. sent + 1 \in S /\ \A n \in S : n \in Int /\ sent + 1 <= n
    BY <1>4, <1>5, Zenon DEF S
  <2>2. Min(S) = CHOOSE x \in S : \A y \in S : x <= y
    BY Zenon DEF Min
  <2>3. Min(S) \in S /\ \A y \in S : Min(S) <= y
    BY <2>1, <2>2, Zenon
  <2>4. Min(S) = sent + 1
    BY <2>1, <2>3
  <2> QED
    BY <2>4, Zenon DEF S
<1>7. Unbroken({r \in D : r.id # sent + 1}, sent + 1)
  <2> DEFINE rest == {r \in D : r.id # sent + 1}
  <2>1. SUFFICES ASSUME NEW r \in rest
                 PROVE  r.id > sent + 1 /\ (sent + 1) + 1 .. r.id \subseteq Ids(rest)
    BY Zenon DEF Unbroken
  <2>2. r.id > sent + 1
    BY <1>1 DEF Unbroken
  <2>3. ASSUME NEW k \in (sent + 1) + 1 .. r.id PROVE k \in Ids(rest)
    <3>1. k \in sent + 1 .. r.id /\ k # sent + 1
      BY <1>1
    <3>2. k \in Ids(D)
      BY <3>1, Zenon DEF Unbroken
    <3> QED
      BY <3>1, <3>2, Zenon DEF Ids
  <2> QED
    BY <2>2, <2>3, Zenon
<1>8. \E r \in D : r.id = sent + 1
  BY <1>4, Zenon DEF Ids
<1> QED
  BY <1>6, <1>7, <1>8, Zenon

\* A delivery is written: the one after the cursor, which it becomes.
LEMMA SendDeliveryKeeps ==
    ASSUME Inv, SendDelivery
    PROVE  Inv'
<1> DEFINE id == Min(Ids(batch.deliveries))
<1>1. /\ Draining /\ batch.deliveries # {}
      /\ outbox' = Append(outbox, Frame("delivery", id)) /\ sentCursor' = id
      /\ batch' = [batch EXCEPT !.deliveries = {r \in @ : r.id # id}]
      /\ UNCHANGED <<queue, inbox, resumeRequests, cursorInitialized, gapReported,
                     committed, recovery>>
  BY Zenon DEF SendDelivery, Send, clientVars
<1>2. /\ cursorInitialized /\ ~Asked /\ recovery = 0
      /\ committed \in Nat /\ sentCursor \in Nat /\ HighWater(queue) \in Int
      /\ committed <= sentCursor /\ Reached(outbox, committed, sentCursor)
      /\ \A i \in 1..Len(outbox) : /\ outbox[i].id \in Int
                                   /\ outbox[i].kind # "reset"
                                   /\ Delivers(outbox, i) => outbox[i].id <= sentCursor
      /\ WireOK(outbox, committed, HighWater(queue))
      /\ Pending(batch, sentCursor, HighWater(queue))
  BY <1>1, WriterDrains, Zenon
<1>3. /\ batch \in [reset : BOOLEAN, high : Int, deliveries : SUBSET Delivery]
      /\ Unbroken(batch.deliveries, sentCursor)
      /\ \A r \in batch.deliveries : r.id <= HighWater(queue)
      /\ batch.high <= HighWater(queue)
  BY <1>2, Zenon DEF Pending
<1>4. batch.deliveries \in SUBSET Delivery
  BY <1>3, Zenon
<1>5. PICK next : next = sentCursor + 1
  BY Zenon
<1>6. /\ id = next /\ \E r \in batch.deliveries : r.id = next
      /\ Unbroken({r \in batch.deliveries : r.id # next}, next)
  <2>1. PICK D : D = batch.deliveries
    BY Zenon
  <2>2. D \in SUBSET Delivery /\ D # {} /\ Unbroken(D, sentCursor) /\ sentCursor \in Nat
    BY <1>1, <1>2, <1>3, <1>4, <2>1
  <2>3. /\ Min(Ids(D)) = sentCursor + 1
        /\ \E r \in D : r.id = sentCursor + 1
        /\ Unbroken({r \in D : r.id # sentCursor + 1}, sentCursor + 1)
    BY <2>2, FirstOfUnbroken, Zenon
  <2> QED
    BY <1>5, <2>1, <2>3, Zenon
<1> HIDE DEF id
<1>7. next \in Nat /\ next <= HighWater(queue) /\ next - 1 = sentCursor
  BY <1>2, <1>3, <1>5, <1>6
<1>8. PICK f : f = Frame("delivery", next)
  BY Zenon
<1>9. f \in Wire /\ f.kind = "delivery" /\ f.id = next
  BY <1>7, <1>8, FrameTyped, SMTT(30)
<1>10. WireOK(Append(outbox, f), committed, HighWater(queue))
  <2>1. f.id <= HighWater(queue) /\ Reached(outbox, committed, f.id - 1)
    BY <1>2, <1>7, <1>9, Zenon
  <2> QED
    BY <1>2, <1>9, <2>1, WireAppend, Zenon
<1>11. WireOK(outbox', committed', HighWater(queue')) /\ outbox' = Append(outbox, f)
  BY <1>1, <1>6, <1>8, <1>10, Zenon
<1>12. /\ Len(outbox') = Len(outbox) + 1 /\ outbox'[Len(outbox) + 1] = f
       /\ \A i \in 1..Len(outbox) : outbox'[i] = outbox[i]
       /\ Len(outbox) \in Nat
  <2>1. outbox \in Seq(Wire)
    BY <1>2, WireTyped, Zenon
  <2> QED
    BY <1>9, <1>11, <2>1, WireLonger, Zenon
<1>13. Reached(outbox', committed', next)
  BY <1>9, <1>12 DEF Reached, Delivers
<1>14. \A i \in 1..Len(outbox') : /\ outbox'[i].kind # "reset"
                                  /\ Delivers(outbox', i) => outbox'[i].id <= next
  <2>1. ASSUME NEW i \in 1..Len(outbox')
        PROVE  /\ outbox'[i].kind # "reset"
               /\ Delivers(outbox', i) => outbox'[i].id <= next
    <3>1. CASE i = Len(outbox) + 1
      BY <1>7, <1>9, <1>12, <3>1
    <3>2. CASE i \in 1..Len(outbox)
      BY <1>2, <1>5, <1>12, <3>2 DEF Delivers
    <3> QED
      BY <1>12, <3>1, <3>2
  <2> QED
    BY <2>1, Zenon
<1>15. Pending(batch', next, HighWater(queue))
  <2>1. PICK rest : rest = {r \in batch.deliveries : r.id # next}
    BY Zenon
  <2>2. batch' = [reset |-> batch.reset, high |-> batch.high, deliveries |-> rest]
    BY <1>1, <1>3, <1>6, <2>1, Zenon
  <2>3. rest \in SUBSET Delivery /\ \A r \in rest : r.id <= HighWater(queue)
    BY <1>3, <1>4, <2>1
  <2>4. Unbroken(rest, next)
    BY <1>6, <2>1, Zenon
  <2>5. ~batch.reset
    BY <1>1, <1>2, Zenon DEF Pending
  <2> QED
    BY <1>3, <2>2, <2>3, <2>4, <2>5 DEF Pending
<1>16. WriterOK(outbox', Asked', cursorInitialized', sentCursor', batch', committed',
                recovery' # 0, HighWater(queue'))
  <2>1. ~Asked' /\ cursorInitialized' /\ sentCursor' = next /\ ~(recovery' # 0)
    BY <1>1, <1>2, <1>6, Zenon DEF Asked
  <2>2. committed' <= next
    BY <1>1, <1>2, <1>5
  <2> QED
    BY <1>1, <1>7, <1>13, <1>14, <1>15, <2>1, <2>2, SMTT(30) DEF WriterOK
<1> QED
  BY <1>1, <1>11, <1>16, Zenon DEF Inv, Asked

\* The marker is written when the cursor has reached the high-water mark of
\* the last batch.
LEMMA SendCaughtUpKeeps ==
    ASSUME Inv, SendCaughtUp
    PROVE  Inv'
<1>1. /\ Draining /\ sentCursor >= batch.high
      /\ outbox' = Append(outbox, Frame("caughtUp", batch.high)) /\ batch' = NoBatch
      /\ UNCHANGED <<queue, inbox, resumeRequests, cursorInitialized, sentCursor, gapReported,
                     committed, recovery>>
  BY Zenon DEF SendCaughtUp, Drained, Send, clientVars
<1>2. /\ cursorInitialized /\ ~Asked /\ recovery = 0
      /\ committed \in Nat /\ sentCursor \in Nat /\ HighWater(queue) \in Int
      /\ committed <= sentCursor /\ sentCursor <= HighWater(queue)
      /\ Reached(outbox, committed, sentCursor)
      /\ \A i \in 1..Len(outbox) : /\ outbox[i].id \in Int
                                   /\ outbox[i].kind # "reset"
                                   /\ Delivers(outbox, i) => outbox[i].id <= sentCursor
      /\ WireOK(outbox, committed, HighWater(queue))
      /\ Pending(batch, sentCursor, HighWater(queue))
  BY <1>1, WriterDrains, Zenon
<1>3. batch.high \in Int
  BY <1>2, Zenon DEF Pending
<1>4. PICK f : f = Frame("caughtUp", batch.high)
  BY Zenon
<1>5. f \in Wire /\ f.kind = "caughtUp" /\ f.id = batch.high
  BY <1>3, <1>4, FrameTyped
<1>6. \/ f.id <= committed
      \/ \E j \in 1..Len(outbox) : Delivers(outbox, j) /\ f.id <= outbox[j].id
  <2>1. f.id \in Int /\ f.id <= sentCursor
    BY <1>1, <1>2, <1>3, <1>5, ZenonT(30)
  <2>2. CASE sentCursor <= committed
    BY <1>2, <2>1, <2>2
  <2>3. CASE \E j \in 1..Len(outbox) : Delivers(outbox, j) /\ outbox[j].id = sentCursor
    BY <2>1, <2>3, Zenon
  <2>4. \/ sentCursor <= committed
        \/ \E j \in 1..Len(outbox) : Delivers(outbox, j) /\ outbox[j].id = sentCursor
    BY <1>2, Zenon DEF Reached
  <2> QED
    BY <2>2, <2>3, <2>4, Zenon
<1>7. WireOK(Append(outbox, f), committed, HighWater(queue))
  BY <1>2, <1>5, <1>6, WireAppend, Zenon
<1>8. outbox' = Append(outbox, f)
  BY <1>1, <1>4, Zenon
<1>9. /\ Len(outbox') = Len(outbox) + 1 /\ outbox'[Len(outbox) + 1] = f
      /\ \A i \in 1..Len(outbox) : outbox'[i] = outbox[i]
      /\ Len(outbox) \in Nat
  <2>1. outbox \in Seq(Wire)
    BY <1>2, WireTyped, Zenon
  <2> QED
    BY <1>5, <1>8, <2>1, WireLonger, Zenon
<1>10. Reached(outbox', committed', sentCursor')
  BY <1>1, <1>2, <1>9 DEF Reached, Delivers
<1>11. \A i \in 1..Len(outbox') : /\ outbox'[i].kind # "reset"
                                  /\ Delivers(outbox', i) => outbox'[i].id <= sentCursor
  <2>1. ASSUME NEW i \in 1..Len(outbox')
        PROVE  /\ outbox'[i].kind # "reset"
               /\ Delivers(outbox', i) => outbox'[i].id <= sentCursor
    <3>1. CASE i = Len(outbox) + 1
      BY <1>5, <1>9, <3>1 DEF Delivers
    <3>2. CASE i \in 1..Len(outbox)
      BY <1>2, <1>9, <3>2, SMTT(30) DEF Delivers
    <3> QED
      BY <1>9, <3>1, <3>2
  <2> QED
    BY <2>1, Zenon
<1>12. Pending(NoBatch, sentCursor, HighWater(queue))
  BY <1>2, SMTT(30) DEF Pending, NoBatch, Unbroken
<1>13. WriterOK(outbox', Asked', cursorInitialized', sentCursor', batch', committed',
                recovery' # 0, HighWater(queue'))
  BY <1>1, <1>2, <1>10, <1>11, <1>12, ZenonT(30) DEF WriterOK, Asked
<1> QED
  BY <1>1, <1>7, <1>8, <1>13, Zenon DEF Inv, Asked

-----------------------------------------------------------------------------
\* The recipient's steps.

\* The client takes the first frame from the wire: the writer loop has still
\* sent what the client commits up to its cursor.
LEMMA WriterTail ==
    ASSUME NEW out \in Seq(Wire), out # <<>>, NEW c \in Nat, NEW d \in Nat, c <= d,
           out[1].kind = "delivery" => out[1].id <= d,
           d = c \/ (out[1].kind = "delivery" /\ d = out[1].id),
           NEW init, NEW sent, NEW b, NEW open, NEW high,
           WriterOK(out, FALSE, init, sent, b, c, open, high)
    PROVE  WriterOK(Tail(out), FALSE, init, sent, b, d, open, high)
<1>1. PICK new : new = Tail(out)
  BY Zenon
<1>2. /\ Len(out) \in Nat \ {0} /\ Len(new) = Len(out) - 1
      /\ \A i \in 1..Len(new) : i + 1 \in 1..Len(out) /\ new[i] = out[i + 1]
      /\ 1 \in 1..Len(out)
  BY <1>1
<1>3. ~open /\ sent \in Nat
  BY Zenon DEF WriterOK
<1>4. ASSUME init
      PROVE  /\ d <= sent /\ Reached(new, d, sent)
             /\ \A i \in 1..Len(new) : /\ new[i].kind # "reset"
                                       /\ Delivers(new, i) => new[i].id <= sent
  <2>1. /\ c <= sent /\ Reached(out, c, sent)
        /\ \A i \in 1..Len(out) : /\ out[i].kind # "reset"
                                  /\ Delivers(out, i) => out[i].id <= sent
    BY <1>4, Zenon DEF WriterOK
  <2>2. d <= sent
    BY <1>2, <2>1, Zenon DEF Delivers
  <2>3. \A i \in 1..Len(new) : /\ new[i].kind # "reset"
                               /\ Delivers(new, i) => new[i].id <= sent
    BY <1>2, <2>1, Zenon DEF Delivers
  <2>4. CASE sent <= c
    BY <1>3, <2>2, <2>3, <2>4, SMTT(30) DEF Reached
  <2>5. ASSUME NEW i \in 1..Len(out), Delivers(out, i), out[i].id = sent
        PROVE  Reached(new, d, sent)
    <3>1. CASE i = 1
      BY <2>5, <3>1, Zenon DEF Reached, Delivers
    <3>2. CASE i # 1
      <4>1. i - 1 \in 1..Len(new) /\ (i - 1) + 1 = i
        BY <1>2, <3>2
      <4>2. new[i - 1] = out[i]
        BY <1>2, <4>1, Zenon
      <4> QED
        BY <2>5, <4>1, <4>2, Zenon DEF Reached, Delivers
    <3> QED
      BY <3>1, <3>2, Zenon
  <2> QED
    BY <2>1, <2>2, <2>3, <2>4, <2>5, ZenonT(30) DEF Reached
<1>5. WriterOK(new, FALSE, init, sent, b, d, open, high)
  BY <1>3, <1>4, Zenon DEF WriterOK
<1> QED
  BY <1>1, <1>5, Zenon

\* What the recipient knows of a wire with a frame on it.
LEMMA WireWaits ==
    ASSUME Inv, outbox # <<>>
    PROVE  /\ outbox \in Seq(Wire) /\ Head(outbox) = outbox[1] /\ outbox[1].id \in Int
           /\ 1 \in 1..Len(outbox)
           /\ ~Asked /\ recovery = 0 /\ resumeRequests = <<>> /\ ~Asks(inbox)
           /\ committed \in Nat /\ HighWater(queue) \in Int
           /\ outbox[1].kind = "delivery" =>
                  outbox[1].id <= committed + 1 /\ outbox[1].id <= HighWater(queue)
           /\ outbox[1].kind = "caughtUp" => outbox[1].id <= committed
           /\ outbox[1].kind = "reset" =>
                  /\ Tail(outbox) = <<>> /\ ~cursorInitialized
                  /\ committed <= outbox[1].id /\ outbox[1].id <= HighWater(queue)
<1>1. WireOK(outbox, committed, HighWater(queue))
  BY Zenon DEF Inv
<1>2. outbox \in Seq(Wire) /\ \A i \in 1..Len(outbox) : outbox[i].id \in Int
  BY <1>1, WireTyped, Zenon
<1>3. Head(outbox) = outbox[1] /\ 1 \in 1..Len(outbox) /\ 1..(1 - 1) = {}
  BY <1>2
<1>4. committed \in Nat /\ HighWater(queue) \in Int
  BY DEF Inv, CursorsOK, Good, Queue, HighWater
<1>5. ~Asked /\ recovery = 0
  BY Zenon DEF Inv, WriterOK
<1>6. /\ outbox[1].kind = "delivery" =>
              outbox[1].id <= committed + 1 /\ outbox[1].id <= HighWater(queue)
      /\ outbox[1].kind = "caughtUp" => outbox[1].id <= committed
  BY <1>1, <1>3, Zenon DEF WireOK, Delivers
<1>7. outbox[1].kind = "reset" =>
          /\ 1 = Len(outbox) /\ ~cursorInitialized
          /\ committed <= outbox[1].id /\ outbox[1].id <= HighWater(queue)
  BY <1>1, <1>3, Zenon DEF WireOK, Inv, WriterOK
<1>8. 1 = Len(outbox) => Tail(outbox) = <<>>
  <2>1. PICK t : t = Tail(outbox)
    BY Zenon
  <2>2. t \in Seq(Wire) /\ Len(t) = Len(outbox) - 1
    BY <1>2, <2>1
  <2>3. t # <<>> => Len(t) # 0
    BY <2>2, SMTT(30)
  <2> QED
    BY <2>1, <2>2, <2>3
<1> QED
  BY <1>2, <1>3, <1>4, <1>5, <1>6, <1>7, <1>8, SMTT(30) DEF Asked

\* The client commits a delivery, or skips one it has committed.
LEMMA ClientReceiveKeeps ==
    ASSUME Inv, ClientReceive
    PROVE  Inv'
<1>1. /\ outbox # <<>> /\ Head(outbox).kind = "delivery"
      /\ committed' = Larger(committed, Head(outbox).id) /\ outbox' = Tail(outbox)
      /\ UNCHANGED <<queue, inbox, resumeRequests, cursorInitialized, sentCursor, batch,
                     gapReported, recovery>>
  BY Zenon DEF ClientReceive, writerVars
<1>2. /\ outbox \in Seq(Wire) /\ Head(outbox) = outbox[1] /\ outbox[1].id \in Int
      /\ ~Asked /\ recovery = 0 /\ resumeRequests = <<>> /\ ~Asks(inbox)
      /\ committed \in Nat /\ HighWater(queue) \in Int
      /\ outbox[1].kind = "delivery" => outbox[1].id <= HighWater(queue)
  BY <1>1, WireWaits, Zenon
<1>3. /\ committed' \in Nat /\ committed <= committed' /\ outbox[1].id <= committed'
      /\ committed' = committed \/ committed' = outbox[1].id
  BY <1>1, <1>2, SMTT(30) DEF Larger
<1>4. CursorsOK(queue', committed', recovery')
  <2>1. queue.acked \in Int
    BY DEF Inv, CursorsOK, Good, Queue
  <2> QED
    BY <1>1, <1>2, <1>3, <2>1 DEF Inv, CursorsOK
<1>5. RequestsOK(inbox', resumeRequests', committed')
  BY <1>1, <1>2, <1>3, RequestsAdvance, Zenon DEF Inv
<1>6. WireOK(outbox', committed', HighWater(queue'))
  BY <1>1, <1>2, <1>3, WireTail, Zenon DEF Inv
<1>7. WriterOK(outbox', Asked', cursorInitialized', sentCursor', batch', committed',
               recovery' # 0, HighWater(queue'))
  <2>1. WriterOK(outbox, FALSE, cursorInitialized, sentCursor, batch, committed,
                 recovery # 0, HighWater(queue))
    BY Zenon DEF Inv, WriterOK
  <2>2. WriterOK(Tail(outbox), FALSE, cursorInitialized, sentCursor, batch, committed',
                 recovery # 0, HighWater(queue))
    BY <1>1, <1>2, <1>3, <2>1, WriterTail, ZenonT(30)
  <2>3. ~Asked'
    BY <1>1, <1>2, Zenon DEF Asked
  <2> QED
    BY <1>1, <2>2, <2>3, Zenon DEF WriterOK
<1> QED
  BY <1>1, <1>4, <1>5, <1>6, <1>7, Zenon DEF Inv

\* The client reads a marker.
LEMMA ClientCaughtUpKeeps ==
    ASSUME Inv, ClientCaughtUp
    PROVE  Inv'
<1>1. /\ outbox # <<>> /\ Head(outbox).kind = "caughtUp" /\ outbox' = Tail(outbox)
      /\ UNCHANGED <<queue, inbox, resumeRequests, cursorInitialized, sentCursor, batch,
                     gapReported, committed, recovery>>
  BY Zenon DEF ClientCaughtUp, writerVars, clientVars
<1>2. /\ outbox \in Seq(Wire) /\ Head(outbox) = outbox[1]
      /\ ~Asked /\ committed \in Nat /\ HighWater(queue) \in Int
  BY <1>1, WireWaits, Zenon
<1>3. outbox[1].kind # "delivery" /\ committed <= committed
  BY <1>1, <1>2, SMTT(30)
<1>4. WireOK(Tail(outbox), committed, HighWater(queue))
  BY <1>1, <1>2, <1>3, WireTail DEF Inv
<1>5. WriterOK(Tail(outbox), FALSE, cursorInitialized, sentCursor, batch, committed,
               recovery # 0, HighWater(queue))
  <2>1. WriterOK(outbox, FALSE, cursorInitialized, sentCursor, batch, committed,
                 recovery # 0, HighWater(queue))
    BY Zenon DEF Inv, WriterOK
  <2> QED
    BY <1>1, <1>2, <1>3, <2>1, WriterTail, ZenonT(30)
<1>6. WriterOK(outbox', Asked', cursorInitialized', sentCursor', batch', committed',
               recovery' # 0, HighWater(queue'))
  BY <1>1, <1>2, <1>5 DEF WriterOK, Asked
<1> QED
  BY <1>1, <1>4, <1>6, Zenon DEF Inv

\* The client reads a reset and opens a recovery; the wire is empty after it.
LEMMA ClientResetKeeps ==
    ASSUME Inv, ClientReset
    PROVE  Inv'
<1>1. /\ outbox # <<>> /\ Head(outbox).kind = "reset"
      /\ recovery' = Head(outbox).id /\ outbox' = Tail(outbox)
      /\ UNCHANGED <<queue, inbox, resumeRequests, cursorInitialized, sentCursor, batch,
                     gapReported, committed>>
  BY Zenon DEF ClientReset, writerVars
<1>2. /\ Head(outbox) = outbox[1] /\ outbox[1].id \in Int
      /\ ~Asked /\ Tail(outbox) = <<>> /\ ~cursorInitialized
      /\ committed <= outbox[1].id /\ outbox[1].id <= HighWater(queue)
  BY <1>1, WireWaits, Zenon
<1>3. CursorsOK(queue', committed', recovery')
  BY <1>1, <1>2, Zenon DEF Inv, CursorsOK
<1>4. WireOK(outbox', committed', HighWater(queue'))
  BY <1>1, <1>2, EmptyWire, Zenon
<1>5. WriterOK(outbox', Asked', cursorInitialized', sentCursor', batch', committed',
               recovery' # 0, HighWater(queue'))
  BY <1>1, <1>2, Zenon DEF Inv, WriterOK, Asked
<1> QED
  BY <1>1, <1>3, <1>4, <1>5, SMTT(30) DEF Inv

\* The client acknowledges its cursor.
LEMMA ClientAcknowledgeKeeps ==
    ASSUME Inv, ClientAcknowledge
    PROVE  Inv'
<1>1. /\ inbox' = Append(inbox, Frame("ack", committed))
      /\ UNCHANGED <<queue, outbox, resumeRequests, cursorInitialized, sentCursor, batch,
                     gapReported, committed, recovery>>
  BY Zenon DEF ClientAcknowledge, writerVars, clientVars
<1>2. committed \in Nat /\ RequestsOK(inbox, resumeRequests, committed)
  BY Zenon DEF Inv, CursorsOK
<1>3. RequestsOK(inbox', resumeRequests', committed') /\ (Asks(inbox') <=> Asks(inbox))
  <2>1. PICK f : f = Frame("ack", committed)
    BY Zenon
  <2>2. f \in Message /\ f.id = committed /\ f.kind = "ack"
    BY <1>2, <2>1, Zenon DEF Frame, Message
  <2> QED
    BY <1>1, <1>2, <2>1, <2>2, RequestsAppend
<1>4. WriterOK(outbox', Asked', cursorInitialized', sentCursor', batch', committed',
               recovery' # 0, HighWater(queue'))
  BY <1>1, <1>3, Zenon DEF Inv, WriterOK, Asked
<1> QED
  BY <1>1, <1>3, <1>4, Zenon DEF Inv

\* The client finishes a recovery and asks to resume from its mark.
LEMMA ClientReconcileKeeps ==
    ASSUME Inv, ClientReconcile
    PROVE  Inv'
<1>1. /\ recovery # 0 /\ committed' = recovery /\ recovery' = 0
      /\ inbox' = Append(inbox, Frame("resume", recovery))
      /\ UNCHANGED <<queue, outbox, resumeRequests, cursorInitialized, sentCursor, batch,
                     gapReported>>
  BY Zenon DEF ClientReconcile, writerVars
<1>2. /\ committed \in Nat /\ recovery \in Nat /\ committed <= recovery
      /\ recovery <= HighWater(queue)
  BY <1>1 DEF Inv, CursorsOK
<1>3. outbox = <<>> /\ ~Asked /\ ~cursorInitialized
  BY <1>1, Zenon DEF Inv, WriterOK
<1>4. resumeRequests = <<>> /\ ~Asks(inbox)
  BY <1>3, Zenon DEF Asked
<1>5. RequestsOK(inbox, <<>>, recovery)
  BY <1>2, <1>4, RequestsAdvance, ZenonT(30) DEF Inv
<1>6. RequestsOK(inbox', resumeRequests', committed')
  <2>1. PICK f : f = Frame("resume", recovery)
    BY Zenon
  <2>2. f \in Message /\ f.id = recovery
    BY <1>2, <2>1, Zenon DEF Frame, Message
  <2> QED
    BY <1>1, <1>2, <1>4, <1>5, <2>1, <2>2, RequestsAppend, SMTT(30)
<1>7. CursorsOK(queue', committed', recovery')
  <2>1. queue.acked \in Int
    BY DEF Inv, CursorsOK, Good, Queue
  <2> QED
    BY <1>1, <1>2, <2>1 DEF Inv, CursorsOK
<1>8. WireOK(outbox', committed', HighWater(queue'))
  BY <1>1, <1>3, EmptyWire, Zenon
<1>9. WriterOK(outbox', Asked', cursorInitialized', sentCursor', batch', committed',
               recovery' # 0, HighWater(queue'))
  BY <1>1, <1>3, Zenon DEF Inv, WriterOK
<1> QED
  BY <1>1, <1>6, <1>7, <1>8, <1>9 DEF Inv

-----------------------------------------------------------------------------
\* The invariant and what follows from it.

\* Nothing is stored, sent or committed at first.
LEMMA InitInv == Init => Inv
<1>1. SUFFICES ASSUME Init PROVE Inv
  BY Zenon
<1>2. queue \in Queue /\ IsFiniteSet(queue.rows) /\ queue.acked = 0 /\ HighWater(queue) = 0
  BY <1>1, QueueAssumption, FS_EmptySet, SMTT(30) DEF Init, EmptyQueue, Queue, HighWater
<1>3. Complete(queue)
  BY <1>1 DEF Init, EmptyQueue, Complete, Floor, Larger, HighWater, Ids
<1>4. CursorsOK(queue, committed, recovery)
  BY <1>1, <1>2, <1>3 DEF Init, CursorsOK, Good
<1>5. RequestsOK(inbox, resumeRequests, committed) /\ ~Asked
  BY <1>1, NoRequests, Zenon DEF Init, Asked
<1>6. WireOK(outbox, committed, HighWater(queue))
  BY <1>1, EmptyWire, Zenon DEF Init
<1>7. WriterOK(outbox, Asked, cursorInitialized, sentCursor, batch, committed,
               recovery # 0, HighWater(queue))
  BY <1>1, <1>5, Zenon DEF Init, WriterOK
<1> QED
  BY <1>1, <1>4, <1>5, <1>6, <1>7 DEF Init, Inv

\* Every step of the server, its clients and their environment keeps it.
LEMMA NextInv == Inv /\ [Next]_vars => Inv'
<1>1. SUFFICES ASSUME Inv, [Next]_vars PROVE Inv'
  BY Zenon
<1>2. CASE Tick \/ RouteDurableSignal \/ UNCHANGED vars
  BY <1>1, <1>2, OthersKeep, Zenon
<1>3. CASE Connect \/ Drop \/ Crash
  BY <1>1, <1>3, SessionsKeep, Zenon
<1>4. ASSUME NEW size \in Sizes, NEW expires \in Times, RouteDurableCommit(size, expires)
      PROVE  Inv'
  BY <1>1, <1>4, CommitKeeps, Zenon
<1>5. CASE Reader
  BY <1>1, <1>5, ReadResumeKeeps, ReadAcknowledgeKeeps DEF Reader
<1>6. CASE Writer
  BY <1>1, <1>6, TakeResumeKeeps, TakeWakeKeeps, SendResetKeeps, SendDeliveryKeeps, SMTT(30),
     SendCaughtUpKeeps, ReadOnKeeps DEF Writer
<1>7. CASE Client
  BY <1>1, <1>7, ClientReceiveKeeps, ClientCaughtUpKeeps, ClientResetKeeps,
     ClientReconcileKeeps DEF Client
<1>8. CASE ClientAcknowledge
  BY <1>1, <1>8, ClientAcknowledgeKeeps, Zenon
<1> QED
  BY <1>1, <1>2, <1>3, <1>4, <1>5, <1>6, <1>7, <1>8, ZenonT(30) DEF Next

\* The invariant gives the properties.
LEMMA InvSuffices ==
    Inv => NoSilentGap /\ CaughtUpIsTrue /\ NoUnreportedGap /\ CursorsAreCommitted
<1>1. SUFFICES ASSUME Inv
               PROVE  NoSilentGap /\ CaughtUpIsTrue /\ NoUnreportedGap /\ CursorsAreCommitted
  BY Zenon
<1>2. NoSilentGap
  BY <1>1, WireWaits, Zenon DEF NoSilentGap
<1>3. CaughtUpIsTrue
  BY <1>1, WireWaits, Zenon DEF CaughtUpIsTrue
<1>4. NoUnreportedGap
  BY <1>1, Zenon DEF Inv, NoUnreportedGap
<1>5. CursorsAreCommitted
  <2>1. RequestsOK(inbox, resumeRequests, committed)
    BY <1>1, Zenon DEF Inv
  <2>2. queue.acked <= committed /\ committed <= HighWater(queue)
    BY <1>1, Zenon DEF Inv, CursorsOK
  <2>3. \A i \in DOMAIN inbox : inbox[i].id <= committed
    BY <2>1 DEF RequestsOK
  <2>4. \A i \in DOMAIN resumeRequests : resumeRequests[i] <= committed
    <3>1. resumeRequests \in Seq(Nat) /\ Len(resumeRequests) <= 1 /\ committed \in Nat
      BY <1>1, <2>1, Zenon DEF RequestsOK, Inv, CursorsOK
    <3>2. \A i \in DOMAIN resumeRequests : i = 1 /\ resumeRequests # <<>>
      BY <3>1
    <3> QED
      BY <2>1, <3>1, <3>2, SMTT(30) DEF RequestsOK
  <2> QED
    BY <2>2, <2>3, <2>4, Zenon DEF CursorsAreCommitted
<1> QED
  BY <1>2, <1>3, <1>4, <1>5

-----------------------------------------------------------------------------
\* The recipient's history: what is published, lost and committed.

\* A reset on the wire finds, when its turn comes, a client below a recorded
\* gap and below the mark it names.
ResetsOK(out, c, lost) ==
    \A i \in 1..Len(out) : out[i].kind = "reset" =>
        /\ c < lost /\ c < out[i].id
        /\ \A j \in 1..(i - 1) : Delivers(out, j) => out[j].id < lost /\ out[j].id < out[i].id

\* Wherever a reset is (in the writer loop's hands, on the wire or being
\* reconciled), the store had to give up a delivery the client has not reached.
NeededInv ==
    /\ ResetsOK(outbox, committed, queue.unavailable)
    /\ batch.reset => sentCursor < queue.unavailable /\ sentCursor < batch.high
    /\ recovery # 0 => committed < queue.unavailable /\ committed < recovery

\* No transaction takes back a recorded gap, and none records one beyond what
\* was published before it: RouteDurable publishes one delivery, everything
\* else none, and no transaction moves the client.
LEMMA HistoryMoves ==
    ASSUME Inv, [Next]_vars
    PROVE  /\ queue.unavailable \in Int /\ queue'.unavailable \in Int
           /\ HighWater(queue) \in Int /\ HighWater(queue') \in Int
           /\ queue.unavailable <= queue'.unavailable
           /\ queue'.unavailable <= HighWater(queue)
           /\ HighWater(queue') \in {HighWater(queue), HighWater(queue) + 1}
           /\ queue' # queue => committed' = committed
<1>1. Good(queue) /\ IsFiniteSet(queue.rows) /\ Good(queue')
  BY NextInv, Zenon DEF Inv, CursorsOK
<1>2. /\ queue.unavailable \in Int /\ queue'.unavailable \in Int
      /\ queue.next \in Int /\ queue'.next \in Int
      /\ queue.acked \in Int /\ queue'.acked \in Int
  BY <1>1 DEF Good, Queue
<1>3. queue.unavailable <= HighWater(queue) /\ queue'.unavailable <= HighWater(queue')
  BY <1>1, <1>2 DEF Good, Complete, Floor, Larger, HighWater
<1> DEFINE Moves == /\ queue.unavailable <= queue'.unavailable
                    /\ queue'.unavailable <= HighWater(queue)
                    /\ HighWater(queue') \in {HighWater(queue), HighWater(queue) + 1}
                    /\ queue' # queue => committed' = committed
<1>4. ASSUME Shrunk(queue', queue), committed' = committed PROVE Moves
  BY <1>2, <1>3, <1>4 DEF Shrunk, HighWater
<1>5. ASSUME queue' = queue PROVE Moves
  BY <1>2, <1>3, <1>5
<1>6. ASSUME NEW size \in Sizes, NEW expires \in Times, RouteDurableCommit(size, expires)
      PROVE  Moves
  <2>1. /\ queue' = AppendDelivery(queue, size, expires, now) /\ queue.next # MaxInt64
        /\ committed' = committed
    BY <1>6, Zenon DEF RouteDurableCommit, CanAppend, clientVars
  <2>2. queue'.next = queue.next + 1 /\ queue'.unavailable >= queue.unavailable
    BY <1>1, <2>1, AppendKeeps
  <2>3. queue'.unavailable <= HighWater(queue)
    BY <1>1, <2>1, AppendLoses, Zenon
  <2> QED
    BY <1>2, <2>1, <2>2, <2>3 DEF HighWater
<1>7. ASSUME ReadAcknowledge PROVE Moves
  <2>1. /\ inbox # <<>> /\ CanAcknowledge(queue, Head(inbox).id)
        /\ queue' = AcknowledgeDelivery(queue, Head(inbox).id) /\ committed' = committed
    BY <1>7, Zenon DEF ReadAcknowledge, clientVars
  <2>2. Head(inbox).id \in Nat
    BY <2>1, RequestsTail, Zenon DEF Inv, CursorsOK
  <2> QED
    BY <1>1, <1>4, <2>1, <2>2, AcknowledgeDeliveryKeeps, ZenonT(30)
<1>8. ASSUME TakeResume PROVE Moves
  <2>1. /\ resumeRequests # <<>> /\ CanResume(queue, Head(resumeRequests))
        /\ queue' = ResumeDeliveries(queue, Head(resumeRequests), now)
        /\ committed' = committed
    BY <1>8, Zenon DEF TakeResume, clientVars
  <2>2. Head(resumeRequests) \in Nat
    <3>1. resumeRequests \in Seq(Nat)
      BY Zenon DEF Inv, RequestsOK
    <3> QED
      BY <2>1, <3>1
  <2> QED
    BY <1>1, <1>4, <2>1, <2>2, ResumeKeeps, ZenonT(30)
<1>9. ASSUME TakeWake \/ ReadOn PROVE Moves
  <2>1. queue' = queue \/ queue' = compactExpiredDeliveries(queue, now)
    BY <1>9, Zenon DEF TakeWake, ReadOn, ReadDeliveries
  <2>2. committed' = committed
    BY <1>9, Zenon DEF TakeWake, ReadOn, clientVars
  <2> QED
    BY <1>1, <1>4, <1>5, <2>1, <2>2, CompactKeeps, ZenonT(30)
<1>10. ASSUME \/ Tick \/ RouteDurableSignal \/ UNCHANGED vars \/ Connect \/ Drop \/ Crash
              \/ ReadResume \/ SendReset \/ SendDelivery \/ SendCaughtUp
              \/ Client \/ ClientAcknowledge
       PROVE  Moves
  <2>1. queue' = queue
    BY <1>10, Zenon DEF Tick, RouteDurableSignal, vars, Connect, Drop, Crash, ReadResume,
       SendReset, SendDelivery, SendCaughtUp, Client, ClientReceive, ClientCaughtUp,
       ClientReset, ClientReconcile, ClientAcknowledge
  <2> QED
    BY <1>5, <2>1, Zenon
<1>11. Moves
  BY <1>6, <1>7, <1>8, <1>9, <1>10, ZenonT(30) DEF Next, Reader, Writer
<1>12. HighWater(queue) \in Int /\ HighWater(queue') \in Int
  BY <1>2 DEF HighWater
<1> QED
  BY <1>2, <1>11, <1>12, Zenon

\* A wire without a reset owes nothing.
LEMMA NoResets ==
    ASSUME NEW out, \A i \in 1..Len(out) : out[i].kind # "reset", NEW c, NEW lost
    PROVE  ResetsOK(out, c, lost)
  BY Zenon DEF ResetsOK

\* A recorded gap only grows, so a reset stays needed.
LEMMA ResetsGrow ==
    ASSUME NEW out \in Seq(Wire), NEW c \in Nat, NEW lost \in Int, NEW more \in Int,
           lost <= more, ResetsOK(out, c, lost)
    PROVE  ResetsOK(out, c, more)
<1>1. \A i \in 1..Len(out) : out[i].id \in Int
  <2>1. \A i \in 1..Len(out) : out[i] \in Wire
    OBVIOUS
  <2> QED
    BY <2>1, Zenon DEF Wire
<1>2. ASSUME NEW i \in 1..Len(out), out[i].kind = "reset"
      PROVE  /\ c < more /\ c < out[i].id
             /\ \A j \in 1..(i - 1) :
                    Delivers(out, j) => out[j].id < more /\ out[j].id < out[i].id
  <2>1. c < lost /\ c < out[i].id
    BY <1>2, Zenon DEF ResetsOK
  <2>2. ASSUME NEW j \in 1..(i - 1), Delivers(out, j)
        PROVE  out[j].id < more /\ out[j].id < out[i].id
    <3>1. out[j].id < lost /\ out[j].id < out[i].id
      BY <1>2, <2>2, Zenon DEF ResetsOK
    <3>2. j \in 1..Len(out)
      OBVIOUS
    <3> QED
      BY <1>1, <3>1, <3>2
  <2> QED
    BY <2>1, <2>2
<1> QED
  BY <1>2, Zenon DEF ResetsOK

\* The client takes the first frame from the wire: what it commits by that is
\* still below the gap of a reset further on.
LEMMA ResetsTail ==
    ASSUME NEW out \in Seq(Wire), out # <<>>, NEW c, NEW d, NEW lost,
           d = c \/ (out[1].kind = "delivery" /\ d = out[1].id),
           ResetsOK(out, c, lost)
    PROVE  ResetsOK(Tail(out), d, lost)
<1>1. PICK new : new = Tail(out)
  BY Zenon
<1>2. /\ Len(out) \in Nat \ {0} /\ Len(new) = Len(out) - 1
      /\ \A i \in 1..Len(new) : i + 1 \in 1..Len(out) /\ new[i] = out[i + 1]
  BY <1>1
<1>3. ASSUME NEW i \in 1..Len(new), new[i].kind = "reset"
      PROVE  /\ d < lost /\ d < new[i].id
             /\ \A j \in 1..(i - 1) :
                    Delivers(new, j) => new[j].id < lost /\ new[j].id < new[i].id
  <2>1. PICK k \in 1..Len(out) : k = i + 1 /\ new[i] = out[k]
    BY <1>2, Zenon
  <2>2. /\ c < lost /\ c < out[k].id
        /\ \A j \in 1..(k - 1) : Delivers(out, j) => out[j].id < lost /\ out[j].id < out[k].id
    BY <1>3, <2>1, Zenon DEF ResetsOK
  <2>3. 1 \in 1..(k - 1) /\ \A j \in 1..(i - 1) : j + 1 \in 1..(k - 1) /\ j \in 1..Len(new)
    BY <1>2, <2>1
  <2>4. d < lost /\ d < out[k].id
    BY <2>2, <2>3, Zenon DEF Delivers
  <2>5. ASSUME NEW j \in 1..(i - 1), Delivers(new, j)
        PROVE  new[j].id < lost /\ new[j].id < new[i].id
    BY <1>2, <2>1, <2>2, <2>3, <2>5, ZenonT(30) DEF Delivers
  <2> QED
    BY <2>1, <2>4, <2>5, Zenon
<1>4. ResetsOK(new, d, lost)
  BY <1>3, Zenon DEF ResetsOK
<1> QED
  BY <1>1, <1>4, Zenon

\* A step that moves neither the frames, the batch nor the client.
LEMMA NeededStays ==
    ASSUME Inv, NeededInv, [Next]_vars,
           UNCHANGED <<outbox, batch, sentCursor, committed, recovery>>
    PROVE  NeededInv'
<1>1. /\ outbox \in Seq(Wire) /\ committed \in Nat /\ sentCursor \in Nat
  BY Zenon DEF Inv, CursorsOK, WireOK, WriterOK
<1>2. /\ queue.unavailable \in Int /\ queue'.unavailable \in Int
      /\ queue.unavailable <= queue'.unavailable
  BY HistoryMoves, Zenon
<1>3. ResetsOK(outbox, committed, queue'.unavailable)
  BY <1>1, <1>2, ResetsGrow, ZenonT(30) DEF NeededInv
<1>4. batch.reset => sentCursor < queue'.unavailable /\ sentCursor < batch.high
  BY <1>1, <1>2 DEF NeededInv
<1>5. recovery # 0 => committed < queue'.unavailable /\ committed < recovery
  BY <1>1, <1>2 DEF NeededInv
<1> QED
  BY <1>3, <1>4, <1>5, Zenon DEF NeededInv

\* A batch just read asks for a reset only below a recorded gap.
LEMMA NeededReads ==
    ASSUME Inv, NeededInv, [Next]_vars,
           UNCHANGED <<outbox, committed, recovery>>,
           recovery = 0, \A i \in 1..Len(outbox) : outbox[i].kind # "reset",
           batch'.reset => sentCursor' < queue'.unavailable,
           Continues(batch', sentCursor', queue'), sentCursor' \in Nat
    PROVE  NeededInv'
<1>1. ResetsOK(outbox', committed', queue'.unavailable)
  BY NoResets, Zenon
<1>2. Good(queue')
  BY NextInv, Zenon DEF Inv, CursorsOK
<1>3. /\ queue'.unavailable \in Int /\ batch'.high \in Int
      /\ queue'.unavailable <= batch'.high
  BY <1>2 DEF Continues, Good, Queue, Complete, Floor, Larger, HighWater
<1>4. batch'.reset => sentCursor' < batch'.high
  BY <1>3
<1> QED
  BY <1>1, <1>4, Zenon DEF NeededInv

\* The writer loop reads a batch, from a request to resume or from its cursor.
LEMMA NeededBatch ==
    ASSUME Inv, NeededInv, [Next]_vars, TakeResume \/ TakeWake \/ ReadOn
    PROVE  NeededInv'
<1>1. CASE TakeResume
  <2>1. /\ resumeRequests # <<>>
        /\ CanResume(queue, Head(resumeRequests))
        /\ queue' = ResumeDeliveries(queue, Head(resumeRequests), now)
        /\ batch' = ResumeBatch(queue, Head(resumeRequests), now)
        /\ sentCursor' = Head(resumeRequests)
        /\ UNCHANGED <<outbox, committed, recovery>>
    BY <1>1, Zenon DEF TakeResume, clientVars
  <2>2. /\ Good(queue) /\ IsFiniteSet(queue.rows) /\ committed \in Nat
        /\ queue.acked <= committed
        /\ RequestsOK(inbox, resumeRequests, committed)
    BY Zenon DEF Inv, CursorsOK
  <2>3. Head(resumeRequests) = committed
    BY <2>1, <2>2 DEF RequestsOK
  <2>4. outbox = <<>> /\ recovery = 0
    BY <2>1, Zenon DEF Inv, WriterOK, Asked
  <2>5. \A i \in 1..Len(outbox) : outbox[i].kind # "reset"
    BY <2>4
  <2>6. Continues(batch', committed, queue')
    BY <2>1, <2>2, <2>3, ResumeContinues, Zenon
  <2>7. batch'.reset => committed < queue'.unavailable
    BY <2>1, <2>2, <2>3, ResumeResets, Zenon
  <2> QED
    BY <2>1, <2>2, <2>3, <2>4, <2>5, <2>6, <2>7, NeededReads, ZenonT(30)
<1>2. ASSUME cursorInitialized,
             queue' = ReadDeliveries(queue, now), batch' = ReadBatch(queue, sentCursor, now),
             UNCHANGED <<outbox, sentCursor, committed, recovery>>
      PROVE  NeededInv'
  <2>1. /\ Good(queue) /\ IsFiniteSet(queue.rows) /\ committed \in Nat
        /\ queue.acked <= committed /\ queue.acked \in Int
    BY DEF Inv, CursorsOK, Good, Queue
  <2>2. /\ sentCursor \in Nat /\ committed <= sentCursor /\ recovery = 0
        /\ \A i \in 1..Len(outbox) : outbox[i].kind # "reset"
    BY <1>2, Zenon DEF Inv, WriterOK
  <2>3. queue.acked <= sentCursor
    BY <2>1, <2>2
  <2>4. Continues(batch', sentCursor, queue')
    BY <1>2, <2>1, <2>2, <2>3, ReadContinues, ZenonT(30)
  <2>5. batch'.reset => sentCursor < queue'.unavailable
    BY <1>2, ReadResets, Zenon
  <2> QED
    BY <1>2, <2>2, <2>4, <2>5, NeededReads, ZenonT(30)
<1>3. CASE TakeWake
  <2>1. UNCHANGED <<outbox, sentCursor, committed, recovery>>
    BY <1>3, Zenon DEF TakeWake, clientVars
  <2>2. CASE ~cursorInitialized
    <3>1. batch' = batch
      BY <1>3, <2>2, Zenon DEF TakeWake
    <3> QED
      BY <2>1, <3>1, NeededStays, Zenon
  <2>3. CASE cursorInitialized
    BY <1>2, <1>3, <2>1, <2>3, ZenonT(30) DEF TakeWake
  <2> QED
    BY <2>2, <2>3, Zenon
<1>4. CASE ReadOn
  <2>1. cursorInitialized
    BY <1>4, Zenon DEF ReadOn, Drained, Draining, Inv, WriterOK
  <2>2. ReadBatch(queue, sentCursor, now).deliveries = {}
          /\ ~ReadBatch(queue, sentCursor, now).reset
        => ~ (ReadBatch(queue, sentCursor, now).high > sentCursor)
    BY <2>1, WriterReads, Zenon
  <2>3. /\ queue' = ReadDeliveries(queue, now) /\ batch' = ReadBatch(queue, sentCursor, now)
        /\ UNCHANGED <<outbox, sentCursor, committed, recovery>>
    BY <1>4, <2>2, Zenon DEF ReadOn, clientVars
  <2> QED
    BY <1>2, <2>1, <2>3, Zenon
<1> QED
  BY <1>1, <1>3, <1>4, Zenon

\* The writer loop writes a frame: the reset goes to a client that is below
\* the gap and has nothing before it on the wire that leads across.
LEMMA NeededSends ==
    ASSUME Inv, NeededInv, SendReset \/ SendDelivery \/ SendCaughtUp
    PROVE  NeededInv'
<1>1. /\ Draining
      /\ UNCHANGED <<queue, committed, recovery>>
  BY Zenon DEF SendReset, SendDelivery, SendCaughtUp, Drained, clientVars
<1>2. /\ recovery = 0 /\ committed \in Nat /\ sentCursor \in Nat
      /\ committed <= sentCursor
      /\ \A i \in 1..Len(outbox) : /\ outbox[i].id \in Int
                                   /\ outbox[i].kind # "reset"
                                   /\ Delivers(outbox, i) => outbox[i].id <= sentCursor
      /\ outbox \in Seq(Wire)
      /\ Pending(batch, sentCursor, HighWater(queue))
  BY <1>1, WriterDrains, WireTyped, Zenon
<1>3. /\ batch \in [reset : BOOLEAN, high : Int, deliveries : SUBSET Delivery]
      /\ batch.reset => batch.deliveries = {}
  BY <1>2, Zenon DEF Pending
<1>4. ASSUME NEW f \in Wire, outbox' = Append(outbox, f)
      PROVE  /\ Len(outbox) \in Nat /\ Len(outbox') = Len(outbox) + 1
             /\ outbox'[Len(outbox) + 1] = f
             /\ \A i \in 1..Len(outbox) : outbox'[i] = outbox[i]
  BY <1>2, <1>4, WireLonger, Zenon
<1>5. ASSUME NEW f \in Wire, f.kind # "reset", outbox' = Append(outbox, f), ~batch'.reset
      PROVE  NeededInv'
  <2>1. \A i \in 1..Len(outbox') : i = Len(outbox) + 1 \/ i \in 1..Len(outbox)
    BY <1>4, <1>5
  <2>2. \A i \in 1..Len(outbox') : outbox'[i].kind # "reset"
    BY <1>2, <1>4, <1>5, <2>1, ZenonT(30)
  <2>3. ResetsOK(outbox', committed', queue'.unavailable)
    BY <2>2, NoResets, Zenon
  <2> QED
    BY <1>1, <1>2, <1>5, <2>3, ZenonT(30) DEF NeededInv
<1>6. CASE SendDelivery
  <2>1. PICK id : /\ id = Min(Ids(batch.deliveries))
                  /\ outbox' = Append(outbox, Frame("delivery", id)) /\ sentCursor' = id
    BY <1>6, Zenon DEF SendDelivery, Send
  <2>2. /\ batch.deliveries # {}
        /\ batch' = [batch EXCEPT !.deliveries = {r \in @ : r.id # id}]
    BY <1>6, <2>1, Zenon DEF SendDelivery
  <2>3. ~batch'.reset
    BY <1>3, <2>2, ZenonT(30)
  <2>4. id \in Int
    <3>1. PICK D : D = batch.deliveries
      BY Zenon
    <3>2. D \in SUBSET Delivery /\ D # {} /\ Unbroken(D, sentCursor)
      BY <1>2, <1>3, <2>2, <3>1, SMTT(30) DEF Pending
    <3>3. id = sentCursor + 1
      BY <1>2, <2>1, <3>1, <3>2, FirstOfUnbroken, ZenonT(30)
    <3> QED
      BY <1>2, <3>3
  <2>5. Frame("delivery", id) \in Wire /\ Frame("delivery", id).kind = "delivery"
    BY <2>4, FrameTyped, Zenon
  <2> QED
    BY <1>5, <2>1, <2>3, <2>5, ZenonT(30)
<1>7. CASE SendCaughtUp
  <2>1. outbox' = Append(outbox, Frame("caughtUp", batch.high)) /\ batch' = NoBatch
    BY <1>7, Zenon DEF SendCaughtUp, Send
  <2>2. Frame("caughtUp", batch.high) \in Wire /\ Frame("caughtUp", batch.high).kind = "caughtUp"
    BY <1>3, FrameTyped, Zenon
  <2>3. ~batch'.reset
    BY <2>1 DEF NoBatch
  <2> QED
    BY <1>5, <2>1, <2>2, <2>3, ZenonT(30)
<1>8. CASE SendReset
  <2>1. /\ batch.reset /\ outbox' = Append(outbox, Frame("reset", batch.high))
        /\ batch' = NoBatch
    BY <1>8, Zenon DEF SendReset, Send
  <2>2. PICK f \in Wire : f = Frame("reset", batch.high) /\ f.kind = "reset" /\ f.id = batch.high
    BY <1>3, FrameTyped, ZenonT(30)
  <2>3. /\ Len(outbox) \in Nat /\ Len(outbox') = Len(outbox) + 1
        /\ outbox'[Len(outbox) + 1] = f
        /\ \A i \in 1..Len(outbox) : outbox'[i] = outbox[i]
    BY <1>4, <2>1, <2>2, Zenon
  <2>4. /\ sentCursor < queue.unavailable /\ sentCursor < f.id
        /\ queue.unavailable \in Int /\ f.id \in Int
    BY <1>3, <2>1, <2>2, SMTT(30) DEF NeededInv, Inv, CursorsOK, Good, Queue
  <2>5. committed < queue.unavailable /\ committed < f.id
    BY <1>2, <2>4
  <2>6. ASSUME NEW j \in 1..Len(outbox), Delivers(outbox', j)
        PROVE  outbox'[j].id < queue.unavailable /\ outbox'[j].id < f.id
    <3>1. Delivers(outbox, j)
      BY <2>3, <2>6, Zenon DEF Delivers
    <3>2. outbox'[j].id \in Int /\ outbox'[j].id <= sentCursor
      BY <1>2, <2>3, <3>1, ZenonT(30)
    <3> QED
      BY <1>2, <2>4, <3>2
  <2>7. ASSUME NEW i \in 1..Len(outbox'), outbox'[i].kind = "reset"
        PROVE  i = Len(outbox) + 1 /\ i - 1 = Len(outbox)
    <3>1. i = Len(outbox) + 1 \/ i \in 1..Len(outbox)
      BY <2>3
    <3>2. i = Len(outbox) + 1
      BY <1>2, <2>3, <2>7, <3>1, ZenonT(30)
    <3> QED
      BY <2>3, <3>2
  <2>8. ResetsOK(outbox', committed', queue'.unavailable)
    BY <1>1, <2>3, <2>5, <2>6, <2>7, ZenonT(30) DEF ResetsOK
  <2>9. ~batch'.reset
    BY <2>1 DEF NoBatch
  <2> QED
    BY <1>1, <1>2, <2>8, <2>9, ZenonT(30) DEF NeededInv
<1> QED
  BY <1>6, <1>7, <1>8, Zenon

\* The client takes a frame or finishes its recovery.
LEMMA NeededClient ==
    ASSUME Inv, NeededInv, Client
    PROVE  NeededInv'
<1>1. UNCHANGED <<queue, batch, sentCursor>>
  BY Zenon DEF Client, ClientReceive, ClientCaughtUp, ClientReset, ClientReconcile, writerVars
<1>2. batch'.reset => sentCursor' < queue'.unavailable /\ sentCursor' < batch'.high
  BY <1>1, Zenon DEF NeededInv
<1>3. CASE ClientReceive \/ ClientCaughtUp
  <2>1. /\ outbox # <<>> /\ outbox' = Tail(outbox) /\ recovery' = recovery
        /\ \/ committed' = committed
           \/ Head(outbox).kind = "delivery" /\ committed' = Head(outbox).id
    BY <1>3, Zenon DEF ClientReceive, ClientCaughtUp, clientVars, Larger
  <2>2. outbox \in Seq(Wire) /\ Head(outbox) = outbox[1] /\ recovery = 0
    BY <2>1, WireWaits, Zenon
  <2>3. ResetsOK(outbox', committed', queue.unavailable)
    BY <2>1, <2>2, ResetsTail, Zenon DEF NeededInv
  <2> QED
    BY <1>1, <1>2, <2>1, <2>2, <2>3, ZenonT(30) DEF NeededInv
<1>4. CASE ClientReset
  <2>1. /\ outbox # <<>> /\ Head(outbox).kind = "reset" /\ recovery' = Head(outbox).id
        /\ outbox' = Tail(outbox) /\ committed' = committed
    BY <1>4, Zenon DEF ClientReset
  <2>2. Head(outbox) = outbox[1] /\ 1 \in 1..Len(outbox) /\ Tail(outbox) = <<>>
    BY <2>1, WireWaits, Zenon
  <2>3. committed < queue.unavailable /\ committed < outbox[1].id
    BY <2>1, <2>2, Zenon DEF NeededInv, ResetsOK
  <2>4. \A i \in 1..Len(outbox') : outbox'[i].kind # "reset"
    BY <2>1, <2>2
  <2>5. ResetsOK(outbox', committed', queue'.unavailable)
    BY <2>4, NoResets, Zenon
  <2> QED
    BY <1>1, <1>2, <2>1, <2>2, <2>3, <2>5, ZenonT(30) DEF NeededInv
<1>5. CASE ClientReconcile
  <2>1. recovery # 0 /\ recovery' = 0 /\ outbox' = outbox
    BY <1>5, Zenon DEF ClientReconcile
  <2>2. outbox = <<>>
    BY <2>1, Zenon DEF Inv, WriterOK
  <2>3. \A i \in 1..Len(outbox') : outbox'[i].kind # "reset"
    BY <2>1, <2>2
  <2>4. ResetsOK(outbox', committed', queue'.unavailable)
    BY <2>3, NoResets, Zenon
  <2> QED
    BY <1>2, <2>1, <2>4, Zenon DEF NeededInv
<1> QED
  BY <1>3, <1>4, <1>5, Zenon DEF Client

\* Every step keeps a reset needed.
LEMMA NextNeeded == Inv /\ NeededInv /\ [Next]_vars => NeededInv'
<1>1. SUFFICES ASSUME Inv, NeededInv, [Next]_vars PROVE NeededInv'
  BY Zenon
<1>2. CASE TakeResume \/ TakeWake \/ ReadOn
  BY <1>1, <1>2, NeededBatch, Zenon
<1>3. CASE SendReset \/ SendDelivery \/ SendCaughtUp
  BY <1>1, <1>3, NeededSends, Zenon
<1>4. CASE Client
  BY <1>1, <1>4, NeededClient, Zenon
<1>5. CASE Connect \/ Drop \/ Crash
  <2>1. /\ queue' = queue /\ committed' = committed /\ recovery' = recovery
        /\ outbox' = <<>> /\ batch' = NoBatch
    BY <1>5, Zenon DEF Connect, Drop, Crash, EndSession, FreshSession, clientVars
  <2>2. (\A i \in 1..Len(outbox') : outbox'[i].kind # "reset") /\ ~batch'.reset
    BY <2>1 DEF NoBatch
  <2>3. ResetsOK(outbox', committed', queue'.unavailable)
    BY <2>2, NoResets, Zenon
  <2> QED
    BY <1>1, <2>1, <2>2, <2>3, Zenon DEF NeededInv
<1>6. CASE \/ Tick \/ RouteDurableSignal \/ UNCHANGED vars \/ Reader \/ ClientAcknowledge
           \/ \E size \in Sizes, expires \in Times : RouteDurableCommit(size, expires)
  <2>1. UNCHANGED <<outbox, batch, sentCursor, committed, recovery>>
    BY <1>6, Zenon DEF Tick, RouteDurableSignal, vars, Reader, ReadResume, ReadAcknowledge,
       ClientAcknowledge, RouteDurableCommit, sessionVars, writerVars, clientVars
  <2> QED
    BY <1>1, <2>1, NeededStays, Zenon
<1> QED
  BY <1>1, <1>2, <1>3, <1>4, <1>5, <1>6, ZenonT(30) DEF Next, Writer

\* The client moves by the delivery after its cursor, or across a loss.
LEMMA ClientMoves ==
    ASSUME Inv, NeededInv, [Next]_vars, committed' # committed
    PROVE  /\ queue' = queue
           /\ \/ committed < HighWater(queue) /\ committed' = committed + 1
              \/ /\ committed < queue.unavailable
                 /\ committed' \in committed + 1 .. HighWater(queue)
<1>1. ClientReceive \/ ClientReconcile
  BY Zenon DEF Next, vars, Tick, Connect, Drop, Crash, RouteDurableCommit, RouteDurableSignal,
     Reader, ReadResume, ReadAcknowledge, Writer, TakeResume, TakeWake, SendReset,
     SendDelivery, SendCaughtUp, ReadOn, Client, ClientCaughtUp, ClientReset,
     ClientAcknowledge, clientVars
<1>2. queue' = queue
  BY <1>1, Zenon DEF ClientReceive, ClientReconcile
<1>3. CASE ClientReceive
  <2>1. /\ outbox # <<>> /\ Head(outbox).kind = "delivery"
        /\ committed' = Larger(committed, Head(outbox).id)
    BY <1>3, Zenon DEF ClientReceive
  <2>2. /\ Head(outbox) = outbox[1] /\ outbox[1].id \in Int
        /\ committed \in Nat /\ HighWater(queue) \in Int
        /\ outbox[1].id <= committed + 1 /\ outbox[1].id <= HighWater(queue)
    BY <2>1, WireWaits, Zenon
  <2>3. committed < HighWater(queue) /\ committed' = committed + 1
    BY <2>1, <2>2 DEF Larger
  <2> QED
    BY <1>2, <2>3, Zenon
<1>4. CASE ClientReconcile
  <2>1. recovery # 0 /\ committed' = recovery
    BY <1>4, Zenon DEF ClientReconcile
  <2>2. /\ committed \in Nat /\ recovery \in Int /\ recovery <= HighWater(queue)
        /\ committed < queue.unavailable /\ committed < recovery
        /\ HighWater(queue) \in Int
    BY <2>1 DEF Inv, CursorsOK, NeededInv, Good, Queue, HighWater
  <2>3. committed' \in committed + 1 .. HighWater(queue)
    BY <2>1, <2>2
  <2> QED
    BY <1>2, <2>2, <2>3, Zenon
<1> QED
  BY <1>1, <1>3, <1>4, Zenon

\* Every step of the session, its clients, its senders and their environment is a
\* step of the abstract history or leaves it alone.
LEMMA StepIsHistorys ==
    ASSUME Inv, NeededInv, [Next]_vars
    PROVE  [History!Next]_(History!vars)
<1>1. /\ queue.unavailable \in Int /\ queue'.unavailable \in Int
      /\ HighWater(queue) \in Int /\ HighWater(queue') \in Int
      /\ queue.unavailable <= queue'.unavailable
      /\ queue'.unavailable <= HighWater(queue)
      /\ HighWater(queue') \in {HighWater(queue), HighWater(queue) + 1}
  BY HistoryMoves, Zenon
<1>2. CASE committed' # committed
  <2>1. /\ queue' = queue
        /\ \/ committed < HighWater(queue) /\ committed' = committed + 1
           \/ /\ committed < queue.unavailable
              /\ committed' \in committed + 1 .. HighWater(queue)
    BY <1>2, ClientMoves, Zenon
  <2>2. History!Apply \/ History!Reconcile
    BY <2>1, Zenon DEF History!Apply, History!Reconcile
  <2> QED
    BY <2>2, Zenon DEF History!Next
<1>3. CASE committed' = committed /\ HighWater(queue') = HighWater(queue) + 1
  <2>1. queue'.unavailable \in queue.unavailable .. HighWater(queue)
    BY <1>1
  <2>2. History!Publish
    BY <1>3, <2>1, Zenon DEF History!Publish
  <2> QED
    BY <2>2, Zenon DEF History!Next
<1>4. CASE /\ committed' = committed /\ HighWater(queue') = HighWater(queue)
           /\ queue'.unavailable # queue.unavailable
  <2>1. queue'.unavailable \in queue.unavailable + 1 .. HighWater(queue)
    BY <1>1, <1>4
  <2>2. History!Lose
    BY <1>4, <2>1, Zenon DEF History!Lose
  <2> QED
    BY <2>2, Zenon DEF History!Next
<1>5. CASE /\ committed' = committed /\ HighWater(queue') = HighWater(queue)
           /\ queue'.unavailable = queue.unavailable
  BY <1>5, Zenon DEF History!vars
<1> QED
  BY <1>1, <1>2, <1>3, <1>4, <1>5, ZenonT(30)

\* Nothing is published, lost, committed or reset at first.
LEMMA InitHistory == Init => NeededInv /\ History!Init
<1>1. SUFFICES ASSUME Init PROVE NeededInv /\ History!Init
  BY Zenon
<1>2. /\ HighWater(queue) = 0 /\ queue.unavailable = 0 /\ committed = 0 /\ recovery = 0
      /\ ~batch.reset /\ \A i \in 1..Len(outbox) : outbox[i].kind # "reset"
  BY <1>1 DEF Init, EmptyQueue, HighWater, NoBatch
<1>3. ResetsOK(outbox, committed, queue.unavailable)
  BY <1>2, NoResets, Zenon
<1> QED
  BY <1>2, <1>3, Zenon DEF NeededInv, History!Init

\* For every capacity, batch size, wire length, number of senders and of
\* sessions and clock: whatever drops, crashes, expiries and evictions do
\* between a read and a write, drainBatch never hands a client a delivery
\* beyond the one after its committed cursor.
THEOREM DeliveryHasNoSilentGap == Spec => []NoSilentGap
<1>1. Inv => NoSilentGap
  BY InvSuffices
<1> QED
  BY <1>1, InitInv, NextInv, PTL DEF Spec

\* A client that reads the caught-up marker of drainBatch has committed
\* everything through the marker's high-water mark.
THEOREM CaughtUpMeansCommitted == Spec => []CaughtUpIsTrue
<1>1. Inv => CaughtUpIsTrue
  BY InvSuffices
<1> QED
  BY <1>1, InitInv, NextInv, PTL DEF Spec

\* drainBatch's "unreported gap" error is unreachable.
THEOREM GapIsNeverReported == Spec => []NoUnreportedGap
<1>1. Inv => NoUnreportedGap
  BY InvSuffices
<1> QED
  BY <1>1, InitInv, NextInv, PTL DEF Spec

\* The store never forgets as acknowledged what the client has not committed,
\* and ErrDeliveryCursorAhead cannot happen to a client that follows the
\* protocol.
THEOREM OnlyCommittedIsForgotten == Spec => []CursorsAreCommitted
<1>1. Inv => CursorsAreCommitted
  BY InvSuffices, Zenon
<1> QED
  BY <1>1, InitInv, NextInv, PTL DEF Spec

\* For every capacity, batch size, wire length, number of senders and of sessions
\* and clock: a reset reaches only a client that missed something, although the
\* batch that asked for it was read long before (ResumeDeliveries,
\* ReadDeliveriesAfter, drainBatch).
THEOREM ResetsAreNeeded == Spec => []ResetIsNeeded
<1>1. Inv /\ NeededInv => ResetIsNeeded
  <2>1. SUFFICES ASSUME Inv, NeededInv, outbox # <<>>, Head(outbox).kind = "reset"
                 PROVE  committed < queue.unavailable /\ committed < Head(outbox).id
    BY Zenon DEF ResetIsNeeded
  <2>2. Head(outbox) = outbox[1] /\ 1 \in 1..Len(outbox)
    BY <2>1, WireWaits, Zenon
  <2> QED
    BY <2>1, <2>2, Zenon DEF NeededInv, ResetsOK
<1>2. Init => NeededInv
  BY InitHistory, Zenon
<1> QED
  BY <1>1, <1>2, InitInv, NextInv, NextNeeded, PTL DEF Spec

\* Durable delivery refines the abstract history, step by step: the recipient
\* commits the next delivery or jumps across a recorded loss, a publication adds
\* one delivery and never costs the delivery it adds, and nothing else moves
\* (RouteDurable, drainBatch, the four store transactions).
THEOREM HistoryIsKept == Spec => KeepsHistory
<1>1. Init => History!Init /\ NeededInv
  BY InitHistory, Zenon
<1>2. Inv /\ NeededInv /\ [Next]_vars => [History!Next]_(History!vars)
  BY StepIsHistorys, Zenon
<1> QED
  BY <1>1, <1>2, InitInv, NextInv, NextNeeded, PTL DEF Spec, KeepsHistory, History!Safety

=============================================================================
