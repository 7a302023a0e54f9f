------------------------------ MODULE SessionEnd ------------------------------
(***************************************************************************)
(* How one relay session ends: the two loops of ServeAuthenticatedConnec-  *)
(* tion, the abort that cuts a write short, the close frames, retirement   *)
(* by a replacement or by the authorization monitor, and the deferred      *)
(* cleanup.  What the frames carry is left to RelaySession; what matters   *)
(* here is who closes what, in which order, and what the client and the    *)
(* operator are told.                                                      *)
(*                                                                         *)
(* The serving goroutine `serve` writes SNO1, starts the writer loop and   *)
(* becomes the reader loop.  A write goes through the stages of the        *)
(* writeMessage closure one atomic at a time, because the abort callback   *)
(* runs on its own goroutine between any two of them.                      *)
(***************************************************************************)
EXTENDS Naturals

VARIABLES
    serve,        \* greeting, reading, operation, handing, returning,
                  \* unregistering, draining, cancelling, ended
    handing,      \* what the reader hands to the writer loop
    channels,     \* heartbeats and resumeRequests, each with room for one
    writer,       \* off, select, armed, writing, returned, finishing,
                  \* reporting, exited
    writeFailed,  \* the write in progress returned an error
    abort,        \* the current write's AfterFunc: off, armed, closing, ran
    lateAbort,    \* an abort that saw busy and outlived its write's stop()
    cancelled,    \* sessionContext
    open,         \* the socket
    retired,      \* "no", "superseded" or "revoked"
    released,     \* the slot was given up
    unauthorized, \* history: a lookup of this instance failed
    closeFrame,   \* the close frame the client was sent
    result        \* what ServeAuthenticatedConnection returns

writeVars == <<writeFailed, abort, lateAbort>>
handVars == <<handing, channels>>
retireVars == <<retired, released, unauthorized>>
vars == <<serve, handVars, writer, writeVars, cancelled, open, retireVars, closeFrame,
          result>>

Handed == {"heartbeat", "resume"}

\* Stages of writeMessage during which it holds the operation boundary, and
\* those during which `busy` is set.
InWrite == {"armed", "writing", "returned", "finishing"}
Busy == writer \in {"writing", "returned"}

\* The operation context of a write ends with the session's contexts.
ContextDone == retired # "no" \/ cancelled

Init ==
    /\ serve = "greeting" /\ handing = "none" /\ channels = {}
    /\ writer = "off" /\ writeFailed = FALSE /\ abort = "off" /\ lateAbort = FALSE
    /\ cancelled = FALSE /\ open = TRUE
    /\ retired = "no" /\ released = FALSE /\ unauthorized = FALSE
    /\ closeFrame = "none" /\ result = "none"

-----------------------------------------------------------------------------
\* Retirement, from outside this connection.

\* Mutant: the last retirement counts instead of the first.
MutLastReasonWins(reason) == retired' = reason

Retire(reason) == retired' = IF retired = "no" THEN reason ELSE retired

\* A replacement registers.
Supersede ==
    /\ ~released /\ Retire("superseded")
    /\ UNCHANGED <<serve, handVars, writer, writeVars, cancelled, open, released,
                   unauthorized, closeFrame, result>>

\* The monitor's lookup of this instance failed and it calls Disconnect.
Revoke ==
    /\ ~released /\ Retire("revoked") /\ unauthorized' = TRUE
    /\ UNCHANGED <<serve, handVars, writer, writeVars, cancelled, open, released,
                   closeFrame, result>>

\* Disconnect, in the monitor, drains the admitted work and drops the slot.
RevokeRelease ==
    /\ unauthorized /\ ~released
    /\ writer \notin InWrite /\ serve # "operation"
    /\ released' = TRUE
    /\ UNCHANGED <<serve, handVars, writer, writeVars, cancelled, open, retired,
                   unauthorized, closeFrame, result>>

-----------------------------------------------------------------------------
\* writeMessage: beginOperation and AfterFunc, busy, the socket, busy, stop.

MayBegin == retired = "no" /\ ~cancelled

BeginWrite ==
    /\ MayBegin
    /\ writer' = "armed" /\ abort' = "armed" /\ writeFailed' = FALSE
    /\ UNCHANGED <<lateAbort, cancelled, open, retireVars, closeFrame, result>>

\* SNO1, written by the serving goroutine before the writer loop exists.
GreetBegin ==
    /\ serve = "greeting" /\ writer = "off" /\ BeginWrite
    /\ UNCHANGED <<serve, handVars>>

GreetRefused ==
    /\ serve = "greeting" /\ writer = "off" /\ ~MayBegin
    /\ serve' = "returning"
    /\ UNCHANGED <<handVars, writer, writeVars, cancelled, open, retireVars, closeFrame,
                   result>>

\* The writer loop takes a heartbeat or a resume from the reader, or serves a
\* ping, an online frame or a durable wake (the empty case).
WriterBegin ==
    /\ writer = "select" /\ BeginWrite
    /\ \E taken \in {{}} \cup {{h} : h \in channels} : channels' = channels \ taken
    /\ UNCHANGED <<serve, handing>>

BusyStore ==
    /\ writer = "armed" /\ writer' = "writing"
    /\ UNCHANGED <<serve, handVars, writeVars, cancelled, open, retireVars, closeFrame,
                   result>>

\* The socket call returns: the peer took the bytes, the peer is gone, the
\* socket was closed under it, or the write deadline passed.
WriteReturns ==
    /\ writer = "writing" /\ writer' = "returned"
    /\ writeFailed' \in (IF open THEN BOOLEAN ELSE {TRUE})
    /\ UNCHANGED <<serve, handVars, abort, lateAbort, cancelled, open, retireVars,
                   closeFrame, result>>

BusyClear ==
    /\ writer = "returned" /\ writer' = "finishing"
    /\ UNCHANGED <<serve, handVars, writeVars, cancelled, open, retireVars, closeFrame,
                   result>>

\* The deferred stop() and finish().  stop() does not wait for a callback that
\* is already running.  A failed SNO1 ends the session without a writer loop.
WriteFinished ==
    /\ writer = "finishing"
    /\ abort' = "off" /\ lateAbort' = (lateAbort \/ abort = "closing")
    /\ IF serve = "greeting"
       THEN /\ serve' = IF writeFailed THEN "returning" ELSE "reading"
            /\ writer' = IF writeFailed THEN "exited" ELSE "select"
       ELSE /\ writer' = IF writeFailed THEN "reporting" ELSE "select"
            /\ UNCHANGED serve
    /\ UNCHANGED <<handVars, writeFailed, cancelled, open, retireVars, closeFrame, result>>

\* The AfterFunc callback, when the context is done or the write times out.
AbortLoadsBusy ==
    /\ abort = "armed" /\ (ContextDone \/ Busy)
    /\ abort' = IF Busy THEN "closing" ELSE "ran"
    /\ UNCHANGED <<serve, handVars, writer, writeFailed, lateAbort, cancelled, open,
                   retireVars, closeFrame, result>>

AbortCloses ==
    /\ abort = "closing" \/ lateAbort
    /\ open' = FALSE
    /\ abort' = IF abort = "closing" THEN "ran" ELSE abort
    /\ lateAbort' = FALSE
    /\ UNCHANGED <<serve, handVars, writer, writeFailed, cancelled, retireVars, closeFrame,
                   result>>

-----------------------------------------------------------------------------
\* The writer loop's other branches.

\* The close frame of the retirement: ordinary (1000) or policy (1008).
WriteCloseFrame ==
    /\ writer = "select" /\ retired # "no"
    /\ closeFrame' = IF ~open THEN "none"
                     ELSE IF retired = "superseded" THEN "normal" ELSE "policy"
    /\ writer' = "reporting"
    /\ UNCHANGED <<serve, handVars, writeVars, cancelled, open, retireVars, result>>

\* The context is done, beginOperation refuses, or storage fails.  select picks
\* any ready branch, so a refused write can win over the retirement signal.
WriterFails ==
    /\ writer = "select" /\ writer' = "reporting"
    /\ UNCHANGED <<serve, handVars, writeVars, cancelled, open, retireVars, closeFrame,
                   result>>

\* Mutant of ReportWriterError: the writer loop leaves without cancel().
MutReportKeepsContext ==
    /\ writer = "reporting" /\ writer' = "exited"
    /\ open' = FALSE
    /\ UNCHANGED <<serve, handVars, writeVars, cancelled, retireVars, closeFrame, result>>

\* Mutant of ReportWriterError: the writer loop leaves without closing the socket.
MutReportKeepsSocket ==
    /\ writer = "reporting" /\ writer' = "exited"
    /\ cancelled' = TRUE
    /\ UNCHANGED <<serve, handVars, writeVars, open, retireVars, closeFrame, result>>

ReportWriterError ==
    /\ writer = "reporting" /\ writer' = "exited"
    /\ cancelled' = TRUE /\ open' = FALSE
    /\ UNCHANGED <<serve, handVars, writeVars, retireVars, closeFrame, result>>

-----------------------------------------------------------------------------
\* The reader loop.

Reader(from, to) ==
    /\ serve = from /\ serve' = to
    /\ UNCHANGED <<writer, writeVars, cancelled, open, retireVars, closeFrame, result>>

\* A client message: a heartbeat or a resume goes to the writer loop, anything
\* else runs an operation here.
ReadHands ==
    /\ open /\ Reader("reading", "handing")
    /\ handing' \in Handed /\ UNCHANGED channels

ReadOperates ==
    /\ open /\ Reader("reading", "operation") /\ UNCHANGED handVars

\* The peer left, the read deadline passed, the message was malformed, the
\* socket was closed, or the writer loop reported an error.
ReadFails == Reader("reading", "returning") /\ UNCHANGED handVars

OperationDone ==
    (Reader("operation", "reading") \/ Reader("operation", "returning"))
        /\ UNCHANGED handVars

HandOver ==
    /\ handing \notin channels /\ Reader("handing", "reading")
    /\ channels' = channels \cup {handing} /\ handing' = "none"

HandOverCancelled ==
    /\ cancelled /\ Reader("handing", "returning")
    /\ handing' = "none" /\ UNCHANGED channels

\* Mutant of SessionEndCause: the cause is read after unregister retired the session.
MutCauseAfterUnregister ==
    /\ serve = "returning" /\ serve' = "unregistering"
    /\ result' = IF retired = "no" THEN "revoked" ELSE retired
    /\ UNCHANGED <<handVars, writer, writeVars, cancelled, open, retireVars, closeFrame>>

\* The deferred functions, last in first out: sessionEndCause, unregister,
\* cancel; then the handler's own deferred Close.
SessionEndCause ==
    /\ serve = "returning" /\ serve' = "unregistering"
    /\ result' = IF retired = "no" THEN "error" ELSE retired
    /\ UNCHANGED <<handVars, writer, writeVars, cancelled, open, retireVars, closeFrame>>

Unregister ==
    /\ serve = "unregistering"
    /\ IF released
       THEN serve' = "cancelling" /\ UNCHANGED retired
       ELSE serve' = "draining" /\ Retire("revoked")
    /\ UNCHANGED <<handVars, writer, writeVars, cancelled, open, released, unauthorized,
                   closeFrame, result>>

UnregisterRelease ==
    /\ serve = "draining" /\ serve' = "cancelling"
    /\ writer \notin InWrite
    /\ released' = TRUE
    /\ UNCHANGED <<handVars, writer, writeVars, cancelled, open, retired, unauthorized,
                   closeFrame, result>>

CancelAndClose ==
    /\ serve = "cancelling" /\ serve' = "ended"
    /\ cancelled' = TRUE /\ open' = FALSE
    /\ writer' = IF writer = "off" THEN "exited" ELSE writer
    /\ UNCHANGED <<handVars, writeVars, retireVars, closeFrame, result>>

-----------------------------------------------------------------------------

Write == BusyStore \/ WriteReturns \/ BusyClear \/ WriteFinished
WriterEnds == WriteCloseFrame \/ WriterFails \/ ReportWriterError
ReaderEnds ==
    \/ OperationDone \/ HandOverCancelled \/ SessionEndCause \/ Unregister
    \/ UnregisterRelease \/ CancelAndClose

Next ==
    \/ Supersede \/ Revoke \/ RevokeRelease
    \/ GreetBegin \/ GreetRefused \/ WriterBegin \/ Write
    \/ AbortLoadsBusy \/ AbortCloses \/ WriterEnds
    \/ ReadHands \/ ReadOperates \/ ReadFails \/ HandOver \/ ReaderEnds

Spec == Init /\ [][Next]_vars

\* Every goroutine is scheduled, a write ends at its deadline at the latest and
\* an operation at its timeout.  The loops owe no progress to an idle session:
\* the writer loop must react once a context is done, and a read must return
\* once the socket is closed.
Fairness ==
    /\ WF_vars(GreetBegin \/ GreetRefused) /\ WF_vars(Write)
    /\ WF_vars(ContextDone /\ AbortLoadsBusy) /\ WF_vars(AbortCloses)
    /\ WF_vars((ContextDone \/ writer = "reporting") /\ WriterEnds)
    /\ WF_vars(~open /\ ReadFails) /\ WF_vars(HandOver) /\ WF_vars(ReaderEnds)
    /\ WF_vars(RevokeRelease)

FairSpec == Spec /\ Fairness

-----------------------------------------------------------------------------
\* Properties.

TypeOK ==
    /\ serve \in {"greeting", "reading", "operation", "handing", "returning",
                  "unregistering", "draining", "cancelling", "ended"}
    /\ handing \in Handed \cup {"none"} /\ channels \subseteq Handed
    /\ writer \in InWrite \cup {"off", "select", "reporting", "exited"}
    /\ abort \in {"off", "armed", "closing", "ran"}
    /\ retired \in {"no", "superseded", "revoked"}
    /\ closeFrame \in {"none", "normal", "policy"}
    /\ result \in {"none", "error", "superseded", "revoked"}
    /\ {writeFailed, lateAbort, cancelled, open, released, unauthorized} \subseteq BOOLEAN

\* The operator log calls a session revoked only if a lookup of this instance
\* failed: the cleanup's own retirement is never reported (sessionEndCause).
EndCauseIsTrue == result = "revoked" => unauthorized

\* The client and the operator are never told contradicting reasons, whichever
\* of a replacement, a revocation and the cleanup comes first (retireOnce).
OneReason ==
    /\ closeFrame = "policy" => result # "superseded"
    /\ closeFrame = "normal" => result # "revoked"

\* Neither loop outlives the other: when one ends, for any reason, so does the
\* other, even a reader blocked on a full channel (reportWriterError, cancel).
LoopsEndTogether ==
    (writer = "exited" \/ serve = "ended") ~> (writer = "exited" /\ serve = "ended")

\* A retired session ends and gives up its slot (retire, the write loop's
\* retirement branches, Disconnect).
RetiredEnds == retired # "no" ~> (released /\ serve = "ended" /\ writer = "exited")

\* The comment on writeMessage: an abort is scoped to one write, so a late abort
\* never reaches a frame written after it.  No abort closes an open socket once
\* its own write has finished.
AbortHitsItsOwnWrite == [][AbortCloses /\ open => ~lateAbort]_vars

\* docs/relay-session-recovery.md: a stalled write of a retired session is still
\* cut short.  Once its abort has run, the socket is closed under it.
StalledWriteIsCut ==
    retired # "no" /\ writer = "writing" /\ abort = "ran" => ~open

\* docs/relay-session-recovery.md: the policy close is for an authorization
\* revocation.
PolicyCloseIsRevocation == closeFrame = "policy" => unauthorized

=============================================================================
