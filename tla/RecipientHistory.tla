-------------------------- MODULE RecipientHistory --------------------------
(***************************************************************************)
(* What durable delivery promises a recipient, without sessions, cursors   *)
(* on the wire or storage: deliveries are published one after the other,   *)
(* some of the oldest may be lost, and the recipient advances by exactly   *)
(* one delivery at a time, except that it may jump over a loss by          *)
(* reconciling with snapshots (protocol/relay-delivery-v1.md).             *)
(***************************************************************************)
EXTENDS Integers

VARIABLES published,   \* id of the newest delivery
          lost,        \* deliveries through this id may be gone
          committed    \* the recipient has applied or reconciled through this id

vars == <<published, lost, committed>>

Init == published = 0 /\ lost = 0 /\ committed = 0

\* The delivery just published is never the one that is lost to make room.
Publish ==
    /\ published' = published + 1
    /\ lost' \in lost..published
    /\ UNCHANGED committed

Lose ==
    /\ lost' \in lost + 1 .. published
    /\ UNCHANGED <<published, committed>>

Apply ==
    /\ committed < published
    /\ committed' = committed + 1
    /\ UNCHANGED <<published, lost>>

Reconcile ==
    /\ committed < lost
    /\ committed' \in committed + 1 .. published
    /\ UNCHANGED <<published, lost>>

Next == Publish \/ Lose \/ Apply \/ Reconcile

\* The recipient never skips a delivery that was not lost.
Safety == Init /\ [][Next]_vars

\* Whatever is published is eventually applied or reconciled.
Spec == Safety /\ WF_vars(Apply \/ Reconcile)

=============================================================================
