--------------------------- MODULE MCDeliveryStore ---------------------------
(* The delivery store for TLC, and the eviction loop of the source written   *)
(* as the loop it is, to compare with the closed form the model uses.        *)
EXTENDS DeliveryStore

RECURSIVE EvictOldest(_)
EvictOldest(q) ==
    IF FitsCapacity(q.rows) THEN q
    ELSE LET oldest == Min(Ids(q.rows))
         IN  EvictOldest(markUnavailableThrough(
                 [q EXCEPT !.rows = {r \in @ : r.id # oldest}], oldest))

\* enforceDeliveryCapacity, one deletion at a time as in the source, ends in
\* the queue its closed form computes, for every queue an append can produce.
EvictionIsTheLoop ==
    \A size \in Sizes, expires \in Times :
        LET q == [stored EXCEPT
                    !.rows = @ \cup {[id |-> stored.next, size |-> size,
                                      expires |-> expires]},
                    !.next = @ + 1]
        IN  enforceDeliveryCapacity(q) = EvictOldest(q)

=============================================================================
