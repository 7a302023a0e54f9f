----------------------------- MODULE FixedWindow -----------------------------
(***************************************************************************)
(* internal/ratelimit: a bounded table of fixed windows, one per key.  The  *)
(* table is a function from the keys it holds to their entries.             *)
(***************************************************************************)
EXTENDS Integers, FiniteSets, Functions

CONSTANTS Limit,        \* attempts a window admits
          MaxEntries,   \* windows the table holds
          Window        \* length of a window

ASSUME WindowAssumption ==
    Limit \in Nat \ {0} /\ MaxEntries \in Nat \ {0} /\ Window \in Nat \ {0}

NoEntries == [k \in {} |-> [startedAt |-> 0, attempts |-> 0]]

\* Mutant: a clock behind the window's start counts as expired, as an unsigned
\* difference would.
MutStaleExpires(entry, now) ==
    now < entry.startedAt \/ now - entry.startedAt >= Window

Expired(entry, now) == now - entry.startedAt >= Window

Purge(entries, keys, now) ==
    Restrict(entries, {k \in DOMAIN entries : k \notin keys \/ ~Expired(entries[k], now)})

Full(entries) == Cardinality(DOMAIN entries) >= MaxEntries

Exhausted(entry) == entry.attempts >= Limit

\* Mutant: a full table refuses newcomers without dropping stale windows.
MutNeverMakeRoom(entries, now) == entries

MakeRoom(entries, now) ==
    IF Full(entries) THEN Purge(entries, DOMAIN entries, now) ELSE entries

\* Allow: the decision and the table it leaves behind.
Allow(entries, key, now) ==
    LET own == Purge(entries, {key}, now)
        room == MakeRoom(own, now)
        Put(table, entry) ==
            [k \in DOMAIN table \cup {key} |-> IF k = key THEN entry ELSE table[k]]
    IN  CASE key \in DOMAIN own /\ Exhausted(own[key]) ->
                [allowed |-> FALSE, entries |-> own]
          [] key \in DOMAIN own /\ ~Exhausted(own[key]) ->
                [allowed |-> TRUE,
                 entries |-> Put(own, [own[key] EXCEPT !.attempts = @ + 1])]
          [] key \notin DOMAIN own /\ Full(room) ->
                [allowed |-> FALSE, entries |-> room]
          [] OTHER ->
                [allowed |-> TRUE,
                 entries |-> Put(room, [startedAt |-> now, attempts |-> 1])]

=============================================================================
