------------------------ MODULE RelayAdmissionProofs -------------------------
(***************************************************************************)
(* Proofs about the admission of relay connections, for every number of     *)
(* clients and addresses and every limit: the authentication slots, the     *)
(* credential version a session is served with, and the fixed windows of    *)
(* internal/ratelimit under attempts that are decided late.                 *)
(***************************************************************************)
EXTENDS RelayAdmission, FiniteSetTheorems, TLAPS

Holders == {c \in Conns : pc[c] \in Holding}

Places == Resting \cup Holding \cup {"arrived", "allowed", "serving"}

\* The slots are counted by the handshakes that hold one.
SlotsInv ==
    /\ pc \in [Conns -> Places]
    /\ IsFiniteSet(Holders) /\ authSlots = Cardinality(Holders)
    /\ authSlots <= MaxConcurrent

\* A version is the one of the token from the moment it is loaded; a frame that
\* came late finds the device revoked, and so no row.
IdentityInv ==
    /\ pc \in [Conns -> Places]
    /\ token \in [Conns -> 0..MaxVersion] /\ version \in [Conns -> 0..MaxVersion]
    /\ credential \in 1..MaxVersion /\ revoked \in BOOLEAN /\ late \subseteq Conns
    /\ \A c \in Conns : pc[c] \in {"authenticated", "serving"} => version[c] = token[c]
    /\ late # {} => revoked
    /\ \A c \in Conns : pc[c] \in {"loading", "authenticated", "serving"} => c \notin late

Admissions ==
    [place : Nat, address : Addresses, at : Times, decided : Times]

Entry == [startedAt : Times, attempts : 1..Limit]

\* The table of windows as Allow leaves it: at most MaxEntries windows.
Table(table) ==
    /\ table = [k \in DOMAIN table |-> table[k]]
    /\ IsFiniteSet(DOMAIN table) /\ DOMAIN table \subseteq Addresses
    /\ Cardinality(DOMAIN table) <= MaxEntries
    /\ \A k \in DOMAIN table : table[k] \in Entry

Of(a) == {x \in accepted : x.address = a}

\* Types; a clock that was read is not ahead of the clock, and an attempt is let
\* through once.
WindowTypes ==
    /\ now \in Times /\ Table(entries)
    /\ pc \in [Conns -> Places] /\ tries \in [Conns -> 0..MaxTries]
    /\ attempt \in [Conns -> {NoAttempt} \cup [address : Addresses, at : Times]]
    /\ \A c \in Conns : pc[c] = "arrived" =>
           /\ attempt[c] \in [address : Addresses, at : Times]
           /\ attempt[c].at <= now /\ tries[c] \in 1..MaxTries
    /\ IsFiniteSet(accepted) /\ accepted \subseteq Admissions
    /\ \A x \in accepted : x.decided <= now /\ x.place <= Cardinality(accepted)

\* A window counts no more than was let through since it started.
Counted ==
    \A a \in DOMAIN entries :
        /\ entries[a].startedAt <= now
        /\ Cardinality(LetThroughSince(a, entries[a].startedAt)) >= entries[a].attempts

\* Attempts of an address are S; none waited longer than Window - gap.  Without a
\* window at time n: less than a limit in the last gap.
Quiet(S, n, gap) == Cardinality({x \in S : n - gap < x.decided}) < Limit

\* With its window e: the window's own attempts and the first of them, decided at
\* most Window - gap after the start; the others are older, and less than a limit
\* of them in the gap before the first.
Bounded(S, e, gap) ==
    \E own \in SUBSET S, first \in S :
        /\ first \in own /\ Cardinality(own) <= e.attempts
        /\ first.decided + gap <= e.startedAt + Window
        /\ \A x \in S \ own : x.decided <= first.decided
        /\ Cardinality({x \in S \ own : first.decided - gap < x.decided}) < Limit

In(S, t, gap) == {x \in S : t <= x.decided /\ x.decided <= t + gap - 1}

Spread(S, gap) == \A t \in Int : Cardinality(In(S, t, gap)) < 2 * Limit

\* The attempts of one address, whatever else is let through.
Calm(a, gap) ==
    WaitedAtMost(a, Window - gap) =>
        /\ a \in DOMAIN entries => Bounded(Of(a), entries[a], gap)
        /\ a \notin DOMAIN entries => Quiet(Of(a), now, gap)
        /\ Spread(Of(a), gap)

Paced == \A a \in Addresses, gap \in 1..Window : Calm(a, gap)

-----------------------------------------------------------------------------
(* Sets of attempts                                                         *)

\* Adding one attempt to a finite set adds at most one to any part of it.
LEMMA OneMore ==
    ASSUME NEW A, NEW B, NEW x, IsFiniteSet(A), B \subseteq A \cup {x}
    PROVE  IsFiniteSet(B) /\ Cardinality(B) <= Cardinality(A) + 1
<1>1. IsFiniteSet(A \cup {x}) /\ Cardinality(A \cup {x}) <= Cardinality(A) + 1
  <2>1. IsFiniteSet(A \cup {x})
    BY FS_AddElement
  <2>2. Cardinality(A) \in Nat
    BY FS_CardinalityType
  <2>3. CASE x \in A
    <3>1. A \cup {x} = A
      BY <2>3
    <3>2. Cardinality(A \cup {x}) = Cardinality(A)
      BY <3>1, Zenon
    <3> QED
      BY <2>1, <2>2, <3>2
  <2>4. CASE x \notin A
    <3>1. Cardinality(A \cup {x}) = Cardinality(A) + 1
      BY <2>4, FS_AddElement
    <3> QED
      BY <2>1, <2>2, <3>1
  <2> QED
    BY <2>3, <2>4
<1> QED
  BY <1>1, FS_Subset, FS_CardinalityType

\* The part of a finite set is finite and no larger.
LEMMA PartOf ==
    ASSUME NEW A, NEW B, IsFiniteSet(A), B \subseteq A
    PROVE  /\ IsFiniteSet(B) /\ Cardinality(B) \in Nat /\ Cardinality(A) \in Nat
           /\ Cardinality(B) <= Cardinality(A)
BY FS_Subset, FS_CardinalityType

\* Two parts cover no more than the sum of their sizes.
LEMMA TwoParts ==
    ASSUME NEW A, NEW B, NEW C, IsFiniteSet(A), IsFiniteSet(B), C \subseteq A \cup B
    PROVE  IsFiniteSet(C) /\ Cardinality(C) <= Cardinality(A) + Cardinality(B)
<1>1. /\ IsFiniteSet(A \cup B)
      /\ Cardinality(A \cup B) = Cardinality(A) + Cardinality(B) - Cardinality(A \cap B)
  BY FS_Union
<1>2. IsFiniteSet(A \cap B)
  BY FS_Subset
<1> QED
  BY <1>1, <1>2, FS_Subset, FS_CardinalityType

\* An address without a window stays so as time passes.
LEMMA QuietLater ==
    ASSUME NEW S, IsFiniteSet(S), \A x \in S : x.decided \in Int, NEW gap \in 1..Window,
           NEW n \in Int, NEW m \in Int, n <= m, Quiet(S, n, gap)
    PROVE  Quiet(S, m, gap)
<1> DEFINE later == {x \in S : m - gap < x.decided}
           since == {x \in S : n - gap < x.decided}
<1>1. later \subseteq since
  BY WindowAssumption
<1>2. IsFiniteSet(since) /\ Cardinality(since) < Limit
  BY FS_Subset DEF Quiet
<1>3. Cardinality(later) < Limit
  <2> HIDE DEF later, since
  <2> QED
    BY <1>1, <1>2, PartOf, WindowAssumption
<1> QED
  BY <1>3 DEF Quiet

\* Once its window has expired an address has less than a limit behind it: the
\* attempt that started the window is more than a gap ago.
LEMMA ExpiredIsQuiet ==
    ASSUME NEW S, IsFiniteSet(S), \A x \in S : x.decided \in Int, NEW gap \in 1..Window,
           NEW n \in Int, NEW e \in Entry, Bounded(S, e, gap), n - e.startedAt >= Window
    PROVE  Quiet(S, n, gap)
<1>1. PICK own \in SUBSET S, first \in S :
        /\ first \in own /\ Cardinality(own) <= e.attempts
        /\ first.decided + gap <= e.startedAt + Window
        /\ \A x \in S \ own : x.decided <= first.decided
  BY Zenon DEF Bounded
<1> DEFINE recent == {x \in S : n - gap < x.decided}
<1>2. /\ e.startedAt \in Int /\ e.attempts \in Nat /\ e.attempts <= Limit
      /\ gap \in Int /\ first.decided \in Int
  BY WindowAssumption, AdmissionAssumption DEF Entry, Times
<1>3. first.decided <= n - gap
  BY <1>1, <1>2, WindowAssumption
<1>4. recent \subseteq own \ {first}
  BY <1>1, <1>2, <1>3
<1>5. IsFiniteSet(own) /\ Cardinality(own) \in Nat
  BY PartOf
<1>6. IsFiniteSet(own \ {first}) /\ Cardinality(own \ {first}) = Cardinality(own) - 1
  BY <1>1, <1>5, FS_RemoveElement, SMTT(30)
<1>7. Cardinality(recent) < Limit
  <2> HIDE DEF recent
  <2> QED
    BY <1>1, <1>2, <1>4, <1>5, <1>6, PartOf, WindowAssumption
<1> QED
  BY <1>7 DEF Quiet

\* An interval of a gap's length without n holds no more after an attempt at n.
LEMMA SpreadGrows ==
    ASSUME NEW S, NEW x, NEW n \in Int, x.decided = n, NEW gap \in 1..Window,
           NEW t \in Int, ~(t <= n /\ n < t + gap)
    PROVE  In(S \cup {x}, t, gap) = In(S, t, gap)
BY WindowAssumption DEF In

\* The first attempt of a window, decided by a clock read before the wait.
LEMMA WindowStarts ==
    ASSUME NEW S, IsFiniteSet(S), NEW n \in Int,
           \A y \in S : y.decided \in Int /\ y.decided <= n,
           NEW x, x.decided = n, NEW gap \in 1..Window,
           NEW s \in Int, n + gap <= s + Window, Quiet(S, n, gap), Spread(S, gap)
    PROVE  /\ Bounded(S \cup {x}, [startedAt |-> s, attempts |-> 1], gap)
           /\ Spread(S \cup {x}, gap)
<1> DEFINE T == S \cup {x}
           before == {y \in S : n - gap < y.decided}
           older == {y \in T \ {x} : x.decided - gap < y.decided}
           e == [startedAt |-> s, attempts |-> 1]
<1>1. gap \in Int /\ Limit \in Nat \ {0} /\ e.startedAt = s /\ e.attempts = 1
  BY WindowAssumption
<1>2. IsFiniteSet(before) /\ Cardinality(before) \in Nat
  BY PartOf
<1>3. Cardinality(before) < Limit
  BY DEF Quiet
<1>4. Cardinality(older) < Limit
  <2>1. older \subseteq before
    OBVIOUS
  <2> HIDE DEF before, older
  <2> QED
    BY <2>1, <1>1, <1>2, <1>3, PartOf
<1>5. Bounded(T, e, gap)
  <2>1. {x} \in SUBSET T /\ x \in T /\ Cardinality({x}) = 1
    BY FS_Singleton, SMTT(30)
  <2>2. \A y \in T \ {x} : y.decided <= x.decided
    OBVIOUS
  <2>3. Cardinality({x}) <= e.attempts /\ x.decided + gap <= e.startedAt + Window
    BY <1>1, <2>1
  <2> HIDE DEF T, e
  <2> QED
    BY <1>4, <2>1, <2>2, <2>3, Zenon DEF Bounded
<1>6. ASSUME NEW t \in Int, t <= n, n < t + gap
      PROVE  Cardinality(In(T, t, gap)) < 2 * Limit
  <2> DEFINE C == In(T, t, gap)
  <2>1. C \subseteq before \cup {x}
    BY <1>1, <1>6 DEF In
  <2> HIDE DEF before, C
  <2>2. Cardinality(C) <= Cardinality(before) + 1 /\ Cardinality(C) \in Nat
    BY <2>1, <1>2, OneMore, FS_CardinalityType, Zenon
  <2>3. Cardinality(C) < 2 * Limit
    BY <2>2, <1>1, <1>2, <1>3
  <2> QED
    BY <2>3 DEF C
<1>7. Spread(T, gap)
  <2>1. ASSUME NEW t \in Int, ~(t <= n /\ n < t + gap)
        PROVE  In(T, t, gap) = In(S, t, gap)
    BY <2>1, SpreadGrows
  <2> QED
    BY <1>6, <2>1, Zenon DEF Spread
<1> QED
  BY <1>5, <1>7

\* A further attempt of a window that has room.
LEMMA WindowContinues ==
    ASSUME NEW S, IsFiniteSet(S), NEW n \in Int,
           \A y \in S : y.decided \in Int /\ y.decided <= n,
           NEW x, x.decided = n, NEW gap \in 1..Window, NEW e \in Entry,
           Bounded(S, e, gap), Spread(S, gap), e.attempts < Limit
    PROVE  /\ Bounded(S \cup {x}, [startedAt |-> e.startedAt, attempts |-> e.attempts + 1],
                      gap)
           /\ Spread(S \cup {x}, gap)
<1>1. PICK own \in SUBSET S, first \in S :
        /\ first \in own /\ Cardinality(own) <= e.attempts
        /\ first.decided + gap <= e.startedAt + Window
        /\ \A y \in S \ own : y.decided <= first.decided
        /\ Cardinality({y \in S \ own : first.decided - gap < y.decided}) < Limit
  BY Zenon DEF Bounded
<1> DEFINE T == S \cup {x}
           mine == own \cup {x}
           f == [startedAt |-> e.startedAt, attempts |-> e.attempts + 1]
           before == {y \in S \ own : first.decided - gap < y.decided}
           older == {y \in T \ mine : first.decided - gap < y.decided}
<1>2. /\ gap \in Int /\ Limit \in Nat \ {0} /\ e.attempts \in Nat /\ e.startedAt \in Int
      /\ first.decided \in Int /\ first.decided <= n
      /\ f.startedAt = e.startedAt /\ f.attempts = e.attempts + 1
  BY WindowAssumption, AdmissionAssumption DEF Entry, Times
<1>3. IsFiniteSet(own) /\ Cardinality(own) \in Nat
  BY PartOf
<1>4. IsFiniteSet(before) /\ Cardinality(before) \in Nat /\ Cardinality(before) < Limit
  BY <1>1, PartOf
<1>5. IsFiniteSet(mine) /\ Cardinality(mine) <= Cardinality(own) + 1
  BY <1>3, OneMore, Zenon
<1>6. Cardinality(mine) \in Nat /\ Cardinality(mine) <= e.attempts + 1
  <2> HIDE DEF mine
  <2> QED
    BY <1>1, <1>2, <1>3, <1>5, FS_CardinalityType
<1>7. Cardinality(older) < Limit
  <2>1. older \subseteq before
    OBVIOUS
  <2> HIDE DEF before, older
  <2> QED
    BY <2>1, <1>2, <1>4, PartOf
<1>8. Bounded(T, f, gap)
  <2>1. mine \in SUBSET T /\ first \in T /\ first \in mine
    BY <1>1
  <2>2. \A y \in T \ mine : y.decided <= first.decided
    BY <1>1
  <2>3. Cardinality(mine) <= f.attempts /\ first.decided + gap <= f.startedAt + Window
    BY <1>1, <1>2, <1>6
  <2> HIDE DEF T, mine, f
  <2> QED
    BY <1>7, <2>1, <2>2, <2>3, Zenon DEF Bounded
<1>9. ASSUME NEW t \in Int, t <= n, n < t + gap
      PROVE  Cardinality(In(T, t, gap)) < 2 * Limit
  <2> DEFINE C == In(T, t, gap)
  <2>1. first.decided - gap < t
    BY <1>2, <1>9
  <2>2. C \subseteq mine \cup before
    BY <1>2, <2>1 DEF In
  <2> HIDE DEF mine, before, C
  <2>3. IsFiniteSet(C) /\ Cardinality(C) <= Cardinality(mine) + Cardinality(before)
    BY <2>2, <1>4, <1>5, TwoParts
  <2>4. Cardinality(C) < 2 * Limit
    BY <2>3, <1>2, <1>4, <1>6, FS_CardinalityType
  <2> QED
    BY <2>4 DEF C
<1>10. Spread(T, gap)
  <2>1. ASSUME NEW t \in Int, ~(t <= n /\ n < t + gap)
        PROVE  In(T, t, gap) = In(S, t, gap)
    BY <2>1, SpreadGrows
  <2> QED
    BY <1>9, <2>1, Zenon DEF Spread
<1> QED
  BY <1>8, <1>10

-----------------------------------------------------------------------------
(* One decision of the limiter                                              *)

\* What purging leaves: the windows of other keys, and those not expired.
LEMMA Purged ==
    ASSUME NEW table, Table(table), NEW keys, NEW at \in Int
    PROVE  LET left == Purge(table, keys, at) IN
           /\ Table(left) /\ DOMAIN left \subseteq DOMAIN table
           /\ \A k \in DOMAIN left :
                  left[k] = table[k] /\ (k \in keys => ~Expired(table[k], at))
           /\ \A k \in DOMAIN table \ DOMAIN left : k \in keys /\ Expired(table[k], at)
<1> DEFINE D == {k \in DOMAIN table : k \notin keys \/ ~Expired(table[k], at)}
           left == Purge(table, keys, at)
<1>1. left = [k \in D |-> table[k]]
  BY Zenon DEF Purge, Restrict
<1>2. DOMAIN left = D /\ \A k \in D : left[k] = table[k]
  BY <1>1, Zenon
<1>3. IsFiniteSet(D) /\ Cardinality(D) <= MaxEntries
  <2>1. IsFiniteSet(DOMAIN table) /\ Cardinality(DOMAIN table) <= MaxEntries
    BY DEF Table
  <2>2. D \subseteq DOMAIN table
    OBVIOUS
  <2> HIDE DEF D
  <2> QED
    BY <2>1, <2>2, PartOf, WindowAssumption
<1>4. left = [k \in DOMAIN left |-> left[k]]
  BY <1>1, <1>2
<1>5. Table(left)
  <2>1. D \subseteq DOMAIN table /\ \A k \in D : table[k] \in Entry
    BY DEF Table
  <2>2. DOMAIN table \subseteq Addresses
    BY DEF Table
  <2> HIDE DEF D, left
  <2> QED
    BY <1>2, <1>3, <1>4, <2>1, <2>2, Zenon DEF Table
<1> QED
  BY <1>2, <1>5, Zenon

\* Key k has the window it had, or lost one that had expired.
Carries(table, result, k, at) ==
    /\ k \in DOMAIN result => k \in DOMAIN table /\ result[k] = table[k]
    /\ k \in DOMAIN table /\ k \notin DOMAIN result => Expired(table[k], at)

PutIn(table, key, entry) ==
    [k \in DOMAIN table \cup {key} |-> IF k = key THEN entry ELSE table[k]]

\* Storing a window keeps the table's bound when the key has one or there is room.
LEMMA PutStores ==
    ASSUME NEW table, Table(table), NEW key \in Addresses, NEW entry \in Entry,
           key \in DOMAIN table \/ ~Full(table)
    PROVE  LET result == PutIn(table, key, entry) IN
           /\ Table(result)
           /\ DOMAIN result = DOMAIN table \cup {key} /\ result[key] = entry
           /\ \A k \in DOMAIN table \ {key} : result[k] = table[k]
<1> DEFINE result == PutIn(table, key, entry)
           D == DOMAIN table \cup {key}
<1>1. result = [k \in D |-> IF k = key THEN entry ELSE table[k]]
  BY Zenon DEF PutIn
<1>2. /\ DOMAIN result = D /\ result[key] = entry
      /\ \A k \in DOMAIN table \ {key} : result[k] = table[k]
  BY <1>1
<1>3. IsFiniteSet(D) /\ Cardinality(D) <= MaxEntries
  <2>1. /\ IsFiniteSet(DOMAIN table) /\ Cardinality(DOMAIN table) <= MaxEntries
        /\ Cardinality(DOMAIN table) \in Nat
    BY FS_CardinalityType DEF Table
  <2>2. CASE key \in DOMAIN table
    <3>1. D = DOMAIN table
      BY <2>2
    <3> QED
      BY <2>1, <3>1, Zenon
  <2>3. CASE ~Full(table)
    <3>1. Cardinality(DOMAIN table) + 1 <= MaxEntries
      BY <2>1, <2>3, WindowAssumption DEF Full
    <3>2. IsFiniteSet(D) /\ Cardinality(D) <= Cardinality(DOMAIN table) + 1
      BY <2>1, OneMore
    <3>3. Cardinality(D) \in Nat
      BY <3>2, FS_CardinalityType
    <3> HIDE DEF D
    <3> QED
      BY <2>1, <3>1, <3>2, <3>3, WindowAssumption
  <2> QED
    BY <2>2, <2>3
<1>4. result = [k \in DOMAIN result |-> result[k]]
  BY <1>1, <1>2
<1>5. Table(result)
  <2>1. \A k \in DOMAIN table : table[k] \in Entry
    BY DEF Table
  <2>2. D \subseteq Addresses
    BY DEF Table
  <2>3. \A k \in D : result[k] \in Entry
    BY <1>2, <2>1
  <2> HIDE DEF D, result
  <2> QED
    BY <1>2, <1>3, <1>4, <2>2, <2>3, Zenon DEF Table
<1> QED
  BY <1>2, <1>5, Zenon

\* Making room drops expired windows only, and all of them when the table is full.
LEMMA RoomMade ==
    ASSUME NEW table, Table(table), NEW at \in Int
    PROVE  LET room == MakeRoom(table, at) IN
           /\ Table(room) /\ DOMAIN room \subseteq DOMAIN table
           /\ \A k \in DOMAIN table : Carries(table, room, k, at)
           /\ Full(room) => \A k \in DOMAIN room : ~Expired(table[k], at)
<1> DEFINE room == MakeRoom(table, at)
<1>1. CASE Full(table)
  <2>1. room = Purge(table, DOMAIN table, at)
    BY <1>1, Zenon DEF MakeRoom
  <2>2. /\ Table(room) /\ DOMAIN room \subseteq DOMAIN table
        /\ \A k \in DOMAIN room : room[k] = table[k] /\ ~Expired(table[k], at)
        /\ \A k \in DOMAIN table \ DOMAIN room : Expired(table[k], at)
    <3>1. LET left == Purge(table, DOMAIN table, at) IN
          /\ Table(left) /\ DOMAIN left \subseteq DOMAIN table
          /\ \A k \in DOMAIN left :
                 left[k] = table[k] /\ (k \in DOMAIN table => ~Expired(table[k], at))
          /\ \A k \in DOMAIN table \ DOMAIN left : k \in DOMAIN table /\ Expired(table[k], at)
      BY Purged
    <3> QED
      BY <2>1, <3>1, Zenon
  <2> QED
    BY <2>2, Zenon DEF Carries
<1>2. CASE ~Full(table)
  <2>1. room = table
    BY <1>2, Zenon DEF MakeRoom
  <2> QED
    BY <1>2, <2>1, Zenon DEF Carries
<1> QED
  BY <1>1, <1>2, Zenon

\* What a decision says of the key it is about, and what it does to its window.
Admits(table, result, key, at) ==
    /\ key \in DOMAIN result
    /\ \/ /\ key \in DOMAIN table /\ ~Expired(table[key], at) /\ table[key].attempts < Limit
          /\ result[key] = [startedAt |-> table[key].startedAt,
                            attempts |-> table[key].attempts + 1]
       \/ /\ key \in DOMAIN table => Expired(table[key], at)
          /\ result[key] = [startedAt |-> at, attempts |-> 1]

Refuses(table, result, key, at) ==
    /\ Carries(table, result, key, at)
    /\ \/ /\ key \in DOMAIN table /\ ~Expired(table[key], at) /\ table[key].attempts >= Limit
       \/ /\ key \notin DOMAIN result /\ DOMAIN result \subseteq DOMAIN table
          /\ Cardinality(DOMAIN result) >= MaxEntries
          /\ \A k \in DOMAIN result : ~Expired(table[k], at)

\* One decision of the limiter (ratelimit Allow): the table stays within its
\* bound, other keys lose expired windows only, and the key is admitted into its
\* window or a new one, or refused for an exhausted window or a table of live ones.
LEMMA Decision ==
    ASSUME NEW table, Table(table), NEW key \in Addresses, NEW at \in Times
    PROVE  LET d == Allow(table, key, at) IN
           /\ d.allowed \in BOOLEAN /\ Table(d.entries)
           /\ \A k \in Addresses \ {key} : Carries(table, d.entries, k, at)
           /\ d.allowed => Admits(table, d.entries, key, at)
           /\ ~d.allowed => Refuses(table, d.entries, key, at)
<1> DEFINE own == Purge(table, {key}, at)
           room == MakeRoom(own, at)
           d == Allow(table, key, at)
<1>1. at \in Int
  BY DEF Times
<1>2. /\ Table(own) /\ DOMAIN own \subseteq DOMAIN table
      /\ \A k \in DOMAIN own : own[k] = table[k] /\ (k \in {key} => ~Expired(table[k], at))
      /\ \A k \in DOMAIN table \ DOMAIN own : k \in {key} /\ Expired(table[k], at)
  BY <1>1, Purged
<1>3. /\ Table(room) /\ DOMAIN room \subseteq DOMAIN own
      /\ \A k \in DOMAIN own : Carries(own, room, k, at)
      /\ Full(room) => \A k \in DOMAIN room : ~Expired(own[k], at)
  BY <1>1, <1>2, RoomMade, Zenon
<1>4. \A k \in Addresses : Carries(table, own, k, at)
  BY <1>2, Zenon DEF Carries
<1>5. \A k \in Addresses : Carries(table, room, k, at)
  BY <1>2, <1>3, Zenon DEF Carries
<1>6. CASE key \in DOMAIN own /\ Exhausted(own[key])
  <2>1. d = [allowed |-> FALSE, entries |-> own]
    BY <1>6 DEF Allow
  <2>2. own[key] = table[key] /\ key \in DOMAIN table /\ ~Expired(table[key], at)
    BY <1>2, <1>6, Zenon
  <2>3. Refuses(table, own, key, at)
    BY <1>4, <1>6, <2>2, Zenon DEF Refuses, Exhausted
  <2> HIDE DEF own, room, d
  <2>4. d.allowed = FALSE /\ d.entries = own
    BY <2>1
  <2>5. /\ d.allowed \in BOOLEAN /\ Table(d.entries)
        /\ \A k \in Addresses \ {key} : Carries(table, d.entries, k, at)
        /\ d.allowed => Admits(table, d.entries, key, at)
        /\ ~d.allowed => Refuses(table, d.entries, key, at)
    BY <1>2, <1>4, <2>3, <2>4, Zenon
  <2> QED
    BY <2>5, Zenon DEF d
<1>7. CASE key \in DOMAIN own /\ ~Exhausted(own[key])
  <2> DEFINE e == [own[key] EXCEPT !.attempts = @ + 1]
             result == PutIn(own, key, e)
  <2>1. d = [allowed |-> TRUE, entries |-> result]
    BY <1>7 DEF Allow, PutIn
  <2>2. own[key] = table[key] /\ key \in DOMAIN table /\ ~Expired(table[key], at)
    BY <1>2, <1>7, Zenon
  <2>3. own[key] \in Entry
    BY <1>2, <1>7, Zenon DEF Table
  <2>4. /\ own[key].attempts < Limit /\ e \in Entry
        /\ e = [startedAt |-> own[key].startedAt, attempts |-> own[key].attempts + 1]
    BY <1>7, <2>3, WindowAssumption, AdmissionAssumption DEF Exhausted, Entry, Times
  <2>5. /\ Table(result) /\ DOMAIN result = DOMAIN own \cup {key} /\ result[key] = e
        /\ \A k \in DOMAIN own \ {key} : result[k] = own[k]
    <3> HIDE DEF own, e
    <3>1. Table(own) /\ e \in Entry /\ (key \in DOMAIN own \/ ~Full(own))
      BY <1>2, <1>7, <2>4, Zenon
    <3> QED
      BY <3>1, PutStores
  <2> HIDE DEF own, room, d, e, result
  <2>6. d.allowed = TRUE /\ d.entries = result
    BY <2>1
  <2>7. Admits(table, result, key, at)
    BY <2>2, <2>4, <2>5, Zenon DEF Admits
  <2>8. \A k \in Addresses \ {key} : Carries(table, result, k, at)
    BY <1>4, <2>5, Zenon DEF Carries
  <2>9. /\ d.allowed \in BOOLEAN /\ Table(d.entries)
        /\ \A k \in Addresses \ {key} : Carries(table, d.entries, k, at)
        /\ d.allowed => Admits(table, d.entries, key, at)
        /\ ~d.allowed => Refuses(table, d.entries, key, at)
    BY <2>5, <2>6, <2>7, <2>8, Zenon
  <2> QED
    BY <2>9, Zenon DEF d
<1>8. CASE key \notin DOMAIN own /\ Full(room)
  <2>1. d = [allowed |-> FALSE, entries |-> room]
    BY <1>8 DEF Allow
  <2>2. Refuses(table, room, key, at)
    <3>1. key \notin DOMAIN room /\ DOMAIN room \subseteq DOMAIN table
      BY <1>2, <1>3, <1>8, Zenon
    <3>2. \A k \in DOMAIN room : ~Expired(table[k], at)
      BY <1>2, <1>3, <1>8, Zenon
    <3>3. Cardinality(DOMAIN room) >= MaxEntries
      BY <1>8, Zenon DEF Full
    <3> HIDE DEF room, own
    <3> QED
      BY <1>5, <3>1, <3>2, <3>3, Zenon DEF Refuses
  <2> HIDE DEF own, room, d
  <2>3. d.allowed = FALSE /\ d.entries = room
    BY <2>1
  <2>4. /\ d.allowed \in BOOLEAN /\ Table(d.entries)
        /\ \A k \in Addresses \ {key} : Carries(table, d.entries, k, at)
        /\ d.allowed => Admits(table, d.entries, key, at)
        /\ ~d.allowed => Refuses(table, d.entries, key, at)
    BY <1>3, <1>5, <2>2, <2>3, Zenon
  <2> QED
    BY <2>4, Zenon DEF d
<1>9. CASE key \notin DOMAIN own /\ ~Full(room)
  <2> DEFINE e == [startedAt |-> at, attempts |-> 1]
             result == PutIn(room, key, e)
  <2>1. d = [allowed |-> TRUE, entries |-> result]
    BY <1>9 DEF Allow, PutIn
  <2>2. key \in DOMAIN table => Expired(table[key], at)
    BY <1>2, <1>9, Zenon
  <2>3. e \in Entry
    BY WindowAssumption DEF Entry
  <2>4. /\ Table(result) /\ DOMAIN result = DOMAIN room \cup {key} /\ result[key] = e
        /\ \A k \in DOMAIN room \ {key} : result[k] = room[k]
    <3> HIDE DEF room, own, e
    <3>1. Table(room) /\ e \in Entry /\ (key \in DOMAIN room \/ ~Full(room))
      BY <1>3, <1>9, <2>3, Zenon
    <3> QED
      BY <3>1, PutStores
  <2>5. Admits(table, result, key, at)
    <3> HIDE DEF result
    <3> QED
      BY <2>2, <2>4, Zenon DEF Admits
  <2> HIDE DEF own, room, d, e, result
  <2>6. d.allowed = TRUE /\ d.entries = result
    BY <2>1
  <2>7. \A k \in Addresses \ {key} : Carries(table, result, k, at)
    BY <1>5, <2>4, Zenon DEF Carries
  <2>8. /\ d.allowed \in BOOLEAN /\ Table(d.entries)
        /\ \A k \in Addresses \ {key} : Carries(table, d.entries, k, at)
        /\ d.allowed => Admits(table, d.entries, key, at)
        /\ ~d.allowed => Refuses(table, d.entries, key, at)
    BY <2>4, <2>5, <2>6, <2>7, Zenon
  <2> QED
    BY <2>8, Zenon DEF d
<1> QED
  BY <1>6, <1>7, <1>8, <1>9, Zenon

-----------------------------------------------------------------------------
(* Slots and identities                                                     *)

\* Where one handler goes changes who holds a slot only for that handler.
LEMMA HoldersAfter ==
    ASSUME pc \in [Conns -> Places], NEW c \in Conns, NEW w \in Places, Goto(c, w)
    PROVE  /\ pc' \in [Conns -> Places]
           /\ w \in Holding => Holders' = Holders \cup {c}
           /\ w \notin Holding => Holders' = Holders \ {c}
<1>1. pc' \in [Conns -> Places]
  BY DEF Goto
<1>2. pc'[c] = w /\ \A d \in Conns \ {c} : pc'[d] = pc[d]
  BY DEF Goto
<1> QED
  BY <1>1, <1>2 DEF Holders

\* A handler that goes on holds what it held.
LEMMA SlotStays ==
    ASSUME SlotsInv, NEW c \in Conns, NEW w \in Places, Goto(c, w),
           pc[c] \in Holding <=> w \in Holding, authSlots' = authSlots
    PROVE  SlotsInv'
<1>1. pc \in [Conns -> Places]
  BY Zenon DEF SlotsInv
<1>2. Holders' = Holders /\ pc' \in [Conns -> Places]
  <2>1. c \in Holders <=> w \in Holding
    BY Zenon DEF Holders
  <2> QED
    BY <1>1, <2>1, HoldersAfter
<1> QED
  BY <1>2, Zenon DEF SlotsInv

\* A handler takes a slot when one is free.
LEMMA SlotTaken ==
    ASSUME SlotsInv, NEW c \in Conns, NEW w \in Holding, Goto(c, w),
           pc[c] \notin Holding, authSlots < MaxConcurrent, authSlots' = authSlots + 1
    PROVE  SlotsInv'
<1>1. w \in Places
  BY Zenon DEF Places
<1>2. Holders' = Holders \cup {c} /\ pc' \in [Conns -> Places]
  BY <1>1, HoldersAfter, Zenon DEF SlotsInv
<1>3. c \notin Holders
  BY Zenon DEF Holders
<1>4. /\ IsFiniteSet(Holders \cup {c})
      /\ Cardinality(Holders \cup {c}) = Cardinality(Holders) + 1
  BY <1>3, FS_AddElement, Zenon DEF SlotsInv
<1>5. Cardinality(Holders) \in Nat
  BY FS_CardinalityType, Zenon DEF SlotsInv
<1>6. IsFiniteSet(Holders') /\ Cardinality(Holders') = Cardinality(Holders) + 1
  BY <1>2, <1>4, Zenon
<1>7. authSlots' = Cardinality(Holders') /\ authSlots' <= MaxConcurrent
  BY <1>5, <1>6, AdmissionAssumption DEF SlotsInv
<1> QED
  BY <1>2, <1>6, <1>7, Zenon DEF SlotsInv

\* A handler gives its slot back.
LEMMA SlotReturned ==
    ASSUME SlotsInv, NEW c \in Conns, NEW w \in Places \ Holding, Goto(c, w),
           pc[c] \in Holding, authSlots' = authSlots - 1
    PROVE  SlotsInv'
<1>1. Holders' = Holders \ {c} /\ pc' \in [Conns -> Places]
  BY HoldersAfter, Zenon DEF SlotsInv
<1>2. c \in Holders
  BY Zenon DEF Holders
<1>3. IsFiniteSet(Holders \ {c}) /\ Cardinality(Holders \ {c}) = Cardinality(Holders) - 1
  BY <1>2, FS_RemoveElement, Zenon DEF SlotsInv
<1>4. Cardinality(Holders) \in Nat
  BY FS_CardinalityType, Zenon DEF SlotsInv
<1>5. IsFiniteSet(Holders') /\ Cardinality(Holders') = Cardinality(Holders) - 1
  BY <1>1, <1>3, Zenon
<1>6. authSlots' = Cardinality(Holders') /\ authSlots' <= MaxConcurrent
  BY <1>4, <1>5, AdmissionAssumption DEF SlotsInv
<1> QED
  BY <1>1, <1>5, <1>6, Zenon DEF SlotsInv

\* Which places hold a slot.
LEMMA HoldingPlaces ==
    /\ \A w \in {"upgrading", "reading", "matching", "loading", "authenticated", "closing"} :
           w \in Holding /\ w \in Places
    /\ \A w \in {"idle", "refused", "closed", "arrived", "allowed", "serving"} :
           w \notin Holding /\ w \in Places
BY DEF Holding, Upgraded, Resting, Places

\* Every step of a connection counts its slot (authenticated_handler.go
\* ServeHTTP: the authSlots channel and its deferred release).
LEMMA StepSlots == SlotsInv /\ [Next]_vars => SlotsInv'
<1> SUFFICES ASSUME SlotsInv, [Next]_vars
             PROVE  SlotsInv'
  OBVIOUS
<1> USE HoldingPlaces
<1>1. CASE Tick \/ RotateCredential \/ RevokeDevice \/ UNCHANGED vars
  <2>1. pc' = pc /\ authSlots' = authSlots
    BY <1>1, Zenon DEF Tick, RotateCredential, RevokeDevice, vars, clientVars
  <2> QED
    BY <2>1, Zenon DEF SlotsInv, Holders
<1>2. ASSUME NEW c \in Conns, Arrive(c)
      PROVE  SlotsInv'
  <2>1. pc[c] \notin Holding
    BY <1>2 DEF Arrive, Resting
  <2>2. Goto(c, "arrived") /\ authSlots' = authSlots
    BY <1>2, Zenon DEF Arrive
  <2> QED
    BY <2>1, <2>2, SlotStays
<1>3. ASSUME NEW c \in Conns, CheckAttempt(c)
      PROVE  SlotsInv'
  <2>1. pc[c] = "arrived" /\ authSlots' = authSlots
    BY <1>3, Zenon DEF CheckAttempt
  <2>2. Goto(c, "allowed") \/ Goto(c, "refused")
    BY <1>3, Zenon DEF CheckAttempt
  <2> QED
    BY <2>1, <2>2, SlotStays
<1>4. ASSUME NEW c \in Conns, TakeSlot(c)
      PROVE  SlotsInv'
  BY <1>4, SlotTaken DEF TakeSlot
<1>5. ASSUME NEW c \in Conns, NoSlot(c)
      PROVE  SlotsInv'
  BY <1>5, SlotStays DEF NoSlot
<1>6. ASSUME NEW c \in Conns, Upgrade(c)
      PROVE  SlotsInv'
  BY <1>6, SlotStays DEF Upgrade
<1>7. ASSUME NEW c \in Conns, UpgradeFails(c)
      PROVE  SlotsInv'
  BY <1>7, SlotReturned DEF UpgradeFails
<1>8. ASSUME NEW c \in Conns, ReadFrame(c)
      PROVE  SlotsInv'
  BY <1>8, SlotStays DEF ReadFrame
<1>9. ASSUME NEW c \in Conns, FrameFails(c)
      PROVE  SlotsInv'
  BY <1>9, SlotStays DEF FrameFails
<1>10. ASSUME NEW c \in Conns, MarkOnline(c)
       PROVE  SlotsInv'
  BY <1>10, SlotStays DEF MarkOnline
<1>11. ASSUME NEW c \in Conns, LoadIdentity(c)
       PROVE  SlotsInv'
  BY <1>11, SlotStays DEF LoadIdentity
<1>12. ASSUME NEW c \in Conns, StartServing(c)
       PROVE  SlotsInv'
  BY <1>12, SlotReturned DEF StartServing
<1>13. ASSUME NEW c \in Conns, CloseUnauthenticated(c)
       PROVE  SlotsInv'
  BY <1>13, SlotReturned DEF CloseUnauthenticated
<1>14. ASSUME NEW c \in Conns, EndSession(c)
       PROVE  SlotsInv'
  BY <1>14, SlotStays DEF EndSession
<1> QED
  BY <1>1, <1>2, <1>3, <1>4, <1>5, <1>6, <1>7, <1>8, <1>9, <1>10, <1>11, <1>12, <1>13,
     <1>14, Zenon DEF Next, Handler

\* No handshake runs in the beginning.
LEMMA InitSlots == Init => SlotsInv
<1> SUFFICES ASSUME Init
             PROVE  SlotsInv
  OBVIOUS
<1>1. pc \in [Conns -> Places] /\ \A c \in Conns : pc[c] = "idle"
  BY DEF Init, Places, Resting
<1>2. Holders = {}
  BY <1>1, HoldingPlaces DEF Holders
<1>3. IsFiniteSet({}) /\ Cardinality({}) = 0
  BY FS_EmptySet, Zenon
<1>4. authSlots = 0 /\ 0 <= MaxConcurrent
  BY AdmissionAssumption DEF Init
<1> QED
  BY <1>1, <1>2, <1>3, <1>4 DEF SlotsInv

\* Whatever ends a handshake (a failed upgrade, a bad frame, the deadline, a
\* registry error or success), the slots taken are exactly the handshakes that
\* run: none leaks and none is given back twice (ServeHTTP, releaseAuthSlot).
THEOREM SlotsAlwaysMatch == Spec => []SlotsMatchHolders
<1>1. SlotsInv => SlotsMatchHolders
  BY Zenon DEF SlotsInv, SlotsMatchHolders, Holders
<1> QED
  BY <1>1, InitSlots, StepSlots, PTL DEF Spec

\* A connection begins without an identity.
LEMMA InitIdentity == Init => IdentityInv
<1> SUFFICES ASSUME Init
             PROVE  IdentityInv
  OBVIOUS
<1>1. 0 \in 0..MaxVersion /\ 1 \in 1..MaxVersion
  BY AdmissionAssumption
<1>2. /\ pc \in [Conns -> Places] /\ \A c \in Conns : pc[c] = "idle"
  BY HoldingPlaces DEF Init
<1>3. token \in [Conns -> 0..MaxVersion] /\ version \in [Conns -> 0..MaxVersion]
  BY <1>1 DEF Init
<1>4. credential = 1 /\ revoked = FALSE /\ late = {}
  BY Zenon DEF Init
<1> QED
  BY <1>1, <1>2, <1>3, <1>4, Zenon DEF IdentityInv

\* A handler that moves to a place before the lookup, or to its end, claims
\* nothing about its identity.
LEMMA IdentityMoves ==
    ASSUME IdentityInv, NEW c \in Conns, NEW w \in Places, Goto(c, w),
           w \notin {"loading", "authenticated", "serving"},
           token' \in [Conns -> 0..MaxVersion], version' \in [Conns -> 0..MaxVersion],
           \A d \in Conns \ {c} : token'[d] = token[d] /\ version'[d] = version[d],
           late' \subseteq late \cup (IF revoked THEN {c} ELSE {}),
           credential' = credential, revoked' = revoked
    PROVE  IdentityInv'
<1>1. pc' \in [Conns -> Places] /\ pc'[c] = w /\ \A d \in Conns \ {c} : pc'[d] = pc[d]
  BY DEF Goto, IdentityInv
<1>2. \A d \in Conns : pc'[d] \in {"authenticated", "serving"} => version'[d] = token'[d]
  BY <1>1 DEF IdentityInv
<1>3. late' # {} => revoked'
  BY DEF IdentityInv
<1>4. \A d \in Conns :
          pc'[d] \in {"loading", "authenticated", "serving"} => d \notin late'
  BY <1>1 DEF IdentityInv
<1> QED
  BY <1>1, <1>2, <1>3, <1>4 DEF IdentityInv

\* Every step keeps a loaded version beside its token, and late frames out
\* (authenticated_handler.go ServeHTTP, store.go Authenticate).
LEMMA StepIdentity == IdentityInv /\ [Next]_vars => IdentityInv'
<1> SUFFICES ASSUME IdentityInv, [Next]_vars
             PROVE  IdentityInv'
  OBVIOUS
<1>0. token \in [Conns -> 0..MaxVersion] /\ version \in [Conns -> 0..MaxVersion]
  BY Zenon DEF IdentityInv
<1>1. CASE Tick \/ UNCHANGED vars
  <2>1. UNCHANGED <<pc, token, version, late, credential, revoked>>
    BY <1>1, Zenon DEF Tick, vars, clientVars, rowVars
  <2> QED
    BY <2>1, Zenon DEF IdentityInv
<1>2. CASE RotateCredential
  <2>1. UNCHANGED <<pc, token, version, late, revoked>>
    BY <1>2, Zenon DEF RotateCredential, clientVars
  <2>2. credential' \in 1..MaxVersion
    BY <1>2, AdmissionAssumption DEF RotateCredential, IdentityInv
  <2> QED
    BY <2>1, <2>2, Zenon DEF IdentityInv
<1>3. CASE RevokeDevice
  <2>1. UNCHANGED <<pc, token, version, late, credential>> /\ revoked' = TRUE
    BY <1>3, Zenon DEF RevokeDevice, clientVars
  <2> QED
    BY <2>1, Zenon DEF IdentityInv
<1>4. ASSUME NEW c \in Conns, Arrive(c)
      PROVE  IdentityInv'
  <2>1. /\ Goto(c, "arrived")
        /\ UNCHANGED <<token, version, late, credential, revoked>>
    BY <1>4, Zenon DEF Arrive, rowVars
  <2> QED
    BY <1>0, <2>1, HoldingPlaces, IdentityMoves
<1>5. ASSUME NEW c \in Conns, CheckAttempt(c)
      PROVE  IdentityInv'
  <2>1. /\ Goto(c, "allowed") \/ Goto(c, "refused")
        /\ UNCHANGED <<token, version, late, credential, revoked>>
    BY <1>5, Zenon DEF CheckAttempt, rowVars
  <2> QED
    BY <1>0, <2>1, HoldingPlaces, IdentityMoves
<1>6. ASSUME NEW c \in Conns,
             TakeSlot(c) \/ NoSlot(c) \/ Upgrade(c) \/ UpgradeFails(c) \/ FrameFails(c)
      PROVE  IdentityInv'
  <2>1. /\ \E w \in {"upgrading", "refused", "reading", "closed", "closing"} : Goto(c, w)
        /\ UNCHANGED <<token, version, late, credential, revoked>>
    BY <1>6 DEF TakeSlot, NoSlot, Upgrade, UpgradeFails, FrameFails, rowVars
  <2> QED
    BY <1>0, <2>1, HoldingPlaces, IdentityMoves
<1>7. ASSUME NEW c \in Conns, ReadFrame(c)
      PROVE  IdentityInv'
  <2>1. PICK t \in 1..credential :
          /\ Goto(c, "matching") /\ token' = [token EXCEPT ![c] = t]
          /\ late' = IF revoked THEN late \cup {c} ELSE late
          /\ UNCHANGED <<version, credential, revoked>>
    BY <1>7, Zenon DEF ReadFrame, rowVars
  <2>2. t \in 0..MaxVersion
    BY AdmissionAssumption DEF IdentityInv
  <2> QED
    BY <1>0, <2>1, <2>2, HoldingPlaces, IdentityMoves
<1>8. ASSUME NEW c \in Conns, MarkOnline(c)
      PROVE  IdentityInv'
  <2>1. /\ Goto(c, "closing") \/ (~revoked /\ Goto(c, "loading"))
        /\ UNCHANGED <<token, version, late, credential, revoked>>
    BY <1>8, Zenon DEF MarkOnline, RowMatches, rowVars
  <2>2. CASE Goto(c, "closing")
    BY <1>0, <2>1, <2>2, HoldingPlaces, IdentityMoves
  <2>3. CASE ~revoked /\ Goto(c, "loading")
    <3>1. /\ pc' \in [Conns -> Places] /\ pc'[c] = "loading"
          /\ \A d \in Conns \ {c} : pc'[d] = pc[d]
      BY <2>3, HoldingPlaces DEF Goto, IdentityInv
    <3>2. late' = {}
      BY <2>1, <2>3 DEF IdentityInv
    <3> QED
      BY <2>1, <3>1, <3>2 DEF IdentityInv
  <2> QED
    BY <2>1, <2>2, <2>3
<1>9. ASSUME NEW c \in Conns, LoadIdentity(c)
      PROVE  IdentityInv'
  <2>1. UNCHANGED <<token, late, credential, revoked>>
    BY <1>9, Zenon DEF LoadIdentity, rowVars
  <2>2. CASE Goto(c, "closing") /\ UNCHANGED version
    BY <1>0, <2>1, <2>2, HoldingPlaces, IdentityMoves
  <2>3. CASE /\ RowMatches(c) /\ version' = [version EXCEPT ![c] = credential]
             /\ Goto(c, "authenticated")
    <3>1. /\ pc' \in [Conns -> Places] /\ pc'[c] = "authenticated"
          /\ \A d \in Conns \ {c} : pc'[d] = pc[d]
      BY <2>3, HoldingPlaces DEF Goto, IdentityInv
    <3>2. late' = {}
      BY <2>1, <2>3 DEF IdentityInv, RowMatches
    <3>3. /\ version' \in [Conns -> 0..MaxVersion] /\ version'[c] = token'[c]
          /\ \A d \in Conns \ {c} : version'[d] = version[d]
      BY <1>0, <2>1, <2>3 DEF RowMatches, IdentityInv
    <3> QED
      BY <2>1, <3>1, <3>2, <3>3 DEF IdentityInv
  <2> QED
    BY <1>9, <2>2, <2>3, Zenon DEF LoadIdentity
<1>10. ASSUME NEW c \in Conns, StartServing(c)
       PROVE  IdentityInv'
  <2>1. /\ pc[c] = "authenticated" /\ Goto(c, "serving")
        /\ UNCHANGED <<token, version, late, credential, revoked>>
    BY <1>10, Zenon DEF StartServing, rowVars
  <2>2. /\ pc' \in [Conns -> Places] /\ pc'[c] = "serving"
        /\ \A d \in Conns \ {c} : pc'[d] = pc[d]
    BY <2>1, HoldingPlaces DEF Goto, IdentityInv
  <2> QED
    BY <2>1, <2>2 DEF IdentityInv
<1>11. ASSUME NEW c \in Conns, CloseUnauthenticated(c) \/ EndSession(c)
       PROVE  IdentityInv'
  <2>1. Goto(c, "closed") /\ Forget(c) /\ UNCHANGED <<credential, revoked>>
    BY <1>11, Zenon DEF CloseUnauthenticated, EndSession, rowVars
  <2>2. late' \subseteq late
    BY <2>1 DEF Forget
  <2>3. /\ token' \in [Conns -> 0..MaxVersion] /\ version' \in [Conns -> 0..MaxVersion]
        /\ \A d \in Conns \ {c} : token'[d] = token[d] /\ version'[d] = version[d]
    BY <1>0, <2>1, AdmissionAssumption DEF Forget
  <2> QED
    BY <2>1, <2>2, <2>3, HoldingPlaces, IdentityMoves
<1> QED
  BY <1>1, <1>2, <1>3, <1>4, <1>5, <1>6, <1>7, <1>8, <1>9, <1>10, <1>11, Zenon
  DEF Next, Handler

\* A connection is always served with the version whose token it presented,
\* although the two statements of Store.Authenticate are not one transaction.
THEOREM ServedIsAlwaysProved == Spec => []ServedVersionIsProved
<1>1. IdentityInv => ServedVersionIsProved
  BY DEF IdentityInv, ServedVersionIsProved
<1> QED
  BY <1>1, InitIdentity, StepIdentity, PTL DEF Spec

\* A frame sent after the device's revocation never becomes a session, however
\* the revocation falls between the statements of Store.Authenticate.
THEOREM RevokedAlwaysStaysOut == Spec => []RevokedStaysOut
<1>1. IdentityInv => RevokedStaysOut
  BY DEF IdentityInv, RevokedStaysOut
<1> QED
  BY <1>1, InitIdentity, StepIdentity, PTL DEF Spec

-----------------------------------------------------------------------------
(* The windows under the clock                                              *)

WindowInv == WindowTypes /\ Counted /\ Paced

\* What the attempts let through are made of.
LEMMA AdmissionTypes ==
    ASSUME WindowTypes
    PROVE  /\ now \in Int /\ IsFiniteSet(accepted)
           /\ \A x \in accepted : x.at \in Int /\ x.decided \in Int
           /\ \A a : /\ IsFiniteSet(Of(a))
                    /\ \A x \in Of(a) : x.decided \in Int /\ x.decided <= now
<1>1. now \in Int /\ IsFiniteSet(accepted)
  BY DEF WindowTypes, Times
<1>2. \A x \in accepted : x.at \in Int /\ x.decided \in Int
  BY DEF WindowTypes, Admissions, Times
<1>3. \A a : Of(a) \subseteq accepted
  BY Zenon DEF Of
<1>4. \A x \in accepted : x.decided <= now
  BY Zenon DEF WindowTypes
<1> QED
  BY <1>1, <1>2, <1>3, <1>4, FS_Subset, Zenon

\* What the windows say of an address depends on its own attempts only.
LEMMA SameAttempts ==
    ASSUME NEW a, Of(a)' = Of(a)
    PROVE  /\ \A wait : (\A x \in accepted' : x.address = a => x.decided - x.at <= wait)
                          <=> WaitedAtMost(a, wait)
           /\ \A from : {x \in accepted' : x.address = a /\ from <= x.decided}
                           = LetThroughSince(a, from)
<1>1. \A x : x \in accepted' /\ x.address = a <=> x \in accepted /\ x.address = a
  BY Zenon DEF Of
<1>2. \A wait : (\A x \in accepted' : x.address = a => x.decided - x.at <= wait)
                    <=> WaitedAtMost(a, wait)
  BY <1>1, Zenon DEF WaitedAtMost
<1>3. \A from : {x \in accepted' : x.address = a /\ from <= x.decided}
                   = LetThroughSince(a, from)
  BY <1>1 DEF LetThroughSince
<1> QED
  BY <1>2, <1>3

\* An address nobody was let through for keeps its window or loses an expired
\* one, and nothing is let through in a gap that was not before.
LEMMA CalmCarried ==
    ASSUME WindowInv, NEW a \in Addresses, NEW gap \in 1..Window, Of(a)' = Of(a),
           now' = now, NEW at \in Int, at <= now, Carries(entries, entries', a, at)
    PROVE  Calm(a, gap)'
<1>1. /\ now \in Int /\ IsFiniteSet(Of(a)) /\ \A x \in Of(a) : x.decided \in Int
  BY AdmissionTypes, Zenon DEF WindowInv
<1>2. SUFFICES ASSUME WaitedAtMost(a, Window - gap)
               PROVE  /\ a \in DOMAIN entries' => Bounded(Of(a), entries'[a], gap)
                      /\ a \notin DOMAIN entries' => Quiet(Of(a), now, gap)
                      /\ Spread(Of(a), gap)
  BY SameAttempts, Zenon DEF Calm, WaitedAtMost
<1>3. /\ a \in DOMAIN entries => Bounded(Of(a), entries[a], gap)
      /\ a \notin DOMAIN entries => Quiet(Of(a), now, gap)
      /\ Spread(Of(a), gap)
  BY <1>2, Zenon DEF WindowInv, Paced, Calm
<1>4. CASE a \in DOMAIN entries'
  BY <1>3, <1>4, Zenon DEF Carries
<1>5. CASE a \notin DOMAIN entries'
  <2>1. CASE a \notin DOMAIN entries
    BY <1>3, <1>5, <2>1, Zenon
  <2>2. CASE a \in DOMAIN entries
    <3>1. Expired(entries[a], at)
      BY <1>5, <2>2, Zenon DEF Carries
    <3>2. entries[a] \in Entry
      BY <2>2, Zenon DEF WindowInv, WindowTypes, Table
    <3>3. entries[a].startedAt \in Int
      BY <3>2 DEF Entry, Times
    <3>4. now - entries[a].startedAt >= Window
      BY <1>1, <3>1, <3>3, WindowAssumption DEF Expired
    <3>5. Quiet(Of(a), now, gap)
      BY <1>1, <1>3, <2>2, <3>2, <3>4, ExpiredIsQuiet
    <3> QED
      BY <1>3, <1>5, <3>5, Zenon
  <2> QED
    BY <2>1, <2>2, Zenon
<1> QED
  BY <1>4, <1>5, Zenon

\* An attempt let through in its window, or in a new one that starts at the clock
\* it read; the old one has expired by that clock, and so by the current one.
LEMMA CalmAdmitted ==
    ASSUME WindowInv, NEW a \in Addresses, NEW gap \in 1..Window, NEW x,
           Of(a)' = Of(a) \cup {x}, now' = now,
           x \in accepted', x.address = a, x.decided = now, x.at <= now, x.at \in Times,
           Admits(entries, entries', a, x.at)
    PROVE  Calm(a, gap)'
<1>1. /\ now \in Int /\ IsFiniteSet(Of(a))
      /\ \A y \in Of(a) : y.decided \in Int /\ y.decided <= now
  BY AdmissionTypes, Zenon DEF WindowInv
<1>2. SUFFICES ASSUME \A y \in accepted' : y.address = a => y.decided - y.at <= Window - gap
               PROVE  Bounded(Of(a) \cup {x}, entries'[a], gap) /\ Spread(Of(a) \cup {x}, gap)
  BY Zenon DEF Calm, Admits, WaitedAtMost
<1>3. x.at \in Int /\ now + gap <= x.at + Window
  <2>1. x.decided - x.at <= Window - gap
    BY <1>2, Zenon
  <2> QED
    BY <1>1, <2>1, WindowAssumption DEF Times
<1>4. WaitedAtMost(a, Window - gap)
  <2>1. \A y \in accepted : y.address = a => y \in accepted'
    BY Zenon DEF Of
  <2> QED
    BY <1>2, <2>1, Zenon DEF WaitedAtMost
<1>5. /\ a \in DOMAIN entries => Bounded(Of(a), entries[a], gap)
      /\ a \notin DOMAIN entries => Quiet(Of(a), now, gap)
      /\ Spread(Of(a), gap)
  BY <1>4, Zenon DEF WindowInv, Paced, Calm
<1>6. a \in DOMAIN entries => entries[a] \in Entry /\ entries[a].startedAt \in Int
  <2>1. a \in DOMAIN entries => entries[a] \in Entry
    BY Zenon DEF WindowInv, WindowTypes, Table
  <2> QED
    BY <2>1 DEF Entry, Times
<1>7. CASE /\ a \in DOMAIN entries /\ ~Expired(entries[a], x.at)
           /\ entries[a].attempts < Limit
           /\ entries'[a] = [startedAt |-> entries[a].startedAt,
                             attempts |-> entries[a].attempts + 1]
  <2>1. /\ Bounded(Of(a) \cup {x}, [startedAt |-> entries[a].startedAt,
                                    attempts |-> entries[a].attempts + 1], gap)
        /\ Spread(Of(a) \cup {x}, gap)
    BY <1>1, <1>5, <1>6, <1>7, WindowContinues, Zenon
  <2> QED
    BY <1>7, <2>1, Zenon
<1>8. CASE /\ a \in DOMAIN entries => Expired(entries[a], x.at)
           /\ entries'[a] = [startedAt |-> x.at, attempts |-> 1]
  <2>1. Quiet(Of(a), now, gap)
    <3>1. CASE a \in DOMAIN entries
      <4>1. x.at - entries[a].startedAt >= Window
        BY <1>8, <3>1, Zenon DEF Expired
      <4>2. now - entries[a].startedAt >= Window
        BY <1>1, <1>3, <1>6, <3>1, <4>1, WindowAssumption
      <4> QED
        BY <1>1, <1>5, <1>6, <3>1, <4>2, ExpiredIsQuiet, Zenon
    <3> QED
      BY <1>5, <3>1, Zenon
  <2>2. /\ Bounded(Of(a) \cup {x}, [startedAt |-> x.at, attempts |-> 1], gap)
        /\ Spread(Of(a) \cup {x}, gap)
    BY <1>1, <1>3, <1>5, <2>1, WindowStarts, Zenon
  <2> QED
    BY <1>8, <2>2, Zenon
<1> QED
  BY <1>7, <1>8, Zenon DEF Admits

\* One window's count.
CountedAt(a) ==
    /\ entries[a].startedAt <= now
    /\ Cardinality(LetThroughSince(a, entries[a].startedAt)) >= entries[a].attempts

\* The attempt a handler is about to have decided has not been let through yet.
LEMMA AdmissionIsNew ==
    ASSUME WindowTypes, NEW c \in Conns, pc[c] = "arrived"
    PROVE  /\ Admission(c) \notin accepted /\ Admission(c) \in Admissions
           /\ Admission(c).address = attempt[c].address /\ Admission(c).at = attempt[c].at
           /\ Admission(c).decided = now
           /\ Admission(c).place = Cardinality(accepted) + 1
<1> DEFINE x == Admission(c)
<1>1. /\ x.address = attempt[c].address /\ x.at = attempt[c].at /\ x.decided = now
      /\ x.place = Cardinality(accepted) + 1
  BY DEF Admission
<1>2. /\ attempt[c] \in [address : Addresses, at : Times] /\ now \in Times
      /\ IsFiniteSet(accepted)
  BY Zenon DEF WindowTypes
<1>3. Cardinality(accepted) \in Nat
  BY <1>2, FS_CardinalityType
<1>4. x \in Admissions
  BY <1>2, <1>3 DEF Admission, Admissions
<1>5. ASSUME x \in accepted
      PROVE  FALSE
  <2>1. x.place <= Cardinality(accepted)
    BY <1>5, Zenon DEF WindowTypes
  <2> QED
    BY <1>1, <1>3, <2>1
<1> QED
  BY <1>1, <1>4, <1>5, Zenon

\* The new attempt counts in its window, old or new.
LEMMA CountAdmitted ==
    ASSUME WindowInv, NEW x, x \notin accepted, accepted' = accepted \cup {x},
           now' = now, x.decided = now, x.at <= now, x.at \in Times,
           Admits(entries, entries', x.address, x.at)
    PROVE  CountedAt(x.address)'
<1> DEFINE a == x.address
           Since(s) == LetThroughSince(a, s)
           After(s) == {y \in accepted' : y.address = a /\ s <= y.decided}
<1>1. now \in Int /\ IsFiniteSet(accepted)
  BY AdmissionTypes, Zenon DEF WindowInv
<1>2. \A s \in Int : s <= now => After(s) = Since(s) \cup {x}
  BY DEF LetThroughSince
<1>3. \A s \in Int : IsFiniteSet(Since(s)) /\ x \notin Since(s)
  <2>1. \A s \in Int : Since(s) \subseteq accepted
    BY Zenon DEF LetThroughSince
  <2> QED
    BY <1>1, <2>1, FS_Subset, Zenon
<1>4. ASSUME NEW s \in Int, s <= now
      PROVE  /\ Cardinality(After(s)) = Cardinality(Since(s)) + 1
             /\ Cardinality(Since(s)) \in Nat
  <2> HIDE DEF Since, After
  <2>1. Cardinality(Since(s) \cup {x}) = Cardinality(Since(s)) + 1
    BY <1>3, FS_AddElement, Zenon
  <2> QED
    BY <1>2, <1>3, <1>4, <2>1, FS_CardinalityType, Zenon
<1>5. CASE /\ a \in DOMAIN entries /\ ~Expired(entries[a], x.at)
           /\ entries[a].attempts < Limit
           /\ entries'[a] = [startedAt |-> entries[a].startedAt,
                             attempts |-> entries[a].attempts + 1]
  <2> DEFINE s == entries[a].startedAt
  <2>1. entries[a] \in Entry /\ CountedAt(a)
    BY <1>5, Zenon DEF WindowInv, WindowTypes, Table, Counted, CountedAt
  <2>2. s \in Int /\ entries[a].attempts \in Int
    BY <2>1 DEF Entry, Times
  <2>3. s <= now /\ Cardinality(Since(s)) >= entries[a].attempts
    BY <2>1, Zenon DEF CountedAt
  <2>4. entries'[a].startedAt = s /\ entries'[a].attempts = entries[a].attempts + 1
    BY <1>5
  <2>5. /\ Cardinality(After(s)) = Cardinality(Since(s)) + 1
        /\ Cardinality(Since(s)) \in Nat
    BY <1>4, <2>2, <2>3, Zenon
  <2> HIDE DEF s, Since, After, a
  <2>6. Cardinality(After(s)) >= entries[a].attempts + 1
    BY <2>2, <2>3, <2>5
  <2>7. /\ entries'[a].startedAt <= now'
        /\ Cardinality(After(entries'[a].startedAt)) >= entries'[a].attempts
    BY <2>3, <2>4, <2>6
  <2> QED
    BY <2>7 DEF CountedAt, a, After, LetThroughSince
<1>6. CASE /\ a \in DOMAIN entries => Expired(entries[a], x.at)
           /\ entries'[a] = [startedAt |-> x.at, attempts |-> 1]
  <2>1. entries'[a].startedAt = x.at /\ entries'[a].attempts = 1 /\ x.at \in Int
    BY <1>6 DEF Times
  <2>2. /\ Cardinality(After(x.at)) = Cardinality(Since(x.at)) + 1
        /\ Cardinality(Since(x.at)) \in Nat
    BY <1>4, <2>1, Zenon
  <2> HIDE DEF Since, After, a
  <2>3. /\ entries'[a].startedAt <= now'
        /\ Cardinality(After(entries'[a].startedAt)) >= entries'[a].attempts
    BY <2>1, <2>2
  <2> QED
    BY <2>3 DEF CountedAt, a, After, LetThroughSince
<1> QED
  BY <1>5, <1>6, Zenon DEF Admits

\* The counts, window by window.
LEMMA WindowParts == Counted <=> \A a \in DOMAIN entries : CountedAt(a)
BY Zenon DEF Counted, CountedAt

\* A window that is left alone counts what it counted.
LEMMA CountCarried ==
    ASSUME WindowInv, NEW a \in Addresses, Of(a)' = Of(a), now' = now, NEW at,
           Carries(entries, entries', a, at), a \in DOMAIN entries'
    PROVE  CountedAt(a)'
<1>1. a \in DOMAIN entries /\ entries'[a] = entries[a]
  BY Zenon DEF Carries
<1>2. CountedAt(a)
  BY <1>1, WindowParts, Zenon DEF WindowInv
<1>3. \A from : {x \in accepted' : x.address = a /\ from <= x.decided}
                  = LetThroughSince(a, from)
  BY SameAttempts
<1>4. /\ entries'[a].startedAt <= now'
      /\ Cardinality({x \in accepted' : x.address = a /\ entries'[a].startedAt <= x.decided})
           >= entries'[a].attempts
  BY <1>1, <1>2, <1>3, Zenon DEF CountedAt
<1> QED
  BY <1>4, Zenon DEF CountedAt, LetThroughSince

\* A step that neither decides an attempt nor reads or moves the clock.
LEMMA WindowPasses ==
    ASSUME WindowInv, UNCHANGED <<now, entries, attempt, tries, accepted>>,
           pc' \in [Conns -> Places], \A d \in Conns : pc'[d] = "arrived" => pc[d] = "arrived"
    PROVE  WindowInv'
<1>1. Counted' /\ Paced'
  BY Zenon DEF WindowInv, Counted, Paced, Calm, LetThroughSince, Of, WaitedAtMost
<1>2. WindowTypes'
  BY Zenon DEF WindowInv, WindowTypes
<1> QED
  BY <1>1, <1>2, Zenon DEF WindowInv

\* The clock moves.
LEMMA WindowTick == WindowInv /\ Tick => WindowInv'
<1> SUFFICES ASSUME WindowInv, Tick
             PROVE  WindowInv'
  OBVIOUS
<1>1. /\ now \in Int /\ \A a : IsFiniteSet(Of(a)) /\ \A x \in Of(a) : x.decided \in Int
  BY AdmissionTypes, Zenon DEF WindowInv
<1>2. now' = now + 1 /\ now' \in Times
  BY AdmissionAssumption DEF Tick, Times, WindowInv, WindowTypes
<1>3. UNCHANGED <<entries, pc, attempt, tries, accepted>>
  BY Zenon DEF Tick, clientVars
<1>4. \A n \in Int : n <= now => n <= now'
  BY <1>1, <1>2
<1>5. WindowTypes'
  <2>1. \A x \in accepted : x.decided \in Int
    BY AdmissionTypes, Zenon DEF WindowInv
  <2>2. \A c \in Conns : pc[c] = "arrived" => attempt[c].at \in Int
    BY DEF WindowInv, WindowTypes, Times
  <2> QED
    BY <1>2, <1>3, <1>4, <2>1, <2>2, Zenon DEF WindowInv, WindowTypes
<1>6. Counted'
  <2>1. \A a \in DOMAIN entries : entries[a].startedAt \in Int
    BY DEF WindowInv, WindowTypes, Table, Entry, Times
  <2> QED
    BY <1>3, <1>4, <2>1, Zenon DEF WindowInv, Counted, LetThroughSince
<1>7. Paced'
  <2> SUFFICES ASSUME NEW a \in Addresses, NEW gap \in 1..Window,
                      WaitedAtMost(a, Window - gap)'
               PROVE  /\ a \in DOMAIN entries' => Bounded(Of(a)', entries'[a], gap)
                      /\ a \notin DOMAIN entries' => Quiet(Of(a)', now', gap)
                      /\ Spread(Of(a)', gap)
    BY Zenon DEF Paced, Calm
  <2>1. Of(a)' = Of(a) /\ WaitedAtMost(a, Window - gap)
    BY <1>3, Zenon DEF Of, WaitedAtMost
  <2>2. /\ a \in DOMAIN entries => Bounded(Of(a), entries[a], gap)
        /\ a \notin DOMAIN entries => Quiet(Of(a), now, gap)
        /\ Spread(Of(a), gap)
    BY <2>1, Zenon DEF WindowInv, Paced, Calm
  <2>3. now <= now' /\ now' \in Int
    BY <1>1, <1>2
  <2>4. a \notin DOMAIN entries => Quiet(Of(a), now', gap)
    BY <1>1, <2>2, <2>3, QuietLater
  <2> QED
    BY <1>3, <2>1, <2>2, <2>4, Zenon
<1> QED
  BY <1>5, <1>6, <1>7, Zenon DEF WindowInv

\* A client connects: the clock it reads is the current one.
LEMMA WindowArrive ==
    ASSUME WindowInv, NEW c \in Conns, Arrive(c)
    PROVE  WindowInv'
<1>1. PICK a \in Addresses :
        /\ pc[c] \in Resting /\ tries[c] < MaxTries /\ Goto(c, "arrived")
        /\ tries' = [tries EXCEPT ![c] = @ + 1]
        /\ attempt' = [attempt EXCEPT ![c] = [address |-> a, at |-> now]]
        /\ UNCHANGED <<now, entries, accepted>>
  BY Zenon DEF Arrive
<1>2. Counted' /\ Paced'
  BY <1>1, Zenon DEF WindowInv, Counted, Paced, Calm, LetThroughSince, Of, WaitedAtMost
<1>3. /\ pc \in [Conns -> Places] /\ tries \in [Conns -> 0..MaxTries] /\ now \in Times
      /\ attempt \in [Conns -> {NoAttempt} \cup [address : Addresses, at : Times]]
  BY Zenon DEF WindowInv, WindowTypes
<1>4. tries[c] \in 0..MaxTries /\ tries[c] + 1 \in 1..MaxTries
  BY <1>1, <1>3, AdmissionAssumption
<1>5. /\ pc' \in [Conns -> Places] /\ \A d \in Conns \ {c} : pc'[d] = pc[d]
  BY <1>1, <1>3, HoldingPlaces DEF Goto
<1>6. /\ tries' \in [Conns -> 0..MaxTries] /\ tries'[c] = tries[c] + 1
      /\ \A d \in Conns \ {c} : tries'[d] = tries[d]
  BY <1>1, <1>3, <1>4
<1>7. /\ attempt' \in [Conns -> {NoAttempt} \cup [address : Addresses, at : Times]]
      /\ attempt'[c] = [address |-> a, at |-> now]
      /\ \A d \in Conns \ {c} : attempt'[d] = attempt[d]
  BY <1>1, <1>3
<1>8. ASSUME NEW d \in Conns, pc'[d] = "arrived"
      PROVE  /\ attempt'[d] \in [address : Addresses, at : Times]
             /\ attempt'[d].at <= now /\ tries'[d] \in 1..MaxTries
  <2>1. CASE d = c
    BY <1>3, <1>4, <1>6, <1>7, <2>1 DEF Times
  <2>2. CASE d # c
    BY <1>5, <1>6, <1>7, <1>8, <2>2, Zenon DEF WindowInv, WindowTypes
  <2> QED
    BY <2>1, <2>2, Zenon
<1>9. WindowTypes'
  BY <1>1, <1>5, <1>6, <1>7, <1>8, Zenon DEF WindowInv, WindowTypes
<1> QED
  BY <1>2, <1>9, Zenon DEF WindowInv

\* The limiter decides an attempt, possibly with a clock read earlier.
LEMMA WindowDecides ==
    ASSUME WindowInv, NEW c \in Conns, CheckAttempt(c)
    PROVE  WindowInv'
<1>0. PICK key, at, d, x : /\ key = attempt[c].address /\ at = attempt[c].at
                          /\ d = Allow(entries, key, at) /\ x = Admission(c)
  OBVIOUS
<1>1. /\ pc[c] = "arrived" /\ entries' = d.entries
      /\ Goto(c, IF d.allowed THEN "allowed" ELSE "refused")
      /\ accepted' = IF d.allowed THEN accepted \cup {x} ELSE accepted
      /\ attempt' = [attempt EXCEPT ![c] = NoAttempt]
      /\ now' = now /\ tries' = tries
  BY <1>0, Zenon DEF CheckAttempt
<1>2. WindowTypes /\ Table(entries)
  BY Zenon DEF WindowInv, WindowTypes
<1>3. /\ pc \in [Conns -> Places] /\ now \in Times
      /\ attempt \in [Conns -> {NoAttempt} \cup [address : Addresses, at : Times]]
      /\ attempt[c] \in [address : Addresses, at : Times] /\ at <= now
  BY <1>0, <1>1, <1>2, Zenon DEF WindowTypes
<1>4. key \in Addresses /\ at \in Times /\ at \in Int
  BY <1>0, <1>3 DEF Times
<1>5. /\ d.allowed \in BOOLEAN /\ Table(d.entries)
      /\ \A k \in Addresses \ {key} : Carries(entries, d.entries, k, at)
      /\ d.allowed => Admits(entries, d.entries, key, at)
      /\ ~d.allowed => Refuses(entries, d.entries, key, at)
  BY <1>0, <1>2, <1>4, Decision, Zenon
<1>6. /\ x \notin accepted /\ x \in Admissions /\ x.address = key /\ x.at = at
      /\ x.decided = now /\ x.place = Cardinality(accepted) + 1
  BY <1>0, <1>1, <1>2, AdmissionIsNew, Zenon
<1>7. \A a \in Addresses : a # key \/ ~d.allowed =>
          Of(a)' = Of(a) /\ Carries(entries, entries', a, at)
  <2>1. \A a \in Addresses \ {key} : Of(a)' = Of(a)
    BY <1>1, <1>6 DEF Of
  <2>2. ~d.allowed => \A a \in Addresses : Of(a)' = Of(a)
    BY <1>1, Zenon DEF Of
  <2>3. ~d.allowed => Carries(entries, d.entries, key, at)
    BY <1>5, Zenon DEF Refuses
  <2> QED
    BY <1>1, <1>5, <2>1, <2>2, <2>3, Zenon
<1>8. d.allowed => Of(key)' = Of(key) \cup {x} /\ x \in accepted'
  BY <1>1, <1>6 DEF Of
<1>9. Paced'
  <2>1. ASSUME NEW a \in Addresses, NEW gap \in 1..Window
        PROVE  Calm(a, gap)'
    <3>1. CASE a # key \/ ~d.allowed
      BY <1>1, <1>3, <1>4, <1>7, <3>1, CalmCarried, Zenon
    <3>2. CASE a = key /\ d.allowed
      <4>1. /\ Of(a)' = Of(a) \cup {x} /\ x \in accepted' /\ x.address = a
            /\ Admits(entries, entries', a, x.at)
        BY <1>1, <1>5, <1>6, <1>8, <3>2, Zenon
      <4>2. x.decided = now /\ x.at <= now /\ x.at \in Times
        BY <1>3, <1>4, <1>6, Zenon
      <4> QED
        BY <1>1, <4>1, <4>2, CalmAdmitted, Zenon
    <3> QED
      BY <3>1, <3>2, Zenon
  <2> QED
    BY <2>1, Zenon DEF Paced
<1>10. Counted'
  <2>1. ASSUME NEW a \in Addresses, a \in DOMAIN entries'
        PROVE  CountedAt(a)'
    <3>1. CASE a # key \/ ~d.allowed
      BY <1>1, <1>7, <2>1, <3>1, CountCarried, Zenon
    <3>2. CASE a = key /\ d.allowed
      <4>1. accepted' = accepted \cup {x} /\ Admits(entries, entries', x.address, x.at)
        BY <1>1, <1>5, <1>6, <3>2, Zenon
      <4>2. x.decided = now /\ x.at <= now /\ x.at \in Times /\ x \notin accepted
        BY <1>3, <1>4, <1>6, Zenon
      <4>3. CountedAt(x.address)'
        BY <1>1, <4>1, <4>2, CountAdmitted, Zenon
      <4> QED
        BY <1>6, <3>2, <4>3, Zenon
    <3> QED
      BY <3>1, <3>2, Zenon
  <2>2. DOMAIN entries' \subseteq Addresses
    BY <1>1, <1>5, Zenon DEF Table
  <2> QED
    BY <2>1, <2>2, Zenon DEF Counted, CountedAt
<1>11. WindowTypes'
  <2>1. /\ pc' \in [Conns -> Places] /\ pc'[c] # "arrived"
        /\ \A e \in Conns \ {c} : pc'[e] = pc[e]
    BY <1>1, <1>3, HoldingPlaces DEF Goto
  <2>2. /\ attempt' \in [Conns -> {NoAttempt} \cup [address : Addresses, at : Times]]
        /\ \A e \in Conns \ {c} : attempt'[e] = attempt[e]
    BY <1>1, <1>3
  <2>3. \A e \in Conns : pc'[e] = "arrived" =>
           /\ attempt'[e] \in [address : Addresses, at : Times]
           /\ attempt'[e].at <= now' /\ tries'[e] \in 1..MaxTries
    BY <1>1, <1>2, <2>1, <2>2, Zenon DEF WindowTypes
  <2>4. IsFiniteSet(accepted') /\ accepted' \subseteq Admissions
    <3>1. IsFiniteSet(accepted) /\ accepted \subseteq Admissions
      BY <1>2, Zenon DEF WindowTypes
    <3>2. IsFiniteSet(accepted \cup {x})
      BY <3>1, FS_AddElement, Zenon
    <3> QED
      BY <1>1, <1>6, <3>1, <3>2, Zenon
  <2>5. /\ Cardinality(accepted) \in Nat
        /\ Cardinality(accepted') = Cardinality(accepted) + (IF d.allowed THEN 1 ELSE 0)
    <3>1. IsFiniteSet(accepted)
      BY <1>2, Zenon DEF WindowTypes
    <3>2. Cardinality(accepted \cup {x}) = Cardinality(accepted) + 1
      BY <1>6, <3>1, FS_AddElement, Zenon
    <3> QED
      BY <1>1, <3>1, <3>2, FS_CardinalityType
  <2>6. ASSUME NEW y \in accepted'
        PROVE  y.decided <= now' /\ y.place <= Cardinality(accepted')
    <3>1. CASE y \in accepted
      <4>1. y.place \in Nat /\ y.place <= Cardinality(accepted) /\ y.decided <= now
        BY <1>2, <3>1 DEF WindowTypes, Admissions
      <4> QED
        BY <1>1, <2>5, <4>1
    <3>2. CASE y \notin accepted
      <4>1. d.allowed /\ y = x
        BY <1>1, <2>6, <3>2, Zenon
      <4>2. now \in Int
        BY <1>3 DEF Times
      <4> QED
        BY <1>1, <1>6, <2>5, <4>1, <4>2
    <3> QED
      BY <3>1, <3>2, Zenon
  <2> QED
    BY <1>1, <1>2, <1>5, <2>1, <2>2, <2>3, <2>4, <2>6, ZenonT(30) DEF WindowTypes
<1> QED
  BY <1>9, <1>10, <1>11, Zenon DEF WindowInv

\* A handler that goes on past its attempt leaves the windows alone.
LEMMA HandlerPasses ==
    ASSUME WindowInv, NEW c \in Conns, UNCHANGED <<now, entries, attempt, tries, accepted>>,
           NEW w \in Places \ {"arrived"}, Goto(c, w)
    PROVE  WindowInv'
<1>1. pc \in [Conns -> Places]
  BY Zenon DEF WindowInv, WindowTypes
<1>2. pc' \in [Conns -> Places] /\ \A d \in Conns : pc'[d] = "arrived" => pc[d] = "arrived"
  BY <1>1 DEF Goto
<1> QED
  BY <1>2, WindowPasses, Zenon

\* What the steps after the limiter's decision have in common.
LEMMA LaterSteps ==
    ASSUME NEW c \in Conns,
           \/ TakeSlot(c) \/ NoSlot(c) \/ Upgrade(c) \/ UpgradeFails(c) \/ ReadFrame(c)
           \/ FrameFails(c) \/ MarkOnline(c) \/ LoadIdentity(c) \/ StartServing(c)
           \/ CloseUnauthenticated(c) \/ EndSession(c)
    PROVE  /\ UNCHANGED <<now, entries, attempt, tries, accepted>> /\ pc[c] # "arrived"
           /\ \E w \in Places \ {"arrived"} : Goto(c, w)
<1>1. UNCHANGED <<now, entries, attempt, tries, accepted>>
  BY ZenonT(30) DEF TakeSlot, NoSlot, Upgrade, UpgradeFails, ReadFrame, FrameFails, MarkOnline,
     LoadIdentity, StartServing, CloseUnauthenticated, EndSession
<1>2. pc[c] # "arrived"
  BY DEF TakeSlot, NoSlot, Upgrade, UpgradeFails, ReadFrame, FrameFails, MarkOnline,
     LoadIdentity, StartServing, CloseUnauthenticated, EndSession
<1>3. \E w \in {"upgrading", "reading", "matching", "loading", "authenticated", "closing",
                "refused", "closed", "serving"} : Goto(c, w)
  BY DEF TakeSlot, NoSlot, Upgrade, UpgradeFails, ReadFrame, FrameFails, MarkOnline,
     LoadIdentity, StartServing, CloseUnauthenticated, EndSession
<1> QED
  BY <1>1, <1>2, <1>3, HoldingPlaces

\* Every step keeps the windows as described.
LEMMA StepWindows == WindowInv /\ [Next]_vars => WindowInv'
<1> SUFFICES ASSUME WindowInv, [Next]_vars
             PROVE  WindowInv'
  OBVIOUS
<1>1. CASE RotateCredential \/ RevokeDevice \/ UNCHANGED vars
  <2>1. UNCHANGED <<now, entries, attempt, tries, accepted, pc>>
    BY <1>1, Zenon DEF RotateCredential, RevokeDevice, vars, clientVars
  <2>2. pc \in [Conns -> Places]
    BY Zenon DEF WindowInv, WindowTypes
  <2> QED
    BY <2>1, <2>2, WindowPasses, Zenon
<1>2. ASSUME NEW c \in Conns,
             \/ TakeSlot(c) \/ NoSlot(c) \/ Upgrade(c) \/ UpgradeFails(c) \/ ReadFrame(c)
             \/ FrameFails(c) \/ MarkOnline(c) \/ LoadIdentity(c) \/ StartServing(c)
             \/ CloseUnauthenticated(c) \/ EndSession(c)
      PROVE  WindowInv'
  BY <1>2, LaterSteps, HandlerPasses, Zenon
<1> QED
  BY <1>1, <1>2, WindowTick, WindowArrive, WindowDecides, Zenon DEF Next, Handler

\* No window is open and nothing was let through in the beginning.
LEMMA InitWindows == Init => WindowInv
<1> SUFFICES ASSUME Init
             PROVE  WindowInv
  OBVIOUS
<1>1. /\ IsFiniteSet({}) /\ Cardinality({}) = 0
  BY FS_EmptySet, Zenon
<1>2. DOMAIN entries = {} /\ entries = [k \in DOMAIN entries |-> entries[k]]
  BY DEF Init, NoEntries
<1>3. Table(entries)
  BY <1>1, <1>2, WindowAssumption DEF Table
<1>4. accepted = {} /\ now = 0
  BY Zenon DEF Init
<1>5. \A c \in Conns : pc[c] = "idle"
  BY DEF Init
<1>6. /\ pc \in [Conns -> Places] /\ tries \in [Conns -> 0..MaxTries] /\ now \in Times
      /\ attempt \in [Conns -> {NoAttempt} \cup [address : Addresses, at : Times]]
  BY HoldingPlaces, AdmissionAssumption DEF Init, Times
<1>7. WindowTypes
  BY <1>1, <1>3, <1>4, <1>5, <1>6 DEF WindowTypes
<1>8. Counted
  BY <1>2, Zenon DEF Counted
<1>9. \A gap : Quiet({}, now, gap) /\ Spread({}, gap)
  <2>1. /\ \A gap : {x \in {} : now - gap < x.decided} = {}
        /\ \A gap, t : {x \in {} : t <= x.decided /\ x.decided <= t + gap - 1} = {}
    OBVIOUS
  <2> QED
    BY <1>1, <2>1, WindowAssumption DEF Quiet, Spread, In
<1>10. Paced
  <2>1. \A a : Of(a) = {}
    BY <1>4 DEF Of
  <2> QED
    BY <1>2, <1>9, <2>1, Zenon DEF Paced, Calm
<1> QED
  BY <1>7, <1>8, <1>10, Zenon DEF WindowInv

\* When no attempt of an address waited longer than `wait` for the limiter's mutex,
\* less than twice the limit is let through in any time shorter by `wait` than a
\* window, whatever other addresses make of the bounded table and its purges
\* (ratelimit Allow, whose clock is read before the mutex is taken).
THEOREM AtMostTwoWindowsPass == Spec => []AtMostTwoWindows
<1>1. WindowInv => AtMostTwoWindows
  <2> SUFFICES ASSUME WindowInv, NEW a \in Addresses, NEW t \in Times,
                      NEW wait \in 0..Window - 1, WaitedAtMost(a, wait)
               PROVE  Cardinality(LetThroughWithin(a, t, t + Window - wait - 1)) < 2 * Limit
    BY Zenon DEF AtMostTwoWindows
  <2>0. PICK gap \in 1..Window : gap = Window - wait
    BY WindowAssumption
  <2>1. /\ wait = Window - gap /\ t \in Int
        /\ t + Window - wait - 1 = t + gap - 1
    BY <2>0, WindowAssumption DEF Times
  <2>2. LetThroughWithin(a, t, t + gap - 1) = In(Of(a), t, gap)
    BY Zenon DEF LetThroughWithin, LetThroughSince, In, Of
  <2>3. Spread(Of(a), gap)
    BY <2>1, Zenon DEF WindowInv, Paced, Calm
  <2> QED
    BY <2>1, <2>2, <2>3, Zenon DEF Spread
<1> QED
  BY <1>1, InitWindows, StepWindows, PTL DEF Spec

\* A refusal is for an exhausted window of the address or for a table full of
\* live windows of others.
LEMMA RefusalCause ==
    ASSUME WindowInv, NEW c \in Conns, CheckAttempt(c), pc'[c] = "refused"
    PROVE  LET own == attempt[c].address
               from == attempt[c].at - Window + 1
           IN  \/ Cardinality(LetThroughSince(own, from)) >= Limit
               \/ Cardinality({a \in Addresses \ {own} :
                      LetThroughSince(a, from) # {}}) >= MaxEntries
<1> DEFINE own == attempt[c].address
           at == attempt[c].at
           from == at - Window + 1
           d == Allow(entries, own, at)
<1>1. /\ pc[c] = "arrived" /\ pc \in [Conns -> Places] /\ Table(entries)
      /\ Goto(c, IF d.allowed THEN "allowed" ELSE "refused")
  BY Zenon DEF CheckAttempt, WindowInv, WindowTypes
<1>2. own \in Addresses /\ at \in Times /\ at \in Int
  BY <1>1 DEF WindowInv, WindowTypes, Times
<1>3. /\ d.allowed \in BOOLEAN /\ Table(d.entries)
      /\ ~d.allowed => Refuses(entries, d.entries, own, at)
  <2> HIDE DEF own, at
  <2> QED
    BY <1>1, <1>2, Decision, Zenon
<1>4. ~d.allowed
  BY <1>1 DEF Goto
<1>5. from \in Int /\ IsFiniteSet(accepted) /\ \A x \in accepted : x.decided \in Int
  BY <1>2, AdmissionTypes, WindowAssumption DEF WindowInv
<1> HIDE DEF own, at, d, from
<1>6. ASSUME NEW k \in DOMAIN entries, ~Expired(entries[k], at)
      PROVE  /\ Cardinality(LetThroughSince(k, from)) >= entries[k].attempts
             /\ LetThroughSince(k, from) # {} /\ entries[k].attempts \in Nat
             /\ Cardinality(LetThroughSince(k, from)) \in Nat
  <2> DEFINE s == entries[k].startedAt
  <2>1. entries[k] \in Entry /\ CountedAt(k)
    BY <1>1, WindowParts, Zenon DEF WindowInv, Table
  <2>2. s \in Int /\ entries[k].attempts \in Nat /\ entries[k].attempts >= 1
    BY <2>1 DEF Entry, Times
  <2>3. from <= s
    BY <1>2, <1>6, <2>2, WindowAssumption DEF Expired, from
  <2>4. LetThroughSince(k, s) \subseteq LetThroughSince(k, from)
    BY <1>5, <2>2, <2>3 DEF LetThroughSince
  <2>5. IsFiniteSet(LetThroughSince(k, from))
    <3>1. LetThroughSince(k, from) \subseteq accepted
      BY Zenon DEF LetThroughSince
    <3> QED
      BY <1>5, <3>1, FS_Subset, Zenon
  <2>6. /\ Cardinality(LetThroughSince(k, s)) <= Cardinality(LetThroughSince(k, from))
        /\ Cardinality(LetThroughSince(k, s)) \in Nat
        /\ Cardinality(LetThroughSince(k, from)) \in Nat
    BY <2>4, <2>5, PartOf, Zenon
  <2>7. Cardinality(LetThroughSince(k, s)) >= entries[k].attempts
    BY <2>1, Zenon DEF CountedAt
  <2>8. LetThroughSince(k, from) # {}
    <3>1. Cardinality(LetThroughSince(k, from)) >= 1
      BY <2>2, <2>6, <2>7
    <3>2. Cardinality({}) = 0
      BY FS_EmptySet, Zenon
    <3> QED
      BY <3>1, <3>2
  <2> QED
    BY <2>2, <2>6, <2>7, <2>8
<1>7. CASE /\ own \in DOMAIN entries /\ ~Expired(entries[own], at)
           /\ entries[own].attempts >= Limit
  <2>1. /\ Cardinality(LetThroughSince(own, from)) >= entries[own].attempts
        /\ entries[own].attempts \in Nat /\ Cardinality(LetThroughSince(own, from)) \in Nat
    BY <1>6, <1>7, Zenon
  <2>2. Cardinality(LetThroughSince(own, from)) >= Limit
    BY <1>7, <2>1, WindowAssumption
  <2> QED
    BY <2>2, Zenon DEF own, from, at
<1>8. CASE /\ own \notin DOMAIN d.entries /\ DOMAIN d.entries \subseteq DOMAIN entries
           /\ Cardinality(DOMAIN d.entries) >= MaxEntries
           /\ \A k \in DOMAIN d.entries : ~Expired(entries[k], at)
  <2> DEFINE B == {a \in Addresses \ {own} : LetThroughSince(a, from) # {}}
             I == {x.address : x \in accepted}
  <2>1. DOMAIN d.entries \subseteq B
    <3>1. DOMAIN entries \subseteq Addresses
      BY <1>1, Zenon DEF Table
    <3> QED
      BY <1>6, <1>8, <3>1, Zenon
  <2>2. IsFiniteSet(B)
    <3>1. IsFiniteSet(I)
      <4> DEFINE f == [x \in accepted |-> x.address]
      <4>1. f \in Surjection(accepted, I)
        BY DEF Surjection
      <4> QED
        BY <1>5, <4>1, FS_Surjection, Zenon
    <3>2. B \subseteq I
      BY DEF LetThroughSince
    <3> QED
      BY <3>1, <3>2, FS_Subset, Zenon
  <2>3. /\ Cardinality(DOMAIN d.entries) <= Cardinality(B)
        /\ Cardinality(DOMAIN d.entries) \in Nat /\ Cardinality(B) \in Nat
    <3> HIDE DEF B
    <3> QED
      BY <2>1, <2>2, PartOf, Zenon
  <2>4. Cardinality(B) >= MaxEntries
    <3> HIDE DEF B
    <3> QED
      BY <1>8, <2>3, WindowAssumption
  <2> QED
    BY <2>4, Zenon DEF own, from, at
<1>9. Refuses(entries, d.entries, own, at)
  BY <1>3, <1>4, Zenon
<1> QED
  BY <1>7, <1>8, <1>9, Zenon DEF Refuses

\* A client is turned away only for as many attempts of its own address as a
\* window admits, or for live windows of as many other addresses as the table
\* holds, counted from less than a window before it arrived: stale windows lock
\* nobody out (ratelimit Allow, purgeExpired).
THEOREM RefusalsAreJustified == Spec => RefusalIsJustified
<1> DEFINE Justified ==
      \A c \in Conns : pc[c] = "arrived" /\ pc'[c] = "refused" =>
          LET own == attempt[c].address
              from == attempt[c].at - Window + 1
          IN  \/ Cardinality(LetThroughSince(own, from)) >= Limit
              \/ Cardinality({a \in Addresses \ {own} :
                     LetThroughSince(a, from) # {}}) >= MaxEntries
<1>1. ASSUME WindowInv, [Next]_vars, NEW c \in Conns, pc[c] = "arrived", pc'[c] = "refused"
      PROVE  CheckAttempt(c)
  <2>1. pc \in [Conns -> Places] /\ pc' # pc
    BY <1>1 DEF WindowInv, WindowTypes
  <2>2. ASSUME NEW e \in Conns, NEW w, Goto(e, w), e # c
        PROVE  FALSE
    BY <1>1, <2>1, <2>2 DEF Goto
  <2>3. ASSUME NEW e \in Conns, Arrive(e)
        PROVE  FALSE
    <3>1. Goto(e, "arrived") /\ pc[e] # "arrived"
      BY <2>3 DEF Arrive, Resting
    <3> QED
      BY <1>1, <2>2, <3>1, Zenon
  <2>4. ASSUME NEW e \in Conns,
               \/ TakeSlot(e) \/ NoSlot(e) \/ Upgrade(e) \/ UpgradeFails(e) \/ ReadFrame(e)
               \/ FrameFails(e) \/ MarkOnline(e) \/ LoadIdentity(e) \/ StartServing(e)
               \/ CloseUnauthenticated(e) \/ EndSession(e)
        PROVE  FALSE
    BY <1>1, <2>2, <2>4, LaterSteps, Zenon
  <2>5. ASSUME NEW e \in Conns, CheckAttempt(e)
        PROVE  e = c
    <3>1. Goto(e, "allowed") \/ Goto(e, "refused")
      BY <2>5, Zenon DEF CheckAttempt
    <3> QED
      BY <2>2, <3>1, Zenon
  <2>6. ~(Tick \/ RotateCredential \/ RevokeDevice \/ UNCHANGED vars)
    BY <2>1, Zenon DEF Tick, RotateCredential, RevokeDevice, vars, clientVars
  <2> QED
    BY <1>1, <2>3, <2>4, <2>5, <2>6, Zenon DEF Next, Handler
<1>2. WindowInv /\ [Next]_vars => [Justified]_vars
  <2> SUFFICES ASSUME WindowInv, [Next]_vars
               PROVE  Justified
    OBVIOUS
  <2> QED
    BY <1>1, RefusalCause, ZenonT(30)
<1> QED
  BY <1>2, InitWindows, StepWindows, PTL DEF Spec, RefusalIsJustified

\* Types, and the two bounds the handler must respect: no more handshakes at once
\* than authentication slots, no more windows than the limiter's table has room
\* for (authSlots, ratelimit maxEntries).
THEOREM TypeCorrect == Spec => []TypeOK
<1>1. SlotsInv /\ IdentityInv /\ WindowInv => TypeOK
  <2> SUFFICES ASSUME SlotsInv, IdentityInv, WindowInv
               PROVE  TypeOK
    OBVIOUS
  <2>1. authSlots \in 0..MaxConcurrent
    BY FS_CardinalityType, AdmissionAssumption DEF SlotsInv
  <2>2. /\ now \in Times /\ DOMAIN entries \subseteq Addresses
        /\ Cardinality(DOMAIN entries) <= MaxEntries
        /\ \A a \in DOMAIN entries : entries[a] \in [startedAt : Times, attempts : 1..Limit]
    BY Zenon DEF WindowInv, WindowTypes, Table, Entry
  <2>3. /\ pc \in [Conns -> Places] /\ tries \in [Conns -> 0..MaxTries]
        /\ attempt \in [Conns -> {NoAttempt} \cup [address : Addresses, at : Times]]
    BY Zenon DEF WindowInv, WindowTypes
  <2>4. /\ token \in [Conns -> 0..MaxVersion] /\ version \in [Conns -> 0..MaxVersion]
        /\ credential \in 1..MaxVersion /\ revoked \in BOOLEAN /\ late \subseteq Conns
    BY Zenon DEF IdentityInv
  <2> QED
    BY <2>1, <2>2, <2>3, <2>4, Zenon DEF TypeOK, Places
<1> QED
  BY <1>1, InitSlots, StepSlots, InitIdentity, StepIdentity, InitWindows, StepWindows, PTL
  DEF Spec

=============================================================================
