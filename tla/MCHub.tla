-------------------------------- MODULE MCHub --------------------------------
\* Instances of Hub for TLC: two or three connection attempts of one device.
EXTENDS Hub, TLC

CONSTANTS c1, c2, c3, d1

OneDevice == {d1}

Pair == {c1, c2}
DeviceOfPair == [c \in Pair |-> d1]

Trio == {c1, c2, c3}
DeviceOfTrio == [c \in Trio |-> d1]

\* Attempts of one device are interchangeable.
SymmetricTrio == Permutations(Trio)

=============================================================================
