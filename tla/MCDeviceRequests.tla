-------------------------- MODULE MCDeviceRequests ---------------------------
\* Two devices, one of them rotated and revoked, with two requests in flight.
EXTENDS DeviceRequests, TLC

CONSTANTS d1, d2, s1, s2

TwoDevices == {d1, d2}
OneManaged == {d1}
TwoSlots == {s1, s2}

\* Slots are interchangeable.
Symmetric == Permutations(TwoSlots)

=============================================================================
