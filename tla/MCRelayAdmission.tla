-------------------------- MODULE MCRelayAdmission ---------------------------
\* Two clients that connect from either of two addresses; one slot, and a
\* table with room for one address.
EXTENDS RelayAdmission, TLC

CONSTANTS c1, c2, a1, a2

Clients == {c1, c2}
TwoAddresses == {a1, a2}

=============================================================================
