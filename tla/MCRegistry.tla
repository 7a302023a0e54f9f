------------------------------ MODULE MCRegistry ------------------------------
\* Instances of Registry for TLC.
EXTENDS Registry, TLC

CONSTANTS d1, d2

\* Devices are interchangeable; keys are not, one of them is InitialKey.
SymmetricDevices == Permutations({d1, d2})

=============================================================================
