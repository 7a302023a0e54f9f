--------------------------- MODULE MCRegistryAccess ---------------------------
\* Instances of RegistryAccess for TLC.
EXTENDS RegistryAccess, TLC

CONSTANTS d1, d2, a1, a2

\* Administrators are interchangeable.
SymmetricAdmins == Permutations({a1, a2})

=============================================================================
