----------------------------- MODULE MCSessionEnd -----------------------------
\* SessionEnd has no constants: one session is already finite.
EXTENDS SessionEnd

=============================================================================
