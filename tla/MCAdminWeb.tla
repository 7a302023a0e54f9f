----------------------------- MODULE MCAdminWeb ------------------------------
\* The administrator's web service with two requests served at a time.
EXTENDS AdminWeb, TLC

CONSTANTS r1, r2

TwoRequests == {r1, r2}

\* Requests are interchangeable.
Symmetric == Permutations(TwoRequests)

=============================================================================
