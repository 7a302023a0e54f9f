--------------------------- MODULE MCRelaySession ---------------------------
(* Durable delivery for TLC.                                                 *)
EXTENDS RelaySession

=============================================================================
