----------------------------- MODULE MCKeepalive -----------------------------
(* TLC instances of Keepalive.                                              *)
EXTENDS Keepalive

\* connect() fails at once, or when CONNECTION_TIMEOUT_MS is over.
AtOnceOrLate == {0, 5}
=============================================================================
