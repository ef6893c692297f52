------------------------- MODULE MCClientConnection -------------------------
(***************************************************************************)
(* Values for checking ClientConnection: the limits of the code, and       *)
(* smaller ones for liveness.                                              *)
(***************************************************************************)
EXTENDS ClientConnection

Seven == 7
Three == 3
Two == 2
=============================================================================
