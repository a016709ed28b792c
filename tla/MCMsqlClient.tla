---------------------------- MODULE MCMsqlClient ----------------------------
(* Model checking of MsqlClient.  The constants are in the configurations. *)
EXTENDS MsqlClient
=============================================================================
