--------------------------- MODULE MCGuardServer ---------------------------
(***************************************************************************)
(* Model-checking instances of GuardServer.                                *)
(***************************************************************************)
EXTENDS GuardServer

=============================================================================
