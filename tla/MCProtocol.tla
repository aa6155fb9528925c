------------------------------- MODULE MCProtocol ------------------------------
(* Model-checking instance of PrepareProtocol. *)
EXTENDS PrepareProtocol

MCCheckId == 1 .. 4
=============================================================================
