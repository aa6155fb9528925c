--------------------------------- MODULE MCPing --------------------------------
(* Model-checking instance of PingCheck. *)
EXTENDS PingCheck
=============================================================================
