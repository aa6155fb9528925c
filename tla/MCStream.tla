-------------------------------- MODULE MCStream -------------------------------
(* Model-checking instance of ConnectionStream: two hosts, one of which reconnects. *)
EXTENDS ConnectionStream

CONSTANTS h1, h2

MCHost == {h1, h2}
MCReconnecting == {h1}
=============================================================================
