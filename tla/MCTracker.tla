-------------------------------- MODULE MCTracker ------------------------------
(* Model-checking instance of AgentTracker. *)
EXTENDS AgentTracker

CONSTANTS a1, a2, a3

\* Two connections of one poller at a time: a3 is made when a2 has ended.  a1 sends
\* a frame after its handshake.
MCConn == {a1, a2, a3}
MCSource == {"guid"}
MCSourceOf == [c \in MCConn |-> "guid"]
MCEarlier == [c \in MCConn |-> IF c = a3 THEN {a2} ELSE {}]
MCMaxFrames == [c \in MCConn |-> IF c = a1 THEN 2 ELSE 1]
=============================================================================
