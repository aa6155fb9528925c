------------------------------ MODULE MCSessionIO -----------------------------
(* Model-checking instance of SessionIO. *)
EXTENDS SessionIO

\* The server numbers its requests from 1 like the poller does (the bundled endpoint's
\* outMsgId).  With MaxSeq = 3, the poller's handshake and its second request meet requests
\* of the server with the same ID, the third does not.
MCServerId == {1, 2}
=============================================================================
