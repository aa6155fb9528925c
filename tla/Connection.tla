------------------------------- MODULE Connection ------------------------------
(***************************************************************************)
(* How a connection ends: poller/connection.go with the go routines of its *)
(* session (poller/session.go) that read, handle and send, and the one of  *)
(* runHostConnection that watches it.  Frames are reduced to how they      *)
(* answer the handshake; what else they say is the subject of SessionIO    *)
(* and Session.                                                            *)
(*                                                                         *)
(* The far end serves, falls silent (it neither reads nor writes any more, *)
(* and its socket stays open) or closes.  Deadlines exist on a *TCPConn    *)
(* only: SetReadDeadline and SetWriteDeadline do nothing for any other     *)
(* type, in particular for TLS.                                            *)
(***************************************************************************)
EXTENDS Naturals, Sequences

CONSTANTS
  readChannelSize,  \* capacity of readCh
  sendChannelSize   \* capacity of sendCh

ASSUME SizesAssumption == readChannelSize \in Nat \ {0} /\ sendChannelSize \in Nat \ {0}

VARIABLES
  transport,  \* the type of conn.conn: "tcp" is *net.TCPConn, "tls" any other
  farend,     \* what the far end does: "serving", "silent" or "gone"
  socket,     \* whether the poller's end is open
  conn,       \* the field conn.conn: "set" or "nil"
  ctx,        \* the session's context: "open" or "done"
  cancelled,  \* the stream's context was cancelled
  authTimer,  \* the session's timer of that name: "unset", "running", "closing" or "off"
  hello,      \* the handshake: "staged", "sent", or how it was answered, "welcome" or "refusal"
  reader,     \* runFrameReading: "top", "decoding", "done", or the frame that it passes on
  handler,    \* runFrameHandlingAndTimeout: "select", "responding" or "done"
  sender,     \* runFrameSending: "select", "fetching", "writing" or "done"
  readCh,     \* frames read and not yet handled
  sendCh,     \* number of frames staged
  host,       \* runHostConnection: "watching", "closing", "aged", "leaving" or "gone"
  process     \* "crashed" after a nil dereference

closeVars == <<socket, conn>>
chVars == <<readCh, sendCh>>
authVars == <<authTimer, hello>>
vars == <<transport, farend, closeVars, ctx, cancelled, authVars, reader, handler, sender, chVars, host, process>>

Frame == {"welcome", "refusal", "request"}

\* conn.Connect has dialed, NewSession has started the go routines and staged the
\* handshake.
Init ==
  /\ transport \in {"tcp", "tls"}
  /\ farend = "serving"
  /\ socket = "open" /\ conn = "set"
  /\ ctx = "open" /\ cancelled = FALSE
  /\ authTimer = "unset" /\ hello = "staged"
  /\ reader = "top"
  /\ handler = "select" /\ sender = "select"
  /\ readCh = <<>> /\ sendCh = 1
  /\ host = "watching"
  /\ process = "running"

-----------------------------------------------------------------------------
(***************************************************************************)
(* The far end.                                                            *)
(***************************************************************************)

FarEndStops ==
  /\ farend = "serving"
  /\ farend' \in {"silent", "gone"}
  /\ UNCHANGED <<transport, closeVars, ctx, cancelled, authVars, reader, handler, sender, chVars, host, process>>

-----------------------------------------------------------------------------
(***************************************************************************)
(* runFrameReading.                                                        *)
(***************************************************************************)

ReaderSteps == UNCHANGED <<transport, farend, closeVars, cancelled, authVars, handler, sender, sendCh, host, process>>

\* The test of the context, SetReadDeadline and the call of Decode.
BeginRead ==
  /\ reader = "top"
  /\ reader' = IF ctx = "done" THEN "done" ELSE "decoding"
  /\ ReaderSteps /\ UNCHANGED <<ctx, readCh>>

\* A response to the handshake is only found among the completions once it was sent.
Decode ==
  /\ reader = "decoding"
  /\ farend = "serving" /\ socket = "open"
  /\ reader' \in {f \in Frame : f # "request" => hello = "sent"}
  /\ ReaderSteps /\ UNCHANGED <<ctx, readCh>>

\* What arrives is no frame.
DecodeMalformed ==
  /\ reader = "decoding"
  /\ farend = "serving" /\ socket = "open"
  /\ reader' = "done" /\ ctx' = "done"
  /\ ReaderSteps /\ UNCHANGED readCh

\* Mutant: the end of the stream does not cancel the session.
DecodeFailsQuietly ==
  /\ reader = "decoding"
  /\ farend = "gone" \/ socket = "closed"
  /\ reader' = "done"
  /\ ReaderSteps /\ UNCHANGED <<ctx, readCh>>

\* io.EOF, or the error of a socket that Close has closed.
DecodeFails ==
  /\ reader = "decoding"
  /\ farend = "gone" \/ socket = "closed"
  /\ reader' = "done" /\ ctx' = "done"
  /\ ReaderSteps /\ UNCHANGED readCh

\* The read deadline, which is set anew before each Decode.
ReadTimesOut ==
  /\ reader = "decoding"
  /\ transport = "tcp"
  /\ reader' = "done" /\ ctx' = "done"
  /\ ReaderSteps /\ UNCHANGED readCh

\* s.readCh <- f, which does not look at the context.
PassOn ==
  /\ reader \in Frame /\ Len(readCh) < readChannelSize
  /\ readCh' = Append(readCh, reader)
  /\ reader' = "top"
  /\ ReaderSteps /\ UNCHANGED ctx

-----------------------------------------------------------------------------
(***************************************************************************)
(* runFrameHandlingAndTimeout, and Send and Respond from anywhere.         *)
(***************************************************************************)

HandlerSteps == UNCHANGED <<transport, farend, closeVars, ctx, cancelled, reader, sender, host, process>>

\* Mutant: the timer is stopped by any frame.
stopAuthTimerAny(f) == IF authTimer = "running" THEN "off" ELSE authTimer

\* The first response to the handshake stops the timer, if there is one yet.
stopAuthTimer(f) ==
  IF f # "request" /\ hello = "sent" /\ authTimer = "running" THEN "off" ELSE authTimer

\* Of the methods with a response those answered by the handler itself.  A refusal is an
\* error of the frame only: the session goes on, unauthenticated and without heartbeats.
HandleFrame ==
  /\ handler = "select" /\ readCh # <<>>
  /\ readCh' = Tail(readCh)
  /\ LET f == Head(readCh) IN
       /\ authTimer' = stopAuthTimer(f)
       /\ hello' = IF f # "request" /\ hello = "sent" THEN f ELSE hello
       /\ handler' = IF f = "request" THEN "responding" ELSE handler
  /\ HandlerSteps /\ UNCHANGED sendCh

Respond ==
  /\ handler = "responding" /\ sendCh < sendChannelSize
  /\ sendCh' = sendCh + 1
  /\ handler' = "select"
  /\ HandlerSteps /\ UNCHANGED <<authVars, readCh>>

HandlerExits ==
  /\ handler = "select" /\ ctx = "done"
  /\ handler' = "done"
  /\ HandlerSteps /\ UNCHANGED <<authVars, chVars>>

\* runHeartbeats and the stream's coordinator stage frames too, once there was a welcome.
Stage ==
  /\ hello = "welcome" /\ sendCh < sendChannelSize
  /\ sendCh' = sendCh + 1
  /\ HandlerSteps /\ UNCHANGED <<authVars, readCh, handler>>

-----------------------------------------------------------------------------
(***************************************************************************)
(* runFrameSending.  The two writes of a frame are one.                    *)
(***************************************************************************)

SenderSteps == UNCHANGED <<transport, farend, closeVars, cancelled, authTimer, reader, handler, readCh, host>>

\* case frame := <-s.sendCh, which the select may also choose when the context is done;
\* addCompletion. The first frame is the handshake.
TakeFrame ==
  /\ sender = "select" /\ sendCh > 0
  /\ sendCh' = sendCh - 1
  /\ sender' = "fetching"
  /\ hello' = IF hello = "staged" THEN "sent" ELSE hello
  /\ SenderSteps /\ UNCHANGED <<ctx, process>>

\* SetWriteDeadline and GetFarendWriter().Write: a nil writer is a panic.
BeginWrite ==
  /\ sender = "fetching"
  /\ \/ conn = "set" /\ sender' = "writing" /\ process' = process
     \/ conn = "nil" /\ sender' = sender /\ process' = "crashed"
  /\ SenderSteps /\ UNCHANGED <<hello, ctx, sendCh>>

\* A silent far end may still have room in its buffers.
Write ==
  /\ sender = "writing"
  /\ farend # "gone" /\ socket = "open"
  /\ sender' = "select"
  /\ SenderSteps /\ UNCHANGED <<hello, ctx, sendCh, process>>

\* exitError and the deferred cancel.
WriteFails ==
  /\ sender = "writing"
  /\ farend = "gone" \/ socket = "closed"
  /\ sender' = "done" /\ ctx' = "done"
  /\ SenderSteps /\ UNCHANGED <<hello, sendCh, process>>

\* The write deadline.
WriteTimesOut ==
  /\ sender = "writing"
  /\ transport = "tcp" /\ farend = "silent"
  /\ sender' = "done" /\ ctx' = "done"
  /\ SenderSteps /\ UNCHANGED <<hello, sendCh, process>>

SenderExits ==
  /\ sender = "select" /\ ctx = "done"
  /\ sender' = "done"
  /\ SenderSteps /\ UNCHANGED <<hello, ctx, sendCh, process>>

-----------------------------------------------------------------------------
(***************************************************************************)
(* Who closes: the timer of Auth, and the host's go routine at the maximum *)
(* age of a proxied connection and on cancellation.                        *)
(***************************************************************************)

\* The host is in its select, with the maximum age ahead or behind it.
Watching == {"watching", "aged"}

CloserSteps == UNCHANGED <<transport, farend, hello, reader, handler, sender, chVars>>

\* Connection.Close up to the test of conn.conn: without a connection there is only
\* GetSession().Close().
BeginClose == ctx' = IF conn = "set" THEN ctx ELSE "done"

\* Mutant: the field is cleared and the socket left open.
FinishCloseForgets ==
  /\ \/ conn = "set" /\ conn' = "nil" /\ UNCHANGED <<socket, process>>
     \/ conn = "nil" /\ process' = "crashed" /\ UNCHANGED closeVars
  /\ ctx' = "done"

\* The rest of it: conn.conn.Close(), conn.conn = nil and the end of the session.  If
\* another Close came between the test and this, conn.conn is nil, and a panic.
FinishClose ==
  /\ \/ conn = "set" /\ socket' = "closed" /\ conn' = "nil" /\ UNCHANGED process
     \/ conn = "nil" /\ process' = "crashed" /\ UNCHANGED closeVars
  /\ ctx' = "done"

\* Auth sets the timer after it has staged the handshake.
Arm ==
  /\ authTimer = "unset"
  /\ authTimer' = "running"
  /\ CloserSteps /\ UNCHANGED <<closeVars, ctx, cancelled, host, process>>

AuthTimeout ==
  /\ authTimer = "running"
  /\ authTimer' = IF conn = "set" THEN "closing" ELSE "off"
  /\ BeginClose
  /\ CloserSteps /\ UNCHANGED <<closeVars, cancelled, host, process>>

TimerCloses ==
  /\ authTimer = "closing"
  /\ authTimer' = "off"
  /\ FinishClose
  /\ CloserSteps /\ UNCHANGED <<cancelled, host>>

\* The stream's context is the parent of the session's.
Cancel ==
  /\ ~cancelled
  /\ cancelled' = TRUE /\ ctx' = "done"
  /\ CloserSteps /\ UNCHANGED <<closeVars, authTimer, host, process>>

\* case <-cs.ctx.Done()
HostSeesCancel ==
  /\ host \in Watching /\ cancelled
  /\ host' = IF conn = "set" THEN "leaving" ELSE "gone"
  /\ BeginClose
  /\ CloserSteps /\ UNCHANGED <<closeVars, cancelled, authTimer, process>>

\* case <-maxConnectionAgeChan, once.
MaxAge ==
  /\ host = "watching"
  /\ host' = IF conn = "set" THEN "closing" ELSE "aged"
  /\ BeginClose
  /\ CloserSteps /\ UNCHANGED <<closeVars, cancelled, authTimer, process>>

\* case <-conn.Done(): the connection is deregistered and forgotten, not closed.
HostSeesDone ==
  /\ host \in Watching /\ ctx = "done"
  /\ host' = "gone"
  /\ CloserSteps /\ UNCHANGED <<closeVars, ctx, cancelled, authTimer, process>>

\* The host returns after a cancellation, and goes back to its select at the maximum age.
HostCloses ==
  /\ host \in {"closing", "leaving"}
  /\ host' = IF host = "leaving" THEN "gone" ELSE "aged"
  /\ FinishClose
  /\ CloserSteps /\ UNCHANGED <<cancelled, authTimer>>

-----------------------------------------------------------------------------
(***************************************************************************)
(* The go routines.                                                        *)
(***************************************************************************)

ReaderNext == BeginRead \/ DecodeFails \/ PassOn
HandlerNext == HandleFrame \/ Respond \/ HandlerExits
SenderNext == TakeFrame \/ BeginWrite \/ WriteFails \/ SenderExits
TimerNext == Arm \/ AuthTimeout \/ TimerCloses
HostNext == HostSeesCancel \/ HostSeesDone \/ HostCloses

Next ==
  /\ process = "running"
  /\ \/ FarEndStops \/ Decode \/ DecodeMalformed \/ ReaderNext \/ ReadTimesOut
     \/ HandlerNext \/ Stage
     \/ SenderNext \/ Write \/ WriteTimesOut
     \/ TimerNext \/ HostNext \/ Cancel \/ MaxAge

Spec == Init /\ [][Next]_vars

Running(A) == process = "running" /\ A

\* A go routine that can go on does, and a deadline or timer that is set expires.  A
\* silent far end need not take what is written, and nothing else is owed.  Go routines
\* that wait to send to a channel are served in turn, hence the strong fairness.
FairSpec ==
  /\ Spec
  /\ WF_vars(Running(ReaderNext)) /\ WF_vars(Running(ReadTimesOut))
  /\ WF_vars(Running(HandlerNext)) /\ SF_vars(Running(Respond))
  /\ WF_vars(Running(SenderNext)) /\ WF_vars(Running(Write /\ farend = "serving")) /\ WF_vars(Running(WriteTimesOut))
  /\ WF_vars(Running(TimerNext)) /\ WF_vars(Running(HostNext))

-----------------------------------------------------------------------------
(***************************************************************************)
(* Properties.                                                             *)
(***************************************************************************)

Over == ctx = "done" \/ process = "crashed"

\* A session whose far end has closed the connection ends, and so does, by a deadline of
\* the reader, one whose far end falls silent on a plain TCP connection, also if reader
\* and handler are held up by full channels when that happens.  Over TLS nothing ends a
\* session with a silent far end once the handshake was answered.
LostEnds == (farend = "gone" \/ (farend = "silent" /\ transport = "tcp")) ~> Over

Unanswered == hello \in {"staged", "sent"}

\* A session whose handshake is not answered ends, whatever else the far end sends and
\* over either transport: the timer of Auth is the only thing that ends it over TLS.
UnansweredEnds == Unanswered ~> (~Unanswered \/ Over)

\* Once somebody has been through Close, no go routine waits for the network any more.
CloseReleases ==
  conn = "nil" ~> (process = "crashed" \/ [](reader # "decoding" /\ sender # "writing"))

=============================================================================
