------------------------------- MODULE SessionIO -------------------------------
(***************************************************************************)
(* The input and output of a session, poller/session.go: authentication,   *)
(* the table of completions that tells what a response answers, heartbeats *)
(* and the channels between the go routines that read, handle, send and    *)
(* beat.  What the poller.* frames do is the subject of module Session;    *)
(* here they are requests that the handler responds to.                    *)
(*                                                                         *)
(* The server is arbitrary: it answers, refuses, answers twice or not at   *)
(* all, and sends requests under IDs of its own choice.  Both ends number  *)
(* their requests independently.                                           *)
(***************************************************************************)
EXTENDS Integers, Sequences

CONSTANTS
  ServerId,         \* the IDs that the server gives to its requests
  sendChannelSize,  \* capacity of sendCh
  readChannelSize,  \* capacity of readCh
  MaxSeq,           \* bound: requests that the poller sends
  MaxFrames         \* bound: frames that the server sends

ASSUME ServerIdAssumption == ServerId \subseteq Nat \ {0}
ASSUME SizesAssumption == sendChannelSize \in Nat \ {0} /\ readChannelSize \in Nat \ {0}
ASSUME BoundsAssumption == MaxSeq \in Nat /\ MaxFrames \in Nat

VARIABLES
  ctx,                 \* "open" until the session's context is cancelled
  caller,              \* where the go routine of NewSession is in Auth
  authTimer,           \* "nil", "running", "stopped" or "fired"
  authenticated,       \* "yes" when the connection's channel of that name is closed
  refused,             \* history: an error response to the handshake was handled
  seq,                 \* last ID given to a request of the poller
  completions,         \* ID -> method, of the frames sent and not yet answered
  sender,              \* what runFrameSending is doing
  sendCh,              \* frames staged for sending
  written,             \* the poller's requests that the sender has written or is writing
  readCh,              \* frames read and not yet handled
  arrived,             \* number of frames that the server sent
  handler,             \* what runFrameHandlingAndTimeout is doing
  handling,            \* ID of the frame that it is handling
  workers,             \* IDs of the requests with a go routine of their own
  heartbeats,          \* what runHeartbeats is doing
  expectedSeqID,       \* of heartbeatMeasurement
  tracking,            \* the heartbeat whose send time is PollerSendTimestamp
  heartbeatResponses,  \* channel of capacity 1
  measured             \* history: <<heartbeat timed, heartbeat answered>>, per observation

authVars == <<caller, authTimer, authenticated, refused>>
heartbeatVars == <<heartbeats, expectedSeqID, tracking, heartbeatResponses, measured>>
handlerVars == <<handler, handling, workers>>
vars == <<ctx, authVars, seq, completions, sender, sendCh, written, readCh, arrived, handlerVars, heartbeatVars>>

SeqId == 1 .. MaxSeq
FrameId == SeqId \cup ServerId
Method == {"hello", "heartbeat", "metrics", "response"}
Frame == [method : Method, id : FrameId]
FromServer == [kind : {"answer", "refusal", "request", "query"}, id : FrameId]

Init ==
  /\ ctx = "open"
  /\ caller = "auth" /\ authTimer = "nil" /\ authenticated = "no" /\ refused = FALSE
  /\ seq = 0
  /\ completions = [i \in FrameId |-> "none"]
  /\ sender = "select" /\ sendCh = <<>> /\ written = {}
  /\ readCh = <<>> /\ arrived = 0
  /\ handler = "select" /\ handling = 0 /\ workers = {}
  /\ heartbeats = "off" /\ expectedSeqID = 0 /\ tracking = 0
  /\ heartbeatResponses = <<>> /\ measured = {}

-----------------------------------------------------------------------------
(***************************************************************************)
(* Send and Respond: the caller blocks while sendCh is full, whatever      *)
(* becomes of the session meanwhile.                                       *)
(***************************************************************************)

Stage(method, id) ==
  /\ Len(sendCh) < sendChannelSize
  /\ sendCh' = Append(sendCh, [method |-> method, id |-> id])

\* Auth: the handshake is staged first ...
AuthSend ==
  /\ caller = "auth" /\ seq < MaxSeq
  /\ seq' = seq + 1
  /\ Stage("hello", seq + 1)
  /\ caller' = "arm"
  /\ UNCHANGED <<ctx, sender, authTimer, authenticated, refused, completions, written, readCh, arrived, handlerVars, heartbeatVars>>

\* ... and only then the timer is set.
AuthArm ==
  /\ caller = "arm"
  /\ authTimer' = "running"
  /\ caller' = "ready"
  /\ UNCHANGED <<ctx, sender, authenticated, refused, seq, completions, sendCh, written, readCh, arrived, handlerVars, heartbeatVars>>

\* The timer closes the connection and with it the session.
AuthTimeout ==
  /\ authTimer = "running"
  /\ authTimer' = "fired"
  /\ ctx' = "done"
  /\ UNCHANGED <<sender, caller, authenticated, refused, seq, completions, sendCh, written, readCh, arrived, handlerVars, heartbeatVars>>

\* The connection stream posts metrics.
SendMetrics ==
  /\ caller = "ready" /\ authenticated = "yes" /\ seq < MaxSeq
  /\ seq' = seq + 1
  /\ Stage("metrics", seq + 1)
  /\ UNCHANGED <<ctx, sender, authVars, completions, written, readCh, arrived, handlerVars, heartbeatVars>>

-----------------------------------------------------------------------------
(***************************************************************************)
(* runFrameSending.                                                        *)
(***************************************************************************)

\* Every frame is recorded, a response to the server's own request too.
addCompletion(frame) == completions' = [completions EXCEPT ![frame.id] = frame.method]

\* case frame := <-s.sendCh, which the select may also choose when the context is done.
\* The frame is complete before the second Write, of the line end, returns: the server
\* may answer it already.
SendFrame ==
  /\ sender = "select" /\ sendCh # <<>>
  /\ sender' = "writing"
  /\ addCompletion(Head(sendCh))
  /\ sendCh' = Tail(sendCh)
  /\ written' = IF Head(sendCh).method = "response" THEN written ELSE written \cup {Head(sendCh)}
  /\ UNCHANGED <<ctx, authVars, seq, readCh, arrived, handlerVars, heartbeatVars>>

\* The Writes return.  Over TLS they need not: there is no deadline for them.
WriteReturns ==
  /\ sender = "writing"
  /\ sender' = "select"
  /\ UNCHANGED <<ctx, authVars, seq, completions, sendCh, written, readCh, arrived, handlerVars, heartbeatVars>>

\* Encode or Write fails: exitError.
SendFails ==
  /\ sender = "writing"
  /\ sender' = "done" /\ ctx' = "done"
  /\ UNCHANGED <<authVars, seq, completions, sendCh, written, readCh, arrived, handlerVars, heartbeatVars>>

SenderExits ==
  /\ sender = "select" /\ ctx = "done"
  /\ sender' = "done"
  /\ UNCHANGED <<ctx, authVars, seq, completions, sendCh, written, readCh, arrived, handlerVars, heartbeatVars>>

(***************************************************************************)
(* runFrameReading, and the server behind it.                              *)
(***************************************************************************)

Read(kind, id) ==
  /\ ctx = "open"
  /\ Len(readCh) < readChannelSize /\ arrived < MaxFrames
  /\ readCh' = Append(readCh, [kind |-> kind, id |-> id])
  /\ arrived' = arrived + 1
  /\ UNCHANGED <<ctx, sender, authVars, seq, completions, sendCh, written, handlerVars, heartbeatVars>>

ServerAnswers == \E f \in written : Read("answer", f.id)
ServerRefuses == \E f \in written : f.method = "hello" /\ Read("refusal", f.id)
ServerRequests == \E i \in ServerId : Read("request", i) \/ Read("query", i)

\* EOF, a read error, Close of the connection, or the stream's cancellation.
SessionEnds ==
  /\ ctx = "open"
  /\ ctx' = "done"
  /\ UNCHANGED <<sender, authVars, seq, completions, sendCh, written, readCh, arrived, handlerVars, heartbeatVars>>

-----------------------------------------------------------------------------
(***************************************************************************)
(* handleFrame and handleResponse.                                         *)
(***************************************************************************)

\* Mutant: the completion stays in the table.
getCompletionRequestKeeps(id) == completions' = completions

\* getCompletionRequest takes the completion out of the table.
getCompletionRequest(id) ==
  completions' = [completions EXCEPT ![id] = "none"]

\* The timer is stopped if Auth has already set it, for an error response too.
stopAuthTimer == authTimer' = IF authTimer = "running" THEN "stopped" ELSE authTimer

\* A handshake that was accepted starts the heartbeats, once, and closes the channel;
\* a second close is a panic.
HandleHandshake(f) ==
  /\ completions[f.id] = "hello"
  /\ stopAuthTimer
  /\ IF f.kind = "answer"
     THEN /\ heartbeats' = IF heartbeats = "off" THEN "select" ELSE heartbeats
          /\ authenticated' = IF authenticated = "no" THEN "yes" ELSE "panic"
          /\ refused' = refused
     ELSE /\ refused' = TRUE
          /\ UNCHANGED <<heartbeats, authenticated>>
  /\ UNCHANGED <<handler, handling, expectedSeqID, tracking, heartbeatResponses, measured>>

\* The handler is in the send to heartbeatResponses until it has room.
HandleHeartbeat(f) ==
  /\ completions[f.id] = "heartbeat"
  /\ handler' = "posting" /\ handling' = f.id
  /\ UNCHANGED <<authTimer, authenticated, refused, heartbeatVars>>

\* Mutant: any response stops the timer.
HandleOtherStops(f) ==
  /\ completions[f.id] \notin {"hello", "heartbeat"}
  /\ stopAuthTimer
  /\ UNCHANGED <<handler, handling, authenticated, refused, heartbeatVars>>

\* Metrics are acknowledged; anything else is logged or not known at all.
HandleOther(f) ==
  /\ completions[f.id] \notin {"hello", "heartbeat"}
  /\ UNCHANGED <<handler, handling, authTimer, authenticated, refused, heartbeatVars>>

\* case f := <-s.readCh
HandleResponse ==
  /\ handler = "select" /\ readCh # <<>>
  /\ Head(readCh).kind \in {"answer", "refusal"}
  /\ readCh' = Tail(readCh)
  /\ getCompletionRequest(Head(readCh).id)
  /\ HandleHandshake(Head(readCh)) \/ HandleHeartbeat(Head(readCh)) \/ HandleOther(Head(readCh))
  /\ UNCHANGED <<ctx, sender, caller, seq, sendCh, written, arrived, workers>>

PostHeartbeat ==
  /\ handler = "posting"
  /\ Len(heartbeatResponses) < 1
  /\ heartbeatResponses' = Append(heartbeatResponses, handling)
  /\ handler' = "select"
  /\ UNCHANGED <<ctx, sender, authVars, seq, completions, sendCh, written, readCh, arrived, handling, workers>>
  /\ UNCHANGED <<heartbeats, expectedSeqID, tracking, measured>>

\* A poller.* request that is handled in place.
HandleRequest ==
  /\ handler = "select" /\ readCh # <<>>
  /\ Head(readCh).kind = "request"
  /\ readCh' = Tail(readCh)
  /\ handler' = "responding" /\ handling' = Head(readCh).id
  /\ UNCHANGED <<ctx, sender, authVars, seq, completions, sendCh, written, arrived, workers, heartbeatVars>>

Respond ==
  /\ handler = "responding"
  /\ Stage("response", handling)
  /\ handler' = "select"
  /\ UNCHANGED <<ctx, sender, authVars, seq, completions, written, readCh, arrived, handling, workers, heartbeatVars>>

\* host_info.get and poller.check_test run in a go routine of their own.
HandleQuery ==
  /\ handler = "select" /\ readCh # <<>>
  /\ Head(readCh).kind = "query"
  /\ readCh' = Tail(readCh)
  /\ workers' = workers \cup {Head(readCh).id}
  /\ UNCHANGED <<ctx, sender, authVars, seq, completions, sendCh, written, arrived, handler, handling, heartbeatVars>>

\* The query is answered, or given up with a log entry only.
WorkerResponds(i) ==
  /\ i \in workers
  /\ workers' = workers \ {i}
  /\ Stage("response", i)
  /\ UNCHANGED <<ctx, sender, authVars, seq, completions, written, readCh, arrived, handler, handling, heartbeatVars>>

WorkerGivesUp(i) ==
  /\ i \in workers
  /\ workers' = workers \ {i}
  /\ UNCHANGED <<ctx, sender, authVars, seq, completions, sendCh, written, readCh, arrived, handler, handling, heartbeatVars>>

HandlerExits ==
  /\ ctx = "done" /\ handler = "select"
  /\ handler' = "done"
  /\ UNCHANGED <<ctx, sender, authVars, seq, completions, sendCh, written, readCh, arrived, handling, workers, heartbeatVars>>

-----------------------------------------------------------------------------
(***************************************************************************)
(* runHeartbeats.                                                          *)
(***************************************************************************)

\* case <-time.After(s.heartbeatInterval): prepareHeartbeatMeasurement, and the send.
HeartbeatDue ==
  /\ heartbeats = "select" /\ seq < MaxSeq
  /\ seq' = seq + 1
  /\ expectedSeqID' = seq + 1 /\ tracking' = seq + 1
  /\ heartbeats' = "sending"
  /\ UNCHANGED <<ctx, sender, authVars, completions, sendCh, written, readCh, arrived, handlerVars, heartbeatResponses, measured>>

HeartbeatSend ==
  /\ heartbeats = "sending"
  /\ Stage("heartbeat", expectedSeqID)
  /\ heartbeats' = "select"
  /\ UNCHANGED <<ctx, sender, authVars, seq, completions, written, readCh, arrived, handlerVars>>
  /\ UNCHANGED <<expectedSeqID, tracking, heartbeatResponses, measured>>

\* Mutant: the ID of the response is not compared.
updateHeartbeatMeasurementAny(id) == measured' = measured \cup {<<tracking, id>>}

\* An answer to an earlier heartbeat is not measured.
updateHeartbeatMeasurement(id) ==
  measured' = IF expectedSeqID = id THEN measured \cup {<<tracking, id>>} ELSE measured

\* Mutant: a response that is out of sequence is left in the channel.
HeartbeatMeasureInSequence ==
  /\ heartbeats = "select" /\ heartbeatResponses # <<>>
  /\ Head(heartbeatResponses) = expectedSeqID
  /\ updateHeartbeatMeasurement(Head(heartbeatResponses))
  /\ heartbeatResponses' = Tail(heartbeatResponses)
  /\ UNCHANGED <<ctx, sender, authVars, seq, completions, sendCh, written, readCh, arrived, handlerVars>>
  /\ UNCHANGED <<heartbeats, expectedSeqID, tracking>>

HeartbeatMeasure ==
  /\ heartbeats = "select" /\ heartbeatResponses # <<>>
  /\ updateHeartbeatMeasurement(Head(heartbeatResponses))
  /\ heartbeatResponses' = Tail(heartbeatResponses)
  /\ UNCHANGED <<ctx, sender, authVars, seq, completions, sendCh, written, readCh, arrived, handlerVars>>
  /\ UNCHANGED <<heartbeats, expectedSeqID, tracking>>

HeartbeatsExit ==
  /\ ctx = "done" /\ heartbeats = "select"
  /\ heartbeats' = "done"
  /\ UNCHANGED <<ctx, sender, authVars, seq, completions, sendCh, written, readCh, arrived, handlerVars>>
  /\ UNCHANGED <<expectedSeqID, tracking, heartbeatResponses, measured>>

Next ==
  \/ AuthSend \/ AuthArm \/ AuthTimeout \/ SendMetrics
  \/ SendFrame \/ WriteReturns \/ SendFails \/ SenderExits
  \/ ServerAnswers \/ ServerRefuses \/ ServerRequests \/ SessionEnds
  \/ HandleResponse \/ PostHeartbeat \/ HandleRequest \/ Respond \/ HandleQuery \/ HandlerExits
  \/ \E i \in ServerId : WorkerResponds(i) \/ WorkerGivesUp(i)
  \/ HeartbeatDue \/ HeartbeatSend \/ HeartbeatMeasure \/ HeartbeatsExit

Spec == Init /\ [][Next]_vars

\* The go routines run, those that wait to send to a channel are served in turn, and a
\* select does not neglect a case for ever.  The server owes nothing, nothing makes a Write
\* return or fail, and nothing makes a session end.
FairSpec ==
  /\ Spec
  /\ WF_vars(AuthSend \/ AuthArm) /\ WF_vars(SendFrame \/ SenderExits)
  /\ WF_vars(HandleResponse \/ HandleRequest \/ HandleQuery \/ HandlerExits) /\ WF_vars(PostHeartbeat)
  /\ SF_vars(Respond) /\ SF_vars(HeartbeatSend) /\ SF_vars(HeartbeatMeasure)

-----------------------------------------------------------------------------
(***************************************************************************)
(* Properties.                                                             *)
(***************************************************************************)

\* Every variable holds a value of its type and every channel respects its capacity;
\* the channel authenticated is never closed twice, which would be a panic.
TypeOK ==
  /\ ctx \in {"open", "done"}
  /\ caller \in {"auth", "arm", "ready"}
  /\ authTimer \in {"nil", "running", "stopped", "fired"}
  /\ authenticated \in {"no", "yes"} /\ refused \in BOOLEAN
  /\ seq \in 0 .. MaxSeq
  /\ completions \in [FrameId -> Method \cup {"none"}]
  /\ sender \in {"select", "writing", "done"}
  /\ sendCh \in Seq(Frame) /\ Len(sendCh) <= sendChannelSize
  /\ written \subseteq Frame
  /\ readCh \in Seq(FromServer) /\ Len(readCh) <= readChannelSize
  /\ arrived \in 0 .. MaxFrames
  /\ handler \in {"select", "posting", "responding", "done"}
  /\ handling \in FrameId \cup {0}
  /\ workers \subseteq ServerId
  /\ heartbeats \in {"off", "select", "sending", "done"}
  /\ expectedSeqID \in 0 .. MaxSeq /\ tracking \in 0 .. MaxSeq
  /\ heartbeatResponses \in Seq(SeqId) /\ Len(heartbeatResponses) <= 1
  /\ measured \subseteq SeqId \X SeqId

\* Clock offset and latency are computed from the send time of the very heartbeat that
\* the response answers, although heartbeats overlap, answers come late or twice and
\* the server's IDs coincide with the poller's.
MeasuresItsOwn == \A m \in measured : m[1] = m[2]

\* Both ends number their requests from 1, so that a response of the poller may replace the
\* record of its own handshake, whose answer then means nothing to it.  That never leaves
\* a session that is open and out of use for good: once Auth has returned, an open session
\* is authenticated, was told an error, or still has the timer that closes it.
UnauthenticatedIsTimed ==
  caller = "ready" /\ ctx = "open" => authenticated = "yes" \/ refused \/ authTimer = "running"

\* The sender is in a Write that does not return, and what is staged behind it fills sendCh.
Clogged == sender = "writing" /\ Len(sendCh) = sendChannelSize

\* The go routines that handle, send and beat never wait for each other in a circle: as
\* long as the session lives, the handler gets back to its select, unless the server
\* never takes what is written to it.
HandlerReturns ==
  handler \in {"posting", "responding"} ~> (handler = "select" \/ ctx = "done" \/ []Clogged)

=============================================================================
