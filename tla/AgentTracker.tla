------------------------------ MODULE AgentTracker -----------------------------
(***************************************************************************)
(* The bundled endpoint's connections and the tracker of its agents        *)
(* (endpoint/basic_server.go, endpoint/agent_tracker.go).  Each connection *)
(* has a frame decoder and a handler; one go routine, the tracker, greets  *)
(* agents and attributes metrics.  A hello makes an agent, so an agent is  *)
(* named by its connection; its source is the poller's GUID, which         *)
(* connections of one poller share.  Frames that change nothing here       *)
(* (heartbeats) and the frames written back are left out, and so is the    *)
(* agent's own work, which is module Agent.                                *)
(***************************************************************************)
EXTENDS Integers, Sequences

CONSTANTS
  Conn,                 \* connections, in the life of the server
  Source,               \* GUIDs of pollers
  SourceOf,             \* connection -> GUID in its frames
  NoAgent,
  framesChanSize,       \* capacity of a connection's channel of frames
  GreeterChanSize,
  MetricsPostsChanSize,
  MetricsStoreChanSize,
  Earlier,              \* bound: connection -> those that have ended before it is made
  MaxFrames             \* bound: connection -> number of its frames

ASSUME SourceOfAssumption == SourceOf \in [Conn -> Source]
ASSUME NoAgentAssumption == NoAgent \notin Conn
ASSUME SizesAssumption ==
  /\ framesChanSize \in Nat \ {0} /\ GreeterChanSize \in Nat \ {0}
  /\ MetricsPostsChanSize \in Nat \ {0} /\ MetricsStoreChanSize \in Nat \ {0}
ASSUME MaxFramesAssumption == MaxFrames \in [Conn -> Nat]

VARIABLES
  socket,         \* connection -> "none", "open" or "closed"
  decoder,        \* connection -> number of frames decoded, or -1 when runFrameDecoder has returned
  frames,         \* connection -> channel from its decoder to its handler
  handler,        \* connection -> where its runConnectionHandler is: "off", "select", "greeting", "recording",
                  \* "posting", "looking", "responding", "closing" or "done"
  agent,          \* connection -> "none", "live" or, after agent.Close, "cancelled"
  errors,         \* connection -> "none", "sent", or "seen" by waitOnAgentError
  respondTo,      \* connection -> the agent its handler delivers a response to
  checks,         \* connection -> "none", "offered" by applyInitialChecks, "watched" once accepted
  agentsByAddr,   \* connections with an entry; the entry is the agent of the connection
  agentsBySource, \* source -> agent
  agentsToGreet,  \* channel of agents
  metricsPosts,   \* channel of posts, reduced to their sources
  metrics,        \* number of posts waiting for the decomposer
  tracker,        \* where runAgentInteractions is: "select", "greeting", "attributing" or "storing"
  subject,        \* the agent or post it has taken
  process,        \* "crashed" after concurrent use of a map
  displaced       \* history: agents whose entry by source was deleted by the close of a duplicate

connVars == <<socket, decoder, frames>>
agentVars == <<agent, errors, checks>>
mapVars == <<agentsByAddr, agentsBySource>>
trackerVars == <<tracker, subject, agentsToGreet, metricsPosts, metrics>>
vars == <<connVars, handler, respondTo, agentVars, mapVars, trackerVars, process, displaced>>

Frame == {"hello", "helloNoZones", "metrics", "response", "unsupported", "finished"}

Init ==
  /\ socket = [c \in Conn |-> "none"]
  /\ decoder = [c \in Conn |-> 0]
  /\ frames = [c \in Conn |-> <<>>]
  /\ handler = [c \in Conn |-> "off"]
  /\ agent = [c \in Conn |-> "none"]
  /\ errors = [c \in Conn |-> "none"]
  /\ respondTo = [c \in Conn |-> NoAgent]
  /\ checks = [c \in Conn |-> "none"]
  /\ agentsByAddr = {}
  /\ agentsBySource = [s \in Source |-> NoAgent]
  /\ agentsToGreet = <<>> /\ metricsPosts = <<>> /\ metrics = 0
  /\ tracker = "select" /\ subject = NoAgent
  /\ process = "running" /\ displaced = {}

-----------------------------------------------------------------------------
(***************************************************************************)
(* The peer, the listener and runFrameDecoder.                             *)
(***************************************************************************)

Accept(c) ==
  /\ process = "running" /\ socket[c] = "none"
  /\ \A d \in Earlier[c] : socket[d] = "closed"
  /\ socket' = [socket EXCEPT ![c] = "open"]
  /\ handler' = [handler EXCEPT ![c] = "select"]
  /\ UNCHANGED <<decoder, frames, respondTo, agentVars, mapVars, trackerVars, process, displaced>>

\* What a poller sends next: a handshake first and once, and a response only to the
\* agent's frames, so not before the agent has sent some.
MaySend(c, f) ==
  IF decoder[c] = 0 THEN f \in {"hello", "helloNoZones"}
  ELSE f \in {"metrics", "unsupported"} \/ (f = "response" /\ checks[c] = "watched")

Decode(c, f) ==
  /\ process = "running"
  /\ socket[c] = "open" /\ decoder[c] \in 0 .. (MaxFrames[c] - 1)
  /\ MaySend(c, f)
  /\ Len(frames[c]) < framesChanSize
  /\ frames' = [frames EXCEPT ![c] = Append(@, f)]
  /\ decoder' = [decoder EXCEPT ![c] = @ + 1]
  /\ UNCHANGED <<socket, handler, respondTo, agentVars, mapVars, trackerVars, process, displaced>>

\* The end of the stream, a passed read deadline, or the server's own close.
DecoderFinishes(c) ==
  /\ process = "running"
  /\ socket[c] # "none" /\ decoder[c] >= 0
  /\ Len(frames[c]) < framesChanSize
  /\ frames' = [frames EXCEPT ![c] = Append(@, "finished")]
  /\ decoder' = [decoder EXCEPT ![c] = -1]
  /\ UNCHANGED <<socket, handler, respondTo, agentVars, mapVars, trackerVars, process, displaced>>

\* A frame that cannot be decoded: the decoder returns and tells no one.
DecoderFails(c) ==
  /\ process = "running"
  /\ socket[c] # "none" /\ decoder[c] >= 0
  /\ decoder' = [decoder EXCEPT ![c] = -1]
  /\ UNCHANGED <<socket, frames, handler, respondTo, agentVars, mapVars, trackerVars, process, displaced>>

(***************************************************************************)
(* runConnectionHandler and handleFrame.  A handler that is in a send to a *)
(* channel, or about to use one of the tracker's maps, has a state for it. *)
(***************************************************************************)

Goto(c, from, to) ==
  /\ process = "running"
  /\ handler[c] = from
  /\ handler' = [handler EXCEPT ![c] = to]

TakeFrame(c, f, to) ==
  /\ frames[c] # <<>> /\ Head(frames[c]) = f
  /\ Goto(c, "select", to)
  /\ frames' = [frames EXCEPT ![c] = Tail(@)]

\* newAgent starts the agent's coordinator, or reports that there are no zones.
HandleHello(c) ==
  /\ \/ TakeFrame(c, "hello", "greeting") /\ agent' = [agent EXCEPT ![c] = "live"] /\ errors' = errors
     \/ TakeFrame(c, "helloNoZones", "select") /\ errors' = [errors EXCEPT ![c] = "sent"] /\ agent' = agent
  /\ UNCHANGED <<socket, decoder, respondTo, checks, mapVars, trackerVars, process, displaced>>

\* NewAgentFromHello, up to and after its send to agentsToGreet.
SendToGreeter(c) ==
  /\ Len(agentsToGreet) < GreeterChanSize
  /\ Goto(c, "greeting", "recording")
  /\ agentsToGreet' = Append(agentsToGreet, c)
  /\ UNCHANGED <<connVars, respondTo, agentVars, mapVars, tracker, subject, metricsPosts, metrics, process, displaced>>

RecordByAddr(c) ==
  /\ Goto(c, "recording", "select")
  /\ agentsByAddr' = agentsByAddr \cup {c}
  /\ UNCHANGED <<connVars, respondTo, agentVars, agentsBySource, trackerVars, process, displaced>>

\* waitOnAgentError, which handleFrame starts when NewAgentFromHello has returned.
waitOnAgentError(c) ==
  /\ process = "running"
  /\ errors[c] = "sent" /\ handler[c] \notin {"greeting", "recording"}
  /\ errors' = [errors EXCEPT ![c] = "seen"]
  /\ socket' = [socket EXCEPT ![c] = "closed"]
  /\ UNCHANGED <<decoder, frames, handler, respondTo, agent, checks, mapVars, trackerVars, process, displaced>>

\* Metrics, a response, a method it does not support (the handler returns and closes the
\* connection, but not the agent), the end.
HandleFrame(c) ==
  /\ \/ TakeFrame(c, "metrics", "posting") /\ socket' = socket
     \/ TakeFrame(c, "response", "looking") /\ socket' = socket
     \/ TakeFrame(c, "unsupported", "done") /\ socket' = [socket EXCEPT ![c] = "closed"]
     \/ TakeFrame(c, "finished", "closing") /\ socket' = socket
  /\ UNCHANGED <<decoder, respondTo, agentVars, mapVars, trackerVars, process, displaced>>

handleCheckMetricsPost(c) ==
  /\ Len(metricsPosts) < MetricsPostsChanSize
  /\ Goto(c, "posting", "select")
  /\ metricsPosts' = Append(metricsPosts, SourceOf[c])
  /\ UNCHANGED <<connVars, respondTo, agentVars, mapVars, tracker, subject, agentsToGreet, metrics, process, displaced>>

\* handleResponse looks the agent up by the frame's source ...
LookUp(c) ==
  /\ LET a == agentsBySource[SourceOf[c]]
     IN  /\ Goto(c, "looking", IF a = NoAgent THEN "select" ELSE "responding")
         /\ respondTo' = [respondTo EXCEPT ![c] = a]
  /\ UNCHANGED <<connVars, agentVars, mapVars, trackerVars, process, displaced>>

\* ... and HandleResponse waits for the agent's coordinator, which ends with its context.
CoordinatorTakes(c) ==
  /\ handler[c] = "responding" /\ agent[respondTo[c]] = "live"
  /\ Goto(c, "responding", "select")
  /\ respondTo' = [respondTo EXCEPT ![c] = NoAgent]
  /\ UNCHANGED <<connVars, agentVars, mapVars, trackerVars, process, displaced>>

\* An agent of a source that another agent is, or was, known for: it was refused, is still
\* to be greeted, or has lost its own entry.
Duplicate(c) ==
  \/ errors[c] # "none" \/ c \in displaced
  \/ tracker = "greeting" /\ subject = c
  \/ \E i \in DOMAIN agentsToGreet : agentsToGreet[i] = c

\* History: the close of a duplicate takes the entry of whoever is known.
Displace(c) ==
  displaced' = IF c \in agentsByAddr /\ Duplicate(c)
               THEN displaced \cup ({agentsBySource[SourceOf[c]]} \ {c, NoAgent}) ELSE displaced

\* Mutant: the agent's context is not cancelled.
CloseAgentByAddrOpen(c) ==
  /\ Goto(c, "closing", "done")
  /\ socket' = [socket EXCEPT ![c] = "closed"]
  /\ agentsByAddr' = agentsByAddr \ {c}
  /\ agentsBySource' = IF c \in agentsByAddr THEN [agentsBySource EXCEPT ![SourceOf[c]] = NoAgent] ELSE agentsBySource
  /\ Displace(c)
  /\ UNCHANGED <<decoder, frames, respondTo, agentVars, trackerVars, process>>

\* Mutant: an agent deletes the entry by source only if it is its own.
CloseAgentByAddrOwn(c) ==
  /\ Goto(c, "closing", "done")
  /\ socket' = [socket EXCEPT ![c] = "closed"]
  /\ agentsByAddr' = agentsByAddr \ {c}
  /\ agent' = IF c \in agentsByAddr THEN [agent EXCEPT ![c] = "cancelled"] ELSE agent
  /\ agentsBySource' = [agentsBySource EXCEPT ![SourceOf[c]] = IF @ = c /\ c \in agentsByAddr THEN NoAgent ELSE @]
  /\ UNCHANGED <<decoder, frames, respondTo, errors, checks, trackerVars, process, displaced>>

\* The entry by source is deleted, whichever agent it refers to.
CloseAgentByAddr(c) ==
  /\ Goto(c, "closing", "done")
  /\ socket' = [socket EXCEPT ![c] = "closed"]
  /\ agentsByAddr' = agentsByAddr \ {c}
  /\ IF c \in agentsByAddr
     THEN /\ agentsBySource' = [agentsBySource EXCEPT ![SourceOf[c]] = NoAgent]
          /\ agent' = [agent EXCEPT ![c] = "cancelled"]
     ELSE UNCHANGED <<agentsBySource, agent>>
  /\ Displace(c)
  /\ UNCHANGED <<decoder, frames, respondTo, errors, checks, trackerVars, process>>

-----------------------------------------------------------------------------
(***************************************************************************)
(* runAgentInteractions, the tracker, and what it starts.                  *)
(***************************************************************************)

TakeGreeted ==
  /\ process = "running" /\ tracker = "select" /\ agentsToGreet # <<>>
  /\ tracker' = "greeting" /\ subject' = Head(agentsToGreet)
  /\ agentsToGreet' = Tail(agentsToGreet)
  /\ UNCHANGED <<connVars, handler, respondTo, agentVars, mapVars, metricsPosts, metrics, process, displaced>>

\* Mutant: a source that is already tracked is replaced.
handleGreetedAgentReplaces ==
  /\ process = "running" /\ tracker = "greeting"
  /\ agentsBySource' = [agentsBySource EXCEPT ![SourceOf[subject]] = subject]
  /\ checks' = [checks EXCEPT ![subject] = "offered"]
  /\ tracker' = "select" /\ subject' = NoAgent
  /\ UNCHANGED <<connVars, handler, respondTo, agent, errors, agentsByAddr, agentsToGreet, metricsPosts, metrics, process, displaced>>

\* An agent of a source that is already tracked gets an error and is not served.
handleGreetedAgent ==
  /\ process = "running" /\ tracker = "greeting"
  /\ IF agentsBySource[SourceOf[subject]] # NoAgent
     THEN errors' = [errors EXCEPT ![subject] = "sent"] /\ UNCHANGED <<agentsBySource, checks>>
     ELSE /\ agentsBySource' = [agentsBySource EXCEPT ![SourceOf[subject]] = subject]
          /\ checks' = [checks EXCEPT ![subject] = "offered"]
          /\ errors' = errors
  /\ tracker' = "select" /\ subject' = NoAgent
  /\ UNCHANGED <<connVars, handler, respondTo, agent, agentsByAddr, agentsToGreet, metricsPosts, metrics, process, displaced>>

\* applyInitialChecks hands its checks to the agent's coordinator.
OfferTaken(c) ==
  /\ process = "running"
  /\ checks[c] = "offered" /\ agent[c] = "live"
  /\ checks' = [checks EXCEPT ![c] = "watched"]
  /\ UNCHANGED <<connVars, handler, respondTo, agent, errors, mapVars, trackerVars, process, displaced>>

TakePost ==
  /\ process = "running" /\ tracker = "select" /\ metricsPosts # <<>>
  /\ tracker' = "attributing" /\ subject' = Head(metricsPosts)
  /\ metricsPosts' = Tail(metricsPosts)
  /\ UNCHANGED <<connVars, handler, respondTo, agentVars, mapVars, agentsToGreet, metrics, process, displaced>>

handleMetricsPostReq ==
  /\ process = "running" /\ tracker = "attributing"
  /\ tracker' = IF agentsBySource[subject] = NoAgent THEN "select" ELSE "storing"
  /\ subject' = NoAgent
  /\ UNCHANGED <<connVars, handler, respondTo, agentVars, mapVars, agentsToGreet, metricsPosts, metrics, process, displaced>>

Store ==
  /\ process = "running" /\ tracker = "storing" /\ metrics < MetricsStoreChanSize
  /\ tracker' = "select" /\ metrics' = metrics + 1
  /\ UNCHANGED <<connVars, handler, respondTo, agentVars, mapVars, subject, agentsToGreet, metricsPosts, process, displaced>>

runMetricsDecomposer ==
  /\ process = "running" /\ metrics > 0
  /\ metrics' = metrics - 1
  /\ UNCHANGED <<connVars, handler, respondTo, agentVars, mapVars, tracker, subject, agentsToGreet, metricsPosts, process, displaced>>

-----------------------------------------------------------------------------
(***************************************************************************)
(* The maps have no lock.  The runtime ends the process when it notices    *)
(* that one go routine writes a map while another one uses it.             *)
(***************************************************************************)

Go == Conn \cup {NoAgent}  \* the go routines that use the maps: handlers, and the tracker

\* A greeting that is refused only reads.
WritesBySource(g) ==
  IF g = NoAgent
  THEN tracker = "greeting" /\ agentsBySource[SourceOf[subject]] = NoAgent
  ELSE handler[g] = "closing" /\ g \in agentsByAddr
UsesBySource(g) ==
  WritesBySource(g) \/ IF g = NoAgent THEN tracker \in {"greeting", "attributing"} ELSE handler[g] = "looking"
UsesByAddr(g) == g # NoAgent /\ handler[g] \in {"recording", "closing"}
WritesByAddr(g) ==
  g # NoAgent /\ (handler[g] = "recording" \/ (handler[g] = "closing" /\ g \in agentsByAddr))

SourceRace == \E g, h \in Go : g # h /\ WritesBySource(g) /\ UsesBySource(h)
AddrRace == \E g, h \in Go : g # h /\ WritesByAddr(g) /\ UsesByAddr(h)

Crash ==
  /\ process = "running"
  /\ SourceRace \/ AddrRace
  /\ process' = "crashed"
  /\ UNCHANGED <<connVars, handler, respondTo, agentVars, mapVars, trackerVars, displaced>>

Handle(c) ==
  \/ HandleHello(c) \/ SendToGreeter(c) \/ RecordByAddr(c)
  \/ HandleFrame(c) \/ handleCheckMetricsPost(c) \/ LookUp(c) \/ CloseAgentByAddr(c)

Track == TakeGreeted \/ handleGreetedAgent \/ TakePost \/ handleMetricsPostReq \/ Store

Next ==
  \/ \E c \in Conn :
       \/ Accept(c) \/ (\E f \in Frame : Decode(c, f)) \/ DecoderFinishes(c) \/ DecoderFails(c)
       \/ HandleHello(c) \/ SendToGreeter(c) \/ RecordByAddr(c) \/ waitOnAgentError(c)
       \/ HandleFrame(c) \/ handleCheckMetricsPost(c) \/ LookUp(c) \/ CoordinatorTakes(c)
       \/ CloseAgentByAddr(c) \/ OfferTaken(c)
  \/ TakeGreeted \/ handleGreetedAgent \/ TakePost \/ handleMetricsPostReq \/ Store
  \/ runMetricsDecomposer
  \/ Crash

Spec == Init /\ [][Next]_vars

\* Go routines run, and a send that competes with others for a channel is not passed
\* over for ever, nor is a case of the tracker's select.  A read of a closed socket
\* returns.  Nothing is owed by the pollers.
FairSpec ==
  /\ Spec
  /\ \A c \in Conn :
       /\ SF_vars(Handle(c))
       /\ WF_vars(waitOnAgentError(c) \/ CoordinatorTakes(c))
       /\ WF_vars(socket[c] = "closed" /\ DecoderFinishes(c))
  /\ WF_vars(Track) /\ SF_vars(TakeGreeted)
  /\ WF_vars(runMetricsDecomposer)

-----------------------------------------------------------------------------
(***************************************************************************)
(* Properties.                                                             *)
(***************************************************************************)

\* The tracker knows every agent that it serves, so that its responses find it, from the
\* greeting until its own close, also if others of the source were served and closed
\* before.  The exception is what CloseAgentByAddr does to a poller whose connections
\* overlap: the close of a duplicate deletes the entry of the agent that is served.
KnownUnlessDisplaced ==
  \A c \in Conn :
    agent[c] = "live" /\ checks[c] # "none" => agentsBySource[SourceOf[c]] = c \/ c \in displaced

\* A response goes to the agent of the connection it came in on: the IDs of another
\* agent's frames are the same numbers.  An agent that a duplicate has displaced is
\* answered for by the poller's next agent, if there is one, and by no other poller's.
ResponseReachesItsAgent ==
  \A c \in Conn :
    handler[c] = "responding" =>
      respondTo[c] = c \/ (c \in displaced /\ SourceOf[respondTo[c]] = SourceOf[c])

\* The handler can no longer close the agent: it has returned on an unsupported frame,
\* or its decoder has returned without a word.
Abandoned(c) ==
  /\ c \in agentsByAddr
  /\ \/ handler[c] = "done"
     \/ decoder[c] = -1 /\ handler[c] # "closing" /\ \A i \in DOMAIN frames[c] : frames[c][i] # "finished"

\* The agent was closed before it was greeted, or will never be closed.
Gone(c) == agent[c] = "cancelled" \/ Abandoned(c)

EntryIsGone(s) == agentsBySource[s] # NoAgent /\ Gone(agentsBySource[s])

\* The agents of a source that were refused and are not closed yet.
Refused(s) == {c \in Conn : SourceOf[c] = s /\ errors[c] # "none" /\ agent[c] = "live"}

\* No source is locked out for good by the entry of an agent that is gone: the one that is
\* refused because of it is closed, and with it the entry, so that the poller's next
\* attempt succeeds, unless all that are refused are abandoned as well.
RefusalFreesSource ==
  \A s \in Source :
    (EntryIsGone(s) /\ Refused(s) # {})
      ~> \/ ~EntryIsGone(s)
         \/ Refused(s) # {} /\ \A c \in Refused(s) : Abandoned(c)
         \/ process = "crashed"

(***************************************************************************)
(* A statement of the repository that the code does not meet.              *)
(***************************************************************************)

\* agent_tracker.go on agentsBySource: "All access to this map must be performed in the
\* AgentTracker.start go routine", so that no two go routines use it at the same time.
MapIsConfined == ~SourceRace

=============================================================================
