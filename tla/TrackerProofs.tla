------------------------------ MODULE TrackerProofs -----------------------------
(***************************************************************************)
(* What AgentTracker says of the agents that the tracker serves holds for  *)
(* every number of connections and pollers and every capacity of the       *)
(* channels between the connections and the tracker.                       *)
(***************************************************************************)
EXTENDS AgentTracker, TLAPS

USE SourceOfAssumption, NoAgentAssumption, SizesAssumption, MaxFramesAssumption

-----------------------------------------------------------------------------
(***************************************************************************)
(* The inductive invariant.                                                *)
(***************************************************************************)

HandlerState ==
  {"off", "select", "greeting", "recording", "posting", "looking", "responding", "closing", "done"}

\* Every variable holds a value of its type and every channel respects its capacity.
TypeOK ==
  /\ socket \in [Conn -> {"none", "open", "closed"}]
  /\ decoder \in [Conn -> Int]
  /\ frames \in [Conn -> Seq(Frame)] /\ \A c \in Conn : Len(frames[c]) <= framesChanSize
  /\ handler \in [Conn -> HandlerState]
  /\ agent \in [Conn -> {"none", "live", "cancelled"}]
  /\ errors \in [Conn -> {"none", "sent", "seen"}]
  /\ respondTo \in [Conn -> Conn \cup {NoAgent}]
  /\ checks \in [Conn -> {"none", "offered", "watched"}]
  /\ agentsByAddr \subseteq Conn
  /\ agentsBySource \in [Source -> Conn \cup {NoAgent}]
  /\ agentsToGreet \in Seq(Conn) /\ Len(agentsToGreet) <= GreeterChanSize
  /\ metricsPosts \in Seq(Source) /\ Len(metricsPosts) <= MetricsPostsChanSize
  /\ metrics \in 0 .. MetricsStoreChanSize
  /\ tracker \in {"select", "greeting", "attributing", "storing"}
  /\ process \in {"running", "crashed"}
  /\ displaced \subseteq Conn

\* A handler that has closed its agent does nothing more.
Ended ==
  \A c \in Conn :
    /\ socket[c] = "none" => handler[c] = "off"
    /\ agent[c] = "cancelled" => handler[c] = "done"

\* Only agents are greeted, and only what is greeted is served.
Greeted ==
  /\ \A c \in Conn :
       handler[c] \in {"greeting", "recording"} \/ c \in agentsByAddr \/ checks[c] # "none" => agent[c] # "none"
  /\ \A i \in DOMAIN agentsToGreet : agent[agentsToGreet[i]] # "none"
  /\ tracker = "greeting" => subject \in Conn /\ agent[subject] # "none"

\* An agent that was handed to the tracker is the one that is known under its source, or
\* a duplicate.
Accounted ==
  \A c \in Conn :
    agent[c] = "live" /\ handler[c] # "greeting" => agentsBySource[SourceOf[c]] = c \/ Duplicate(c)

\* An entry is of an agent of its source.
Keyed == \A s \in Source : agentsBySource[s] # NoAgent => SourceOf[agentsBySource[s]] = s

\* Only an agent that is served gets responses.
Responses ==
  \A c \in Conn :
    /\ \A i \in DOMAIN frames[c] : frames[c][i] = "response" => checks[c] # "none"
    /\ handler[c] = "looking" => checks[c] # "none"

IInv ==
  /\ TypeOK /\ Ended /\ Greeted /\ Responses /\ Accounted /\ Keyed
  /\ KnownUnlessDisplaced /\ ResponseReachesItsAgent

\* The state that NewAgentTracker and NewBasicServer make satisfies the invariant.
LEMMA InitIInv == Init => IInv
<1> SUFFICES ASSUME Init PROVE IInv
  OBVIOUS
<1>1. /\ agentsToGreet \in Seq(Conn) /\ Len(agentsToGreet) = 0 /\ DOMAIN agentsToGreet = {}
      /\ metricsPosts \in Seq(Source) /\ Len(metricsPosts) = 0
  BY DEF Init
<1>2. frames \in [Conn -> Seq(Frame)] /\ \A c \in Conn : Len(frames[c]) = 0 /\ DOMAIN frames[c] = {}
  BY DEF Init
<1>3. TypeOK
  BY <1>1, <1>2 DEF Init, TypeOK, HandlerState
<1> QED
  BY <1>1, <1>2, <1>3 DEF Init, IInv, Ended, Greeted, Responses, Accounted, Keyed, KnownUnlessDisplaced, ResponseReachesItsAgent

-----------------------------------------------------------------------------
(***************************************************************************)
(* Channels.                                                               *)
(***************************************************************************)

\* What a send adds to a channel.
LEMMA AppendFacts ==
  ASSUME NEW S, NEW q \in Seq(S), NEW e \in S
  PROVE  /\ Append(q, e) \in Seq(S) /\ Len(q) \in Nat /\ Len(Append(q, e)) = Len(q) + 1
         /\ \A i \in DOMAIN Append(q, e) : Append(q, e)[i] = e \/ (i \in DOMAIN q /\ Append(q, e)[i] = q[i])
  OBVIOUS

\* What a receive takes from a channel and leaves in it.
LEMMA TailFacts ==
  ASSUME NEW S, NEW q \in Seq(S), q # <<>>
  PROVE  /\ Head(q) \in S /\ Head(q) = q[1] /\ 1 \in DOMAIN q
         /\ Tail(q) \in Seq(S) /\ Len(q) \in Nat /\ Len(Tail(q)) = Len(q) - 1
         /\ \A i \in DOMAIN Tail(q) : i + 1 \in DOMAIN q /\ Tail(q)[i] = q[i + 1]
<1>1. Len(q) \in Nat \ {0}
  OBVIOUS
<1> QED
  BY <1>1

\* A receive takes the first and keeps the others.
LEMMA TailKeeps ==
  ASSUME NEW S, NEW q \in Seq(S), q # <<>>
  PROVE  \A i \in DOMAIN q : i = 1 \/ (i - 1 \in DOMAIN Tail(q) /\ Tail(q)[i - 1] = q[i])
<1>1. Len(q) \in Nat \ {0} /\ DOMAIN q = 1 .. Len(q)
  OBVIOUS
<1>2. Len(Tail(q)) = Len(q) - 1 /\ DOMAIN Tail(q) = 1 .. (Len(q) - 1)
  BY <1>1
<1>3. \A j \in DOMAIN Tail(q) : Tail(q)[j] = q[j + 1]
  BY <1>1
<1> SUFFICES ASSUME NEW i \in DOMAIN q, i # 1
             PROVE  i - 1 \in DOMAIN Tail(q) /\ Tail(q)[i - 1] = q[i]
  OBVIOUS
<1>4. i \in Int /\ i - 1 \in DOMAIN Tail(q) /\ (i - 1) + 1 = i
  BY <1>1, <1>2
<1> QED
  BY <1>3, <1>4

\* The decoder of c sends f to its handler.
LEMMA DecodeFacts ==
  ASSUME TypeOK, NEW c \in Conn, NEW f \in Frame, Len(frames[c]) < framesChanSize,
         frames' = [frames EXCEPT ![c] = Append(@, f)]
  PROVE  /\ frames' \in [Conn -> Seq(Frame)] /\ \A d \in Conn : Len(frames'[d]) <= framesChanSize
         /\ \A d \in Conn : \A i \in DOMAIN frames'[d] :
              (d = c /\ frames'[d][i] = f) \/ (i \in DOMAIN frames[d] /\ frames'[d][i] = frames[d][i])
<1>1. frames \in [Conn -> Seq(Frame)] /\ \A d \in Conn : Len(frames[d]) <= framesChanSize
  BY DEF TypeOK
<1>2. frames[c] \in Seq(Frame)
  BY <1>1
<1>3. frames'[c] = Append(frames[c], f) /\ \A d \in Conn \ {c} : frames'[d] = frames[d]
  BY <1>1
<1>4. /\ Append(frames[c], f) \in Seq(Frame) /\ Len(Append(frames[c], f)) <= framesChanSize
      /\ \A i \in DOMAIN frames'[c] : frames'[c][i] = f \/ (i \in DOMAIN frames[c] /\ frames'[c][i] = frames[c][i])
  BY <1>2, <1>3, AppendFacts
<1>5. frames' \in [Conn -> Seq(Frame)]
  BY <1>1, <1>4
<1>6. \A d \in Conn : Len(frames'[d]) <= framesChanSize
  BY <1>1, <1>3, <1>4
<1> QED
  BY <1>3, <1>4, <1>5, <1>6

\* The handler of c takes f.
LEMMA TakeFrameFacts ==
  ASSUME TypeOK, NEW c \in Conn, NEW f, NEW to, TakeFrame(c, f, to)
  PROVE  /\ process = "running" /\ handler[c] = "select" /\ handler' = [handler EXCEPT ![c] = to]
         /\ frames' \in [Conn -> Seq(Frame)] /\ \A d \in Conn : Len(frames'[d]) <= framesChanSize
         /\ \E i \in DOMAIN frames[c] : frames[c][i] = f
         /\ \A d \in Conn : \A i \in DOMAIN frames'[d] : \E j \in DOMAIN frames[d] : frames[d][j] = frames'[d][i]
<1>1. frames \in [Conn -> Seq(Frame)] /\ \A d \in Conn : Len(frames[d]) <= framesChanSize
  BY DEF TypeOK
<1>2. frames[c] \in Seq(Frame) /\ frames[c] # <<>> /\ Head(frames[c]) = f
  BY <1>1 DEF TakeFrame
<1>3. frames' = [frames EXCEPT ![c] = Tail(frames[c])]
  BY DEF TakeFrame
<1>4. frames'[c] = Tail(frames[c]) /\ \A d \in Conn \ {c} : frames'[d] = frames[d]
  BY <1>1, <1>3
<1>5. /\ Tail(frames[c]) \in Seq(Frame) /\ Len(Tail(frames[c])) <= framesChanSize
      /\ 1 \in DOMAIN frames[c] /\ frames[c][1] = f
      /\ \A i \in DOMAIN frames'[c] : i + 1 \in DOMAIN frames[c] /\ frames[c][i + 1] = frames'[c][i]
  BY <1>1, <1>2, <1>4, TailFacts
<1>6. frames' \in [Conn -> Seq(Frame)]
  BY <1>1, <1>3, <1>5
<1>7. \A d \in Conn : Len(frames'[d]) <= framesChanSize
  BY <1>1, <1>4, <1>5
<1>8. \A d \in Conn : \A i \in DOMAIN frames'[d] : \E j \in DOMAIN frames[d] : frames[d][j] = frames'[d][i]
  BY <1>4, <1>5
<1> QED
  BY <1>5, <1>6, <1>7, <1>8 DEF TakeFrame, Goto

\* What the handler of c takes was in its channel.
LEMMA TakenWasThere ==
  ASSUME TypeOK, NEW c \in Conn, NEW f, NEW to, TakeFrame(c, f, to)
  PROVE  \E i \in DOMAIN frames[c] : frames[c][i] = f
<1>1. frames[c] \in Seq(Frame) /\ frames[c] # <<>> /\ Head(frames[c]) = f
  BY DEF TypeOK, TakeFrame
<1>2. 1 \in DOMAIN frames[c] /\ frames[c][1] = f
  BY <1>1, TailFacts
<1> QED
  BY <1>2

-----------------------------------------------------------------------------
(***************************************************************************)
(* Types.                                                                  *)
(***************************************************************************)

ConnStep(c) ==
  \/ Accept(c) \/ (\E f \in Frame : Decode(c, f)) \/ DecoderFinishes(c) \/ DecoderFails(c)
  \/ HandleHello(c) \/ SendToGreeter(c) \/ RecordByAddr(c) \/ waitOnAgentError(c)
  \/ HandleFrame(c) \/ handleCheckMetricsPost(c) \/ LookUp(c) \/ CoordinatorTakes(c)
  \/ CloseAgentByAddr(c) \/ OfferTaken(c)

\* The steps of one connection keep the types.
LEMMA ConnTypes ==
  ASSUME TypeOK, NEW c \in Conn, ConnStep(c)
  PROVE  TypeOK'
<1> USE DEF Goto, connVars, agentVars, mapVars, trackerVars
<1>1. SourceOf[c] \in Source
  OBVIOUS
<1>2. CASE Accept(c)
  BY <1>2 DEF Accept, TypeOK, HandlerState
<1>3. ASSUME NEW f \in Frame, Decode(c, f) PROVE TypeOK'
  <2>1. frames' \in [Conn -> Seq(Frame)] /\ \A d \in Conn : Len(frames'[d]) <= framesChanSize
    BY <1>3, DecodeFacts DEF Decode
  <2>2. decoder' \in [Conn -> Int]
    BY <1>3 DEF Decode, TypeOK
  <2> QED
    BY <1>3, <2>1, <2>2 DEF Decode, TypeOK
<1>4. CASE DecoderFinishes(c)
  <2>1. "finished" \in Frame
    BY DEF Frame
  <2>2. frames' \in [Conn -> Seq(Frame)] /\ \A d \in Conn : Len(frames'[d]) <= framesChanSize
    BY <1>4, <2>1, DecodeFacts DEF DecoderFinishes
  <2>3. decoder' \in [Conn -> Int]
    BY <1>4 DEF DecoderFinishes, TypeOK
  <2> QED
    BY <1>4, <2>2, <2>3 DEF DecoderFinishes, TypeOK
<1>5. CASE DecoderFails(c)
  <2>1. decoder' \in [Conn -> Int]
    BY <1>5 DEF DecoderFails, TypeOK
  <2> QED
    BY <1>5, <2>1 DEF DecoderFails, TypeOK
<1>6. CASE HandleHello(c)
  <2>1. PICK f \in Frame, to \in HandlerState : TakeFrame(c, f, to)
    BY <1>6 DEF HandleHello, Frame, HandlerState
  <2>2. /\ frames' \in [Conn -> Seq(Frame)] /\ \A d \in Conn : Len(frames'[d]) <= framesChanSize
        /\ handler' = [handler EXCEPT ![c] = to]
    BY <2>1, TakeFrameFacts
  <2>3. agent' \in [Conn -> {"none", "live", "cancelled"}] /\ errors' \in [Conn -> {"none", "sent", "seen"}]
    BY <1>6 DEF HandleHello, TypeOK
  <2> QED
    BY <1>6, <2>2, <2>3 DEF HandleHello, TypeOK
<1>7. CASE SendToGreeter(c)
  <2>1. agentsToGreet \in Seq(Conn) /\ Len(agentsToGreet) < GreeterChanSize /\ agentsToGreet' = Append(agentsToGreet, c)
    BY <1>7 DEF SendToGreeter, TypeOK
  <2>2. agentsToGreet' \in Seq(Conn) /\ Len(agentsToGreet') <= GreeterChanSize
    BY <2>1, AppendFacts
  <2> QED
    BY <1>7, <2>2 DEF SendToGreeter, TypeOK, HandlerState
<1>8. CASE RecordByAddr(c)
  BY <1>8 DEF RecordByAddr, TypeOK, HandlerState
<1>9. CASE waitOnAgentError(c)
  BY <1>9 DEF waitOnAgentError, TypeOK
<1>10. CASE HandleFrame(c)
  <2>1. PICK f \in Frame, to \in HandlerState : TakeFrame(c, f, to)
    BY <1>10 DEF HandleFrame, Frame, HandlerState
  <2>2. /\ frames' \in [Conn -> Seq(Frame)] /\ \A d \in Conn : Len(frames'[d]) <= framesChanSize
        /\ handler' = [handler EXCEPT ![c] = to]
    BY <2>1, TakeFrameFacts
  <2>3. socket' \in [Conn -> {"none", "open", "closed"}]
    BY <1>10 DEF HandleFrame, TypeOK
  <2> QED
    BY <1>10, <2>2, <2>3 DEF HandleFrame, TypeOK
<1>11. CASE handleCheckMetricsPost(c)
  <2>1. metricsPosts \in Seq(Source) /\ Len(metricsPosts) < MetricsPostsChanSize /\ metricsPosts' = Append(metricsPosts, SourceOf[c])
    BY <1>11 DEF handleCheckMetricsPost, TypeOK
  <2>2. metricsPosts' \in Seq(Source) /\ Len(metricsPosts') <= MetricsPostsChanSize
    BY <1>1, <2>1, AppendFacts
  <2> QED
    BY <1>11, <2>2 DEF handleCheckMetricsPost, TypeOK, HandlerState
<1>12. CASE LookUp(c)
  <2>1. respondTo' \in [Conn -> Conn \cup {NoAgent}] /\ handler' \in [Conn -> HandlerState]
    BY <1>1, <1>12 DEF LookUp, TypeOK, HandlerState
  <2> QED
    BY <1>12, <2>1 DEF LookUp, TypeOK
<1>13. CASE CoordinatorTakes(c)
  BY <1>13 DEF CoordinatorTakes, TypeOK, HandlerState
<1>14. CASE CloseAgentByAddr(c)
  <2>1. agentsBySource' \in [Source -> Conn \cup {NoAgent}]
    BY <1>1, <1>14 DEF CloseAgentByAddr, TypeOK
  <2>2. agent' \in [Conn -> {"none", "live", "cancelled"}]
    BY <1>14 DEF CloseAgentByAddr, TypeOK
  <2>3. displaced' \subseteq Conn
    <3>1. Displace(c)
      BY <1>14 DEF CloseAgentByAddr
    <3>2. agentsBySource[SourceOf[c]] \in Conn \cup {NoAgent}
      BY <1>1 DEF TypeOK
    <3> QED
      BY <3>1, <3>2 DEF Displace, TypeOK
  <2>4. socket' \in [Conn -> {"none", "open", "closed"}] /\ handler' \in [Conn -> HandlerState]
    BY <1>14 DEF CloseAgentByAddr, Goto, TypeOK, HandlerState
  <2>5. agentsByAddr' \subseteq Conn
    BY <1>14 DEF CloseAgentByAddr, TypeOK
  <2>6. UNCHANGED <<decoder, frames, respondTo, errors, checks, trackerVars, process>>
    BY <1>14 DEF CloseAgentByAddr
  <2> QED
    BY <2>1, <2>2, <2>3, <2>4, <2>5, <2>6 DEF TypeOK
<1>15. CASE OfferTaken(c)
  BY <1>15 DEF OfferTaken, TypeOK
<1> QED
  BY <1>2, <1>3, <1>4, <1>5, <1>6, <1>7, <1>8, <1>9, <1>10, <1>11, <1>12, <1>13, <1>14, <1>15 DEF ConnStep

\* So do the tracker, the decomposer of metrics and the crash.
LEMMA TrackTypes ==
  ASSUME TypeOK, Greeted, Track \/ runMetricsDecomposer \/ Crash
  PROVE  TypeOK'
<1> USE DEF connVars, agentVars, mapVars, trackerVars
<1>1. CASE TakeGreeted
  <2>1. agentsToGreet' \in Seq(Conn) /\ Len(agentsToGreet') <= GreeterChanSize
    BY <1>1, TailFacts DEF TakeGreeted, TypeOK
  <2> QED
    BY <1>1, <2>1 DEF TakeGreeted, TypeOK
<1>2. CASE handleGreetedAgent
  <2>1. subject \in Conn /\ SourceOf[subject] \in Source
    BY <1>2 DEF handleGreetedAgent, Greeted
  <2>2. /\ errors' \in [Conn -> {"none", "sent", "seen"}]
        /\ checks' \in [Conn -> {"none", "offered", "watched"}]
        /\ agentsBySource' \in [Source -> Conn \cup {NoAgent}]
    <3>1. CASE agentsBySource[SourceOf[subject]] # NoAgent
      BY <1>2, <2>1, <3>1 DEF handleGreetedAgent, TypeOK
    <3>2. CASE agentsBySource[SourceOf[subject]] = NoAgent
      <4>1. /\ agentsBySource' = [agentsBySource EXCEPT ![SourceOf[subject]] = subject]
            /\ checks' = [checks EXCEPT ![subject] = "offered"] /\ errors' = errors
        BY <1>2, <3>2 DEF handleGreetedAgent
      <4>2. checks' \in [Conn -> {"none", "offered", "watched"}]
        BY <4>1 DEF TypeOK
      <4>3. agentsBySource' \in [Source -> Conn \cup {NoAgent}]
        BY <2>1, <4>1 DEF TypeOK
      <4> QED
        BY <4>1, <4>2, <4>3 DEF TypeOK
    <3> QED
      BY <3>1, <3>2
  <2> QED
    BY <1>2, <2>2 DEF handleGreetedAgent, TypeOK
<1>3. CASE TakePost
  <2>1. metricsPosts' \in Seq(Source) /\ Len(metricsPosts') <= MetricsPostsChanSize
    BY <1>3, TailFacts DEF TakePost, TypeOK
  <2> QED
    BY <1>3, <2>1 DEF TakePost, TypeOK
<1>4. CASE handleMetricsPostReq
  BY <1>4 DEF handleMetricsPostReq, TypeOK
<1>5. CASE Store
  BY <1>5 DEF Store, TypeOK
<1>6. CASE runMetricsDecomposer
  BY <1>6 DEF runMetricsDecomposer, TypeOK
<1>7. CASE Crash
  BY <1>7 DEF Crash, TypeOK
<1> QED
  BY <1>1, <1>2, <1>3, <1>4, <1>5, <1>6, <1>7 DEF Track

-----------------------------------------------------------------------------
(***************************************************************************)
(* Agents, frames and the tracker.                                         *)
(***************************************************************************)

Belongs == Ended /\ Greeted /\ Responses

\* A handler moves on without a new agent, without a frame that it has not got before.
LEMMA QuietBelongs ==
  ASSUME TypeOK, Belongs, UNCHANGED <<agent, checks, agentsByAddr, agentsToGreet, tracker, subject>>,
         \A d \in Conn : socket'[d] = "none" => socket[d] = "none" /\ handler'[d] = handler[d],
         \A d \in Conn : handler[d] = "done" => handler'[d] = "done",
         \A d \in Conn : handler'[d] \in {"greeting", "recording", "looking"} => handler[d] = handler'[d],
         \A d \in Conn : \A i \in DOMAIN frames'[d] :
           frames'[d][i] = "response" => checks[d] # "none"
  PROVE  Belongs'
  BY DEF Belongs, Ended, Greeted, Responses

\* The frames of a step that does not touch them.
LEMMA SameFrames ==
  ASSUME Belongs, frames' = frames
  PROVE  \A d \in Conn : \A i \in DOMAIN frames'[d] : frames'[d][i] = "response" => checks[d] # "none"
  BY DEF Belongs, Responses

\* A connection's own step preserves that ended agents stay ended, greeted ones exist and responses follow a greeting.
LEMMA ConnBelongs ==
  ASSUME TypeOK, Belongs, NEW c \in Conn, ConnStep(c)
  PROVE  Belongs'
<1> USE DEF Goto, connVars, agentVars, mapVars, trackerVars
<1>1. CASE Accept(c)
  BY <1>1, QuietBelongs, SameFrames DEF Accept, TypeOK, Belongs, Ended
<1>2. ASSUME NEW f \in Frame, Decode(c, f) PROVE Belongs'
  <2>1. \A d \in Conn : \A i \in DOMAIN frames'[d] :
          (d = c /\ frames'[d][i] = f) \/ (i \in DOMAIN frames[d] /\ frames'[d][i] = frames[d][i])
    BY <1>2, DecodeFacts DEF Decode
  <2>2. f = "response" => checks[c] # "none"
    BY <1>2 DEF Decode, MaySend
  <2>3. \A d \in Conn : \A i \in DOMAIN frames'[d] : frames'[d][i] = "response" => checks[d] # "none"
    BY <2>1, <2>2 DEF Belongs, Responses
  <2> QED
    BY <1>2, <2>3, QuietBelongs DEF Decode
<1>3. CASE DecoderFinishes(c)
  <2>1. "finished" \in Frame
    BY DEF Frame
  <2>2. \A d \in Conn : \A i \in DOMAIN frames'[d] :
          frames'[d][i] = "finished" \/ (i \in DOMAIN frames[d] /\ frames'[d][i] = frames[d][i])
    BY <1>3, <2>1, DecodeFacts DEF DecoderFinishes
  <2>3. \A d \in Conn : \A i \in DOMAIN frames'[d] : frames'[d][i] = "response" => checks[d] # "none"
    BY <2>2 DEF Belongs, Responses
  <2> QED
    BY <1>3, <2>3, QuietBelongs DEF DecoderFinishes
<1>4. CASE DecoderFails(c)
  BY <1>4, QuietBelongs, SameFrames DEF DecoderFails
<1>5. CASE HandleHello(c)
  <2>1. PICK f \in Frame, to \in {"greeting", "select"} :
          TakeFrame(c, f, to) /\ (to = "greeting" => agent' = [agent EXCEPT ![c] = "live"])
    BY <1>5 DEF HandleHello, Frame
  <2>2. /\ handler[c] = "select" /\ handler' = [handler EXCEPT ![c] = to]
        /\ \A d \in Conn : \A i \in DOMAIN frames'[d] : \E j \in DOMAIN frames[d] : frames[d][j] = frames'[d][i]
    BY <2>1, TakeFrameFacts
  <2>3. \A d \in Conn : \A i \in DOMAIN frames'[d] : frames'[d][i] = "response" => checks[d] # "none"
    BY <2>2 DEF Belongs, Responses
  <2>4. agent' = agent \/ agent' = [agent EXCEPT ![c] = "live"]
    BY <1>5 DEF HandleHello
  <2>5. \A d \in Conn : /\ agent[d] # "none" => agent'[d] # "none"
                        /\ agent'[d] = "cancelled" => agent[d] = "cancelled"
    BY <2>4 DEF TypeOK
  <2>6. UNCHANGED <<socket, checks, agentsByAddr, agentsToGreet, tracker, subject>>
    BY <1>5 DEF HandleHello
  <2>7. Ended'
    BY <2>1, <2>2, <2>5, <2>6 DEF Belongs, Ended, TypeOK
  <2>8. Greeted'
    <3>1. \A d \in Conn :
            handler'[d] \in {"greeting", "recording"} \/ d \in agentsByAddr' \/ checks'[d] # "none" => agent'[d] # "none"
      BY <2>1, <2>2, <2>5, <2>6 DEF Belongs, Greeted, TypeOK
    <3>2. \A i \in DOMAIN agentsToGreet : agentsToGreet[i] \in Conn
      BY DEF TypeOK
    <3> QED
      BY <2>5, <2>6, <3>1, <3>2 DEF Belongs, Greeted
  <2>9. Responses'
    BY <2>1, <2>2, <2>3, <2>6 DEF Belongs, Responses, TypeOK
  <2> QED
    BY <2>7, <2>8, <2>9 DEF Belongs
<1>6. CASE SendToGreeter(c)
  <2>1. /\ handler[c] = "greeting" /\ handler' = [handler EXCEPT ![c] = "recording"]
        /\ agentsToGreet' = Append(agentsToGreet, c)
        /\ UNCHANGED <<socket, frames, agent, checks, agentsByAddr, tracker, subject>>
    BY <1>6 DEF SendToGreeter
  <2>2. \A i \in DOMAIN agentsToGreet' :
          agentsToGreet'[i] = c \/ (i \in DOMAIN agentsToGreet /\ agentsToGreet'[i] = agentsToGreet[i])
    <3>1. agentsToGreet \in Seq(Conn)
      BY DEF TypeOK
    <3> QED
      BY <2>1, <3>1, AppendFacts
  <2>3. agent[c] # "none"
    BY <2>1 DEF Belongs, Greeted
  <2>4. Greeted'
    BY <2>1, <2>2, <2>3 DEF Belongs, Greeted, TypeOK
  <2> QED
    BY <2>1, <2>4 DEF Belongs, Ended, Responses, TypeOK
<1>7. CASE RecordByAddr(c)
  <2>1. /\ handler[c] = "recording" /\ handler' = [handler EXCEPT ![c] = "select"]
        /\ agentsByAddr' = agentsByAddr \cup {c}
        /\ UNCHANGED <<socket, frames, agent, checks, agentsToGreet, tracker, subject>>
    BY <1>7 DEF RecordByAddr
  <2> QED
    BY <2>1 DEF Belongs, Ended, Greeted, Responses, TypeOK
<1>8. CASE waitOnAgentError(c)
  BY <1>8, QuietBelongs, SameFrames DEF waitOnAgentError, TypeOK
<1>9. CASE HandleFrame(c)
  <2>1. PICK f \in Frame, to \in {"posting", "looking", "done", "closing"} :
          /\ TakeFrame(c, f, to)
          /\ to = "looking" => f = "response"
          /\ socket' = socket \/ socket' = [socket EXCEPT ![c] = "closed"]
    BY <1>9 DEF HandleFrame, Frame
  <2>2. /\ handler[c] = "select" /\ handler' = [handler EXCEPT ![c] = to]
        /\ \E i \in DOMAIN frames[c] : frames[c][i] = f
        /\ \A d \in Conn : \A i \in DOMAIN frames'[d] : \E j \in DOMAIN frames[d] : frames[d][j] = frames'[d][i]
    <3>1. TakeFrame(c, f, to)
      BY <2>1
    <3>2. handler[c] = "select" /\ handler' = [handler EXCEPT ![c] = to]
      BY <3>1, TakeFrameFacts
    <3>3. \E i \in DOMAIN frames[c] : frames[c][i] = f
      BY <3>1, TakenWasThere
    <3>4. \A d \in Conn : \A i \in DOMAIN frames'[d] : \E j \in DOMAIN frames[d] : frames[d][j] = frames'[d][i]
      BY <3>1, TakeFrameFacts
    <3> QED
      BY <3>2, <3>3, <3>4
  <2>3. \A d \in Conn : \A i \in DOMAIN frames'[d] : frames'[d][i] = "response" => checks[d] # "none"
    BY <2>2 DEF Belongs, Responses
  <2>4. to = "looking" => checks[c] # "none"
    BY <2>1, <2>2 DEF Belongs, Responses
  <2>5. UNCHANGED <<agent, checks, agentsByAddr, agentsToGreet, tracker, subject>>
    BY <1>9 DEF HandleFrame
  <2>6. Ended'
    BY <2>1, <2>2, <2>5 DEF Belongs, Ended, TypeOK
  <2>7. Greeted'
    BY <2>1, <2>2, <2>5 DEF Belongs, Greeted, TypeOK
  <2>8. Responses'
    BY <2>2, <2>3, <2>4, <2>5 DEF Belongs, Responses, TypeOK
  <2> QED
    BY <2>6, <2>7, <2>8 DEF Belongs
<1>10. CASE handleCheckMetricsPost(c)
  BY <1>10, QuietBelongs, SameFrames DEF handleCheckMetricsPost, TypeOK, Belongs, Ended
<1>11. CASE LookUp(c)
  BY <1>11, QuietBelongs, SameFrames DEF LookUp, TypeOK, Belongs, Ended
<1>12. CASE CoordinatorTakes(c)
  BY <1>12, QuietBelongs, SameFrames DEF CoordinatorTakes, TypeOK, Belongs, Ended
<1>13. CASE CloseAgentByAddr(c)
  <2>1. /\ handler[c] = "closing" /\ handler' = [handler EXCEPT ![c] = "done"]
        /\ socket' = [socket EXCEPT ![c] = "closed"]
        /\ agent' = agent \/ agent' = [agent EXCEPT ![c] = "cancelled"]
        /\ agentsByAddr' \subseteq agentsByAddr
        /\ UNCHANGED <<frames, checks, agentsToGreet, tracker, subject>>
    BY <1>13 DEF CloseAgentByAddr
  <2>2. \A d \in Conn : agent[d] # "none" => agent'[d] # "none"
    BY <2>1 DEF TypeOK
  <2>3. \A i \in DOMAIN agentsToGreet : agentsToGreet[i] \in Conn
    BY DEF TypeOK
  <2>4. Greeted'
    BY <2>1, <2>2, <2>3 DEF Belongs, Greeted, TypeOK
  <2> QED
    BY <2>1, <2>4 DEF Belongs, Ended, Responses, TypeOK
<1>14. CASE OfferTaken(c)
  <2>1. /\ agent[c] = "live" /\ checks' = [checks EXCEPT ![c] = "watched"]
        /\ UNCHANGED <<socket, frames, handler, agent, agentsByAddr, agentsToGreet, tracker, subject>>
    BY <1>14 DEF OfferTaken
  <2> QED
    BY <2>1 DEF Belongs, Ended, Greeted, Responses, TypeOK
<1> QED
  BY <1>1, <1>2, <1>3, <1>4, <1>5, <1>6, <1>7, <1>8, <1>9, <1>10, <1>11, <1>12, <1>13, <1>14 DEF ConnStep

\* So does a step of the tracker's go routine.
LEMMA TrackBelongs ==
  ASSUME TypeOK, Belongs, Track \/ runMetricsDecomposer \/ Crash
  PROVE  Belongs'
<1> USE DEF connVars, agentVars, mapVars, trackerVars
<1>1. CASE TakeGreeted
  <2>1. /\ Head(agentsToGreet) = agentsToGreet[1] /\ 1 \in DOMAIN agentsToGreet /\ Head(agentsToGreet) \in Conn
        /\ \A i \in DOMAIN agentsToGreet' : i + 1 \in DOMAIN agentsToGreet /\ agentsToGreet'[i] = agentsToGreet[i + 1]
    BY <1>1, TailFacts DEF TakeGreeted, TypeOK
  <2>2. subject' = Head(agentsToGreet) /\ UNCHANGED <<socket, frames, handler, agent, checks, agentsByAddr>>
    BY <1>1 DEF TakeGreeted
  <2> QED
    BY <2>1, <2>2 DEF Belongs, Ended, Greeted, Responses
<1>2. CASE handleGreetedAgent
  <2>1. /\ subject \in Conn /\ agent[subject] # "none" /\ tracker' = "select"
        /\ checks' = checks \/ checks' = [checks EXCEPT ![subject] = "offered"]
        /\ UNCHANGED <<socket, frames, handler, agent, agentsByAddr, agentsToGreet>>
    BY <1>2 DEF handleGreetedAgent, Belongs, Greeted
  <2> QED
    BY <2>1 DEF Belongs, Ended, Greeted, Responses, TypeOK
<1>3. CASE TakePost \/ handleMetricsPostReq \/ Store
  <2>1. tracker' # "greeting" /\ UNCHANGED <<socket, frames, handler, agent, checks, agentsByAddr, agentsToGreet>>
    BY <1>3 DEF TakePost, handleMetricsPostReq, Store
  <2> QED
    BY <2>1 DEF Belongs, Ended, Greeted, Responses
<1>4. CASE runMetricsDecomposer \/ Crash
  BY <1>4 DEF runMetricsDecomposer, Crash, Belongs, Ended, Greeted, Responses
<1> QED
  BY <1>1, <1>2, <1>3, <1>4 DEF Track

-----------------------------------------------------------------------------
(***************************************************************************)
(* Who is known.                                                           *)
(***************************************************************************)

\* Most steps of a connection leave the agents, the map by source and the tracker alone.
LEMMA ConnQuiet ==
  ASSUME TypeOK, Belongs, NEW c \in Conn, ConnStep(c)
  PROVE  \/ /\ UNCHANGED <<agent, checks, agentsBySource, displaced, agentsToGreet, tracker, subject>>
            /\ \A d \in Conn : handler'[d] # "greeting" => handler[d] # "greeting"
            /\ \A d \in Conn : errors[d] # "none" => errors'[d] # "none"
         \/ HandleHello(c) \/ SendToGreeter(c) \/ CloseAgentByAddr(c) \/ OfferTaken(c)
<1> USE DEF Goto, connVars, agentVars, mapVars, trackerVars
<1>1. ASSUME NEW f \in Frame, Decode(c, f)
      PROVE  UNCHANGED <<agent, checks, agentsBySource, displaced, agentsToGreet, tracker, subject, handler, errors>>
  BY <1>1 DEF Decode
<1>2. CASE DecoderFinishes(c) \/ DecoderFails(c)
  BY <1>2 DEF DecoderFinishes, DecoderFails
<1>3. CASE waitOnAgentError(c)
  BY <1>3 DEF waitOnAgentError, TypeOK
<1>4. CASE Accept(c)
  BY <1>4 DEF Accept, TypeOK, Belongs, Ended
<1>5. CASE RecordByAddr(c)
  BY <1>5 DEF RecordByAddr, TypeOK
<1>6. CASE handleCheckMetricsPost(c)
  BY <1>6 DEF handleCheckMetricsPost, TypeOK
<1>7. CASE LookUp(c)
  BY <1>7 DEF LookUp, TypeOK
<1>8. CASE CoordinatorTakes(c)
  BY <1>8 DEF CoordinatorTakes, TypeOK
<1>9. CASE HandleFrame(c)
  <2>1. handler[c] = "select" /\ \E to \in HandlerState : handler' = [handler EXCEPT ![c] = to]
    BY <1>9 DEF HandleFrame, TakeFrame, HandlerState
  <2>2. UNCHANGED <<agent, checks, agentsBySource, displaced, agentsToGreet, tracker, subject, errors>>
    BY <1>9 DEF HandleFrame
  <2> QED
    BY <2>1, <2>2 DEF TypeOK
<1> QED
  BY <1>1, <1>2, <1>3, <1>4, <1>5, <1>6, <1>7, <1>8, <1>9 DEF ConnStep

\* An entry that is deleted is that of the agent that is closed, or it is a duplicate that
\* is closed: an agent that has the entry, and no other, closes without displacing anyone.
LEMMA CloseDisplaces ==
  ASSUME TypeOK, Belongs, Accounted, NEW c \in Conn, CloseAgentByAddr(c),
         NEW d \in Conn, d # c, agentsBySource[SourceOf[d]] = d
  PROVE  agentsBySource'[SourceOf[d]] = d \/ d \in displaced'
<1> USE DEF Goto
<1>0. SourceOf[c] \in Source /\ SourceOf[d] \in Source /\ d # NoAgent
  OBVIOUS
<1>1. CASE c \notin agentsByAddr
  BY <1>1 DEF CloseAgentByAddr
<1>2. CASE c \in agentsByAddr
  <2>1. agentsBySource' = [agentsBySource EXCEPT ![SourceOf[c]] = NoAgent]
    BY <1>2 DEF CloseAgentByAddr
  <2>2. CASE SourceOf[d] # SourceOf[c]
    BY <1>0, <2>1, <2>2 DEF TypeOK
  <2>3. CASE SourceOf[d] = SourceOf[c]
    <3>1. handler[c] = "closing"
      BY DEF CloseAgentByAddr
    <3>2. agent[c] = "live"
      BY <1>2, <3>1 DEF Belongs, Greeted, Ended, TypeOK
    <3>3. Duplicate(c)
      BY <2>3, <3>1, <3>2 DEF Accounted
    <3>4. displaced' = displaced \cup ({agentsBySource[SourceOf[c]]} \ {c, NoAgent})
      BY <1>2, <3>3 DEF CloseAgentByAddr, Displace
    <3> QED
      BY <1>0, <2>3, <3>4
  <2> QED
    BY <2>2, <2>3
<1> QED
  BY <1>1, <1>2

\* Nobody who was displaced is forgotten.
LEMMA DisplacedStays ==
  ASSUME [Next]_vars
  PROVE  displaced \subseteq displaced'
<1>1. ASSUME NEW c \in Conn, ConnStep(c) PROVE displaced \subseteq displaced'
  <2>1. CASE CloseAgentByAddr(c)
    BY <2>1 DEF CloseAgentByAddr, Displace
  <2>2. ASSUME NEW f \in Frame, Decode(c, f) PROVE displaced' = displaced
    BY <2>2 DEF Decode
  <2>3. CASE Accept(c) \/ DecoderFinishes(c) \/ DecoderFails(c) \/ HandleHello(c) \/ SendToGreeter(c)
    BY <2>3 DEF Accept, DecoderFinishes, DecoderFails, HandleHello, SendToGreeter
  <2>4. CASE RecordByAddr(c) \/ waitOnAgentError(c) \/ HandleFrame(c) \/ handleCheckMetricsPost(c)
    BY <2>4 DEF RecordByAddr, waitOnAgentError, HandleFrame, handleCheckMetricsPost
  <2>5. CASE LookUp(c) \/ CoordinatorTakes(c) \/ OfferTaken(c)
    BY <2>5 DEF LookUp, CoordinatorTakes, OfferTaken
  <2> QED
    BY <1>1, <2>1, <2>2, <2>3, <2>4, <2>5 DEF ConnStep
<1>2. CASE Track \/ runMetricsDecomposer \/ Crash \/ UNCHANGED vars
  BY <1>2 DEF Track, TakeGreeted, handleGreetedAgent, TakePost, handleMetricsPostReq, Store, runMetricsDecomposer,
     Crash, vars
<1> QED
  BY <1>1, <1>2 DEF Next, ConnStep, Track

\* A step that leaves map, channel and tracker alone and hands no agent over.
LEMMA QuietAccounted ==
  ASSUME Accounted, UNCHANGED <<agentsBySource, displaced, agentsToGreet, tracker, subject>>,
         \A d \in Conn : agent'[d] = "live" /\ handler'[d] # "greeting" => agent[d] = "live" /\ handler[d] # "greeting",
         \A d \in Conn : errors[d] # "none" => errors'[d] # "none"
  PROVE  Accounted'
  BY DEF Accounted, Duplicate

\* A connection's own step keeps account of the agents.
LEMMA ConnAccounted ==
  ASSUME TypeOK, Belongs, Accounted, NEW c \in Conn, ConnStep(c)
  PROVE  Accounted'
<1> USE DEF Goto, connVars, agentVars, mapVars, trackerVars
<1>1. CASE HandleHello(c)
  <2>1. /\ handler[c] = "select"
        /\ \/ handler' = [handler EXCEPT ![c] = "greeting"] /\ agent' = [agent EXCEPT ![c] = "live"] /\ errors' = errors
           \/ handler' = [handler EXCEPT ![c] = "select"] /\ errors' = [errors EXCEPT ![c] = "sent"] /\ agent' = agent
        /\ UNCHANGED <<agentsBySource, displaced, agentsToGreet, tracker, subject>>
    BY <1>1 DEF HandleHello, TakeFrame
  <2> QED
    BY <2>1, QuietAccounted DEF TypeOK
<1>2. CASE SendToGreeter(c)
  <2>1. /\ agentsToGreet' = Append(agentsToGreet, c)
        /\ handler' = [handler EXCEPT ![c] = "recording"]
        /\ UNCHANGED <<agent, errors, agentsBySource, displaced, tracker, subject>>
    BY <1>2 DEF SendToGreeter
  <2>2. /\ \A i \in DOMAIN agentsToGreet : i \in DOMAIN agentsToGreet' /\ agentsToGreet'[i] = agentsToGreet[i]
        /\ \E i \in DOMAIN agentsToGreet' : agentsToGreet'[i] = c
    <3>1. agentsToGreet \in Seq(Conn)
      BY DEF TypeOK
    <3>2. Len(agentsToGreet) + 1 \in DOMAIN agentsToGreet' /\ agentsToGreet'[Len(agentsToGreet) + 1] = c
      BY <2>1, <3>1
    <3>3. \A i \in DOMAIN agentsToGreet : i \in DOMAIN agentsToGreet' /\ agentsToGreet'[i] = agentsToGreet[i]
      BY <2>1, <3>1
    <3> QED
      BY <3>2, <3>3
  <2> SUFFICES ASSUME NEW d \in Conn, agent'[d] = "live", handler'[d] # "greeting"
               PROVE  agentsBySource'[SourceOf[d]] = d \/ Duplicate(d)'
    BY DEF Accounted
  <2>3. CASE d = c
    BY <2>2, <2>3 DEF Duplicate
  <2>4. CASE d # c
    <3>1. agentsBySource[SourceOf[d]] = d \/ Duplicate(d)
      BY <2>1, <2>4 DEF Accounted, TypeOK
    <3> QED
      BY <2>1, <2>2, <3>1 DEF Duplicate
  <2> QED
    BY <2>3, <2>4
<1>3. CASE CloseAgentByAddr(c)
  <2>1. /\ handler[c] = "closing" /\ handler' = [handler EXCEPT ![c] = "done"]
        /\ UNCHANGED <<errors, agentsToGreet, tracker, subject>>
    BY <1>3 DEF CloseAgentByAddr
  <2>2. displaced \subseteq displaced'
    BY <1>3 DEF CloseAgentByAddr, Displace
  <2>3. CASE c \notin agentsByAddr
    <3>1. UNCHANGED <<agentsBySource, agent, displaced>>
      BY <1>3, <2>3 DEF CloseAgentByAddr, Displace
    <3> QED
      BY <2>1, <3>1, QuietAccounted DEF TypeOK
  <2>4. CASE c \in agentsByAddr
    <3> SUFFICES ASSUME NEW d \in Conn, agent'[d] = "live", handler'[d] # "greeting"
                 PROVE  agentsBySource'[SourceOf[d]] = d \/ Duplicate(d)'
      BY DEF Accounted
    <3>1. agent' = [agent EXCEPT ![c] = "cancelled"]
      BY <1>3, <2>4 DEF CloseAgentByAddr
    <3>2. d # c /\ agent[d] = "live" /\ handler[d] # "greeting"
      BY <2>1, <3>1 DEF TypeOK
    <3>3. CASE agentsBySource[SourceOf[d]] = d
      BY <1>3, <3>2, <3>3, CloseDisplaces DEF Duplicate
    <3>4. CASE Duplicate(d)
      BY <2>1, <2>2, <3>4 DEF Duplicate
    <3> QED
      BY <3>2, <3>3, <3>4 DEF Accounted
  <2> QED
    BY <2>3, <2>4
<1>4. CASE OfferTaken(c)
  BY <1>4, QuietAccounted DEF OfferTaken
<1>5. CASE /\ UNCHANGED <<agent, checks, agentsBySource, displaced, agentsToGreet, tracker, subject>>
           /\ \A d \in Conn : handler'[d] # "greeting" => handler[d] # "greeting"
           /\ \A d \in Conn : errors[d] # "none" => errors'[d] # "none"
  BY <1>5, QuietAccounted
<1> QED
  BY <1>1, <1>2, <1>3, <1>4, <1>5, ConnQuiet

\* So does the tracker: it takes an agent from the channel and refuses it or enters it.
LEMMA TrackAccounted ==
  ASSUME TypeOK, Belongs, Accounted, Track \/ runMetricsDecomposer \/ Crash
  PROVE  Accounted'
<1> USE DEF connVars, agentVars, mapVars, trackerVars
<1>1. CASE TakeGreeted
  <2>1. /\ tracker = "select" /\ tracker' = "greeting" /\ subject' = Head(agentsToGreet)
        /\ agentsToGreet # <<>> /\ agentsToGreet' = Tail(agentsToGreet)
        /\ UNCHANGED <<agent, handler, errors, agentsBySource, displaced>>
    BY <1>1 DEF TakeGreeted
  <2>2. \A i \in DOMAIN agentsToGreet :
          \/ agentsToGreet[i] = subject'
          \/ \E j \in DOMAIN agentsToGreet' : agentsToGreet'[j] = agentsToGreet[i]
    <3>1. agentsToGreet \in Seq(Conn) /\ Len(agentsToGreet) \in Nat \ {0}
      BY <2>1 DEF TypeOK
    <3>2. \A i \in DOMAIN agentsToGreet :
            i = 1 \/ (i - 1 \in DOMAIN agentsToGreet' /\ agentsToGreet'[i - 1] = agentsToGreet[i])
      BY <2>1, <3>1, TailKeeps
    <3>3. Head(agentsToGreet) = agentsToGreet[1]
      BY <3>1
    <3> QED
      BY <2>1, <3>2, <3>3
  <2>3. ASSUME NEW d \in Conn, Duplicate(d) PROVE Duplicate(d)'
    BY <2>1, <2>2, <2>3 DEF Duplicate
  <2> QED
    BY <2>1, <2>3 DEF Accounted
<1>2. CASE handleGreetedAgent
  <2>1. /\ tracker = "greeting" /\ subject \in Conn /\ SourceOf[subject] \in Source
        /\ UNCHANGED <<agent, handler, displaced, agentsToGreet>>
    BY <1>2 DEF handleGreetedAgent, Belongs, Greeted
  <2> SUFFICES ASSUME NEW d \in Conn, agent[d] = "live", handler[d] # "greeting"
               PROVE  agentsBySource'[SourceOf[d]] = d \/ Duplicate(d)'
    BY <2>1 DEF Accounted
  <2>2. agentsBySource[SourceOf[d]] = d \/ Duplicate(d)
    BY DEF Accounted
  <2>3. CASE agentsBySource[SourceOf[subject]] # NoAgent
    <3>1. errors' = [errors EXCEPT ![subject] = "sent"] /\ agentsBySource' = agentsBySource
      BY <1>2, <2>3 DEF handleGreetedAgent
    <3> QED
      BY <2>1, <2>2, <3>1 DEF Duplicate, TypeOK
  <2>4. CASE agentsBySource[SourceOf[subject]] = NoAgent
    <3>1. agentsBySource' = [agentsBySource EXCEPT ![SourceOf[subject]] = subject] /\ errors' = errors
      BY <1>2, <2>4 DEF handleGreetedAgent
    <3>2. CASE d = subject
      BY <2>1, <3>1, <3>2 DEF TypeOK
    <3>3. CASE d # subject /\ agentsBySource[SourceOf[d]] = d
      <4>1. SourceOf[d] # SourceOf[subject]
        BY <2>4, <3>3
      <4> QED
        BY <3>1, <3>3, <4>1 DEF TypeOK
    <3>4. CASE d # subject /\ Duplicate(d)
      BY <2>1, <3>1, <3>4 DEF Duplicate
    <3> QED
      BY <2>2, <3>2, <3>3, <3>4
  <2> QED
    BY <2>3, <2>4
<1>3. CASE TakePost \/ handleMetricsPostReq \/ Store
  <2>1. tracker # "greeting" /\ UNCHANGED <<agent, handler, errors, agentsBySource, displaced, agentsToGreet>>
    BY <1>3 DEF TakePost, handleMetricsPostReq, Store
  <2> QED
    BY <2>1 DEF Accounted, Duplicate
<1>4. CASE runMetricsDecomposer \/ Crash
  BY <1>4, QuietAccounted DEF runMetricsDecomposer, Crash
<1> QED
  BY <1>1, <1>2, <1>3, <1>4 DEF Track

\* Entries are made by the greeting and deleted by a close.
LEMMA NextKeyed ==
  ASSUME TypeOK, Belongs, Keyed, [Next]_vars
  PROVE  Keyed'
<1> USE DEF connVars, agentVars, mapVars, trackerVars
<1>1. CASE agentsBySource' = agentsBySource
  BY <1>1 DEF Keyed
<1>2. ASSUME NEW c \in Conn, ConnStep(c) PROVE Keyed'
  <2>1. CASE CloseAgentByAddr(c)
    <3>1. \/ agentsBySource' = agentsBySource
          \/ agentsBySource' = [agentsBySource EXCEPT ![SourceOf[c]] = NoAgent]
      BY <2>1 DEF CloseAgentByAddr
    <3> QED
      BY <3>1 DEF Keyed, TypeOK
  <2>2. CASE HandleHello(c) \/ SendToGreeter(c) \/ OfferTaken(c)
    BY <1>1, <2>2 DEF HandleHello, SendToGreeter, OfferTaken
  <2> QED
    BY <1>1, <1>2, <2>1, <2>2, ConnQuiet
<1>3. CASE handleGreetedAgent
  <2>1. subject \in Conn
    BY <1>3 DEF handleGreetedAgent, Belongs, Greeted
  <2>2. \/ agentsBySource' = agentsBySource
        \/ agentsBySource' = [agentsBySource EXCEPT ![SourceOf[subject]] = subject]
    BY <1>3 DEF handleGreetedAgent
  <2> QED
    BY <2>1, <2>2 DEF Keyed, TypeOK
<1>4. CASE TakeGreeted \/ TakePost \/ handleMetricsPostReq \/ Store \/ runMetricsDecomposer \/ Crash \/ UNCHANGED vars
  BY <1>1, <1>4 DEF TakeGreeted, TakePost, handleMetricsPostReq, Store, runMetricsDecomposer, Crash, vars
<1> QED
  BY <1>2, <1>3, <1>4 DEF Next, ConnStep

\* A step that deletes no entry and gives no checks to an agent.
LEMMA QuietKnown ==
  ASSUME KnownUnlessDisplaced, agentsBySource' = agentsBySource, displaced \subseteq displaced',
         \A d \in Conn : agent'[d] = "live" /\ checks'[d] # "none" => agent[d] = "live" /\ checks[d] # "none"
  PROVE  KnownUnlessDisplaced'
  BY DEF KnownUnlessDisplaced

\* Every step preserves KnownUnlessDisplaced: only the close of a duplicate deletes another's entry.
LEMMA NextKnown ==
  ASSUME TypeOK, Belongs, Accounted, KnownUnlessDisplaced, [Next]_vars
  PROVE  KnownUnlessDisplaced'
<1> USE DEF Goto, connVars, agentVars, mapVars, trackerVars
<1>0. displaced \subseteq displaced'
  BY DisplacedStays
<1>1. CASE UNCHANGED <<agent, checks, agentsBySource>>
  BY <1>0, <1>1, QuietKnown
<1>2. ASSUME NEW c \in Conn, HandleHello(c)
      PROVE  KnownUnlessDisplaced'
  <2>1. /\ agent' = agent \/ agent' = [agent EXCEPT ![c] = "live"]
        /\ UNCHANGED <<checks, agentsBySource>>
    BY <1>2 DEF HandleHello
  <2>2. handler[c] = "select"
    BY <1>2 DEF HandleHello, TakeFrame, Goto
  <2>3. checks[c] # "none" => agent[c] = "live"
    BY <2>2 DEF Belongs, Ended, Greeted, TypeOK
  <2> QED
    BY <1>0, <2>1, <2>3, QuietKnown DEF TypeOK
<1>3. ASSUME NEW c \in Conn, OfferTaken(c)
      PROVE  KnownUnlessDisplaced'
  BY <1>0, <1>3, QuietKnown DEF OfferTaken, TypeOK
<1>4. ASSUME NEW c \in Conn, CloseAgentByAddr(c)
      PROVE  KnownUnlessDisplaced'
  <2>1. checks' = checks
    BY <1>4 DEF CloseAgentByAddr
  <2>2. CASE c \notin agentsByAddr
    BY <1>1, <1>4, <2>1, <2>2 DEF CloseAgentByAddr
  <2>3. CASE c \in agentsByAddr
    <3> SUFFICES ASSUME NEW d \in Conn, agent'[d] = "live", checks[d] # "none"
                 PROVE  agentsBySource'[SourceOf[d]] = d \/ d \in displaced'
      BY <2>1 DEF KnownUnlessDisplaced
    <3>1. agent' = [agent EXCEPT ![c] = "cancelled"]
      BY <1>4, <2>3 DEF CloseAgentByAddr
    <3>2. d # c /\ agent[d] = "live"
      BY <3>1 DEF TypeOK
    <3>3. agentsBySource[SourceOf[d]] = d \/ d \in displaced
      BY <3>2 DEF KnownUnlessDisplaced
    <3> QED
      BY <1>0, <1>4, <3>2, <3>3, CloseDisplaces
  <2> QED
    BY <2>2, <2>3
\* A source that is not tracked has no agent that is known, so that none is replaced.
<1>5. CASE handleGreetedAgent
  <2>1. subject \in Conn /\ agent' = agent /\ SourceOf[subject] \in Source
    BY <1>5 DEF handleGreetedAgent, Belongs, Greeted
  <2>2. CASE agentsBySource[SourceOf[subject]] # NoAgent
    BY <1>1, <1>5, <2>1, <2>2 DEF handleGreetedAgent
  <2>3. CASE agentsBySource[SourceOf[subject]] = NoAgent
    <3>1. /\ agentsBySource' = [agentsBySource EXCEPT ![SourceOf[subject]] = subject]
          /\ checks' = [checks EXCEPT ![subject] = "offered"]
      BY <1>5, <2>3 DEF handleGreetedAgent
    <3> SUFFICES ASSUME NEW d \in Conn, agent[d] = "live", checks'[d] # "none"
                 PROVE  agentsBySource'[SourceOf[d]] = d \/ d \in displaced
      BY <1>0, <2>1 DEF KnownUnlessDisplaced
    <3>2. CASE d = subject
      BY <2>1, <3>1, <3>2 DEF TypeOK
    <3>3. CASE d # subject
      <4>1. checks[d] # "none"
        BY <3>1, <3>3 DEF TypeOK
      <4>2. agentsBySource[SourceOf[d]] = d \/ d \in displaced
        BY <4>1 DEF KnownUnlessDisplaced
      <4>3. agentsBySource[SourceOf[d]] = d => SourceOf[d] # SourceOf[subject]
        BY <2>3
      <4> QED
        BY <3>1, <4>2, <4>3 DEF TypeOK
    <3> QED
      BY <3>2, <3>3
  <2> QED
    BY <2>2, <2>3
<1>6. ASSUME NEW c \in Conn, ConnStep(c)
      PROVE  KnownUnlessDisplaced'
  <2>1. CASE SendToGreeter(c)
    BY <1>1, <2>1 DEF SendToGreeter
  <2> QED
    BY <1>1, <1>2, <1>3, <1>4, <1>6, <2>1, ConnQuiet
<1>7. CASE TakeGreeted \/ TakePost \/ handleMetricsPostReq \/ Store \/ runMetricsDecomposer \/ Crash \/ UNCHANGED vars
  BY <1>1, <1>7 DEF TakeGreeted, TakePost, handleMetricsPostReq, Store, runMetricsDecomposer, Crash, vars
<1> QED
  BY <1>5, <1>6, <1>7 DEF Next, ConnStep

-----------------------------------------------------------------------------
(***************************************************************************)
(* Whom a response reaches.                                                *)
(***************************************************************************)

\* A step that starts no hand-over of a response preserves ResponseReachesItsAgent.
LEMMA QuietReaches ==
  ASSUME ResponseReachesItsAgent, displaced \subseteq displaced',
         \A d \in Conn : handler'[d] = "responding" => handler[d] = "responding" /\ respondTo'[d] = respondTo[d]
  PROVE  ResponseReachesItsAgent'
  BY DEF ResponseReachesItsAgent

\* Every step preserves it: the agent that a response is handed to is looked up by the source.
LEMMA NextReaches ==
  ASSUME TypeOK, Belongs, Keyed, KnownUnlessDisplaced, ResponseReachesItsAgent, [Next]_vars
  PROVE  ResponseReachesItsAgent'
<1> USE DEF Goto, connVars, agentVars, mapVars, trackerVars
<1>0. displaced \subseteq displaced'
  BY DisplacedStays
<1>1. ASSUME NEW c \in Conn, NEW to \in HandlerState, to # "responding", handler' = [handler EXCEPT ![c] = to],
             \A d \in Conn : d # c => respondTo'[d] = respondTo[d]
      PROVE  ResponseReachesItsAgent'
  BY <1>0, <1>1, QuietReaches DEF TypeOK
<1>2. CASE UNCHANGED <<handler, respondTo>>
  BY <1>0, <1>2, QuietReaches
\* An agent that gets a response is served, and its handler has not closed it.
<1>3. ASSUME NEW c \in Conn, LookUp(c)
      PROVE  ResponseReachesItsAgent'
  <2>1. /\ handler[c] = "looking"
        /\ handler' = [handler EXCEPT ![c] = IF agentsBySource[SourceOf[c]] = NoAgent THEN "select" ELSE "responding"]
        /\ respondTo' = [respondTo EXCEPT ![c] = agentsBySource[SourceOf[c]]]
        /\ agent' = agent
    BY <1>3 DEF LookUp
  <2>2. agent[c] = "live" /\ checks[c] # "none"
    BY <2>1 DEF Belongs, Ended, Greeted, Responses, TypeOK
  <2>3. agentsBySource[SourceOf[c]] = c \/ c \in displaced
    BY <2>2 DEF KnownUnlessDisplaced
  <2> SUFFICES ASSUME NEW d \in Conn, handler'[d] = "responding"
               PROVE  respondTo'[d] = d \/ (d \in displaced /\ SourceOf[respondTo'[d]] = SourceOf[d])
    BY <1>0, <2>1 DEF ResponseReachesItsAgent
  <2>4. CASE d = c
    <3>1. agentsBySource[SourceOf[c]] # NoAgent /\ respondTo'[c] = agentsBySource[SourceOf[c]]
      BY <2>1, <2>4 DEF TypeOK
    <3>2. SourceOf[c] \in Source
      OBVIOUS
    <3>3. SourceOf[respondTo'[c]] = SourceOf[c]
      BY <3>1, <3>2 DEF Keyed
    <3> QED
      BY <2>3, <2>4, <3>1, <3>3
  <2>5. CASE d # c
    BY <2>1, <2>5 DEF ResponseReachesItsAgent, TypeOK
  <2> QED
    BY <2>4, <2>5
<1>4. ASSUME NEW c \in Conn, ConnStep(c)
      PROVE  ResponseReachesItsAgent'
  <2> USE DEF HandlerState
  <2>1. ASSUME NEW f \in Frame, Decode(c, f) PROVE UNCHANGED <<handler, respondTo>>
    BY <2>1 DEF Decode
  <2>2. CASE DecoderFinishes(c) \/ DecoderFails(c) \/ waitOnAgentError(c) \/ OfferTaken(c)
    BY <1>2, <2>2 DEF DecoderFinishes, DecoderFails, waitOnAgentError, OfferTaken
  <2>3. CASE Accept(c)
    BY <1>1, <2>3 DEF Accept
  <2>4. CASE SendToGreeter(c)
    BY <1>1, <2>4 DEF SendToGreeter
  <2>5. CASE RecordByAddr(c)
    BY <1>1, <2>5 DEF RecordByAddr
  <2>6. CASE handleCheckMetricsPost(c)
    BY <1>1, <2>6 DEF handleCheckMetricsPost
  <2>7. CASE CoordinatorTakes(c)
    <3>1. /\ handler' = [handler EXCEPT ![c] = "select"]
          /\ \A d \in Conn : d # c => respondTo'[d] = respondTo[d]
      BY <2>7 DEF CoordinatorTakes, TypeOK
    <3> QED
      BY <1>1, <3>1
  <2>8. CASE CloseAgentByAddr(c)
    BY <1>1, <2>8 DEF CloseAgentByAddr
  <2>9. CASE HandleHello(c) \/ HandleFrame(c)
    <3>1. PICK to \in HandlerState : to # "responding" /\ handler' = [handler EXCEPT ![c] = to]
      BY <2>9 DEF HandleHello, HandleFrame, TakeFrame
    <3>2. respondTo' = respondTo
      BY <2>9 DEF HandleHello, HandleFrame
    <3> QED
      BY <1>1, <3>1, <3>2
  <2> QED
    BY <1>2, <1>3, <1>4, <2>1, <2>2, <2>3, <2>4, <2>5, <2>6, <2>7, <2>8, <2>9 DEF ConnStep
<1>5. CASE TakeGreeted \/ handleGreetedAgent \/ TakePost \/ handleMetricsPostReq \/ Store
  BY <1>2, <1>5 DEF TakeGreeted, handleGreetedAgent, TakePost, handleMetricsPostReq, Store
<1>6. CASE runMetricsDecomposer \/ Crash \/ UNCHANGED vars
  BY <1>2, <1>6 DEF runMetricsDecomposer, Crash, vars
<1> QED
  BY <1>4, <1>5, <1>6 DEF Next, ConnStep

-----------------------------------------------------------------------------
(***************************************************************************)
(* The theorems.                                                           *)
(***************************************************************************)

\* The invariant is inductive.
THEOREM TrackerInvariant == Spec => []IInv
<1>1. IInv /\ [Next]_vars => IInv'
  <2> SUFFICES ASSUME IInv, [Next]_vars PROVE IInv'
    OBVIOUS
  <2>0. TypeOK /\ Belongs /\ Accounted /\ Keyed /\ KnownUnlessDisplaced /\ ResponseReachesItsAgent
    BY DEF IInv, Belongs
  <2>1. CASE UNCHANGED vars
    BY <2>1 DEF vars, connVars, agentVars, mapVars, trackerVars, IInv, TypeOK, Ended, Greeted, Responses,
       Accounted, Duplicate, Keyed, KnownUnlessDisplaced, ResponseReachesItsAgent
  <2>2. CASE Next
    <3>1. (\E c \in Conn : ConnStep(c)) \/ Track \/ runMetricsDecomposer \/ Crash
      BY <2>2 DEF Next, ConnStep, Track
    <3>2. TypeOK'
      BY <2>0, <3>1, ConnTypes, TrackTypes DEF Belongs
    <3>3. Belongs'
      BY <2>0, <3>1, ConnBelongs, TrackBelongs
    <3>4. Accounted'
      BY <2>0, <3>1, ConnAccounted, TrackAccounted
    <3> QED
      BY <2>0, <3>2, <3>3, <3>4, NextKeyed, NextKnown, NextReaches DEF IInv, Belongs
  <2> QED
    BY <2>1, <2>2
<1> QED
  BY <1>1, InitIInv, PTL DEF Spec

\* However many connections a poller has, an agent that the tracker serves is in the map
\* by source until it is closed, or a duplicate of it (handleGreetedAgent,
\* CloseAgentByAddr).
THEOREM TrackerKnownUnlessDisplaced == Spec => []KnownUnlessDisplaced
<1>1. IInv => KnownUnlessDisplaced
  BY DEF IInv
<1> QED
  BY <1>1, TrackerInvariant, PTL

\* The responses that come in on a connection are delivered to its own agent, or, once a
\* duplicate has displaced it, to another one of the same poller (handleResponse).
THEOREM TrackerResponseReachesItsAgent == Spec => []ResponseReachesItsAgent
<1>1. IInv => ResponseReachesItsAgent
  BY DEF IInv
<1> QED
  BY <1>1, TrackerInvariant, PTL

=============================================================================
