---------------------------- MODULE SessionIOProofs -----------------------------
(***************************************************************************)
(* The properties of SessionIO hold for every capacity of its channels and *)
(* whichever IDs the server uses.                                          *)
(***************************************************************************)
EXTENDS SessionIO, TLAPS

USE ServerIdAssumption, SizesAssumption, BoundsAssumption

-----------------------------------------------------------------------------
(***************************************************************************)
(* The inductive invariant.                                                *)
(***************************************************************************)

\* No request was sent or staged under id.
Unused(id) ==
  /\ \A f \in written : f.id # id
  /\ \A i \in DOMAIN sendCh : sendCh[i].method # "response" => sendCh[i].id # id

\* The requests have IDs of their own, the responses those of the server.
Staged ==
  \A i \in DOMAIN sendCh :
    IF sendCh[i].method = "response" THEN sendCh[i].id \in ServerId
    ELSE /\ sendCh[i].id \in 1 .. seq
         /\ \A f \in written : f.id # sendCh[i].id
         /\ \A j \in DOMAIN sendCh :
              j # i /\ sendCh[j].method # "response" => sendCh[j].id # sendCh[i].id

Written == \A f \in written : f.method # "response" /\ f.id \in 1 .. seq

\* The heartbeat that is about to be staged has an ID that is still to be used.
Beating ==
  /\ tracking = expectedSeqID /\ expectedSeqID <= seq
  /\ heartbeats = "sending" => expectedSeqID > 0 /\ Unused(expectedSeqID)

\* What the handler answers, the server has asked; what it posts was a heartbeat.
Handling ==
  /\ \A i \in DOMAIN readCh : readCh[i].kind \in {"request", "query"} => readCh[i].id \in ServerId
  /\ handler = "responding" => handling \in ServerId
  /\ handler = "posting" => handling \in SeqId

\* The handshake is sent once, and its completion is gone when the session is authenticated.
Handshake ==
  /\ caller = "auth" => seq = 0
  /\ \A i \in DOMAIN sendCh : sendCh[i].method = "hello" =>
       /\ sendCh[i].id = 1 /\ caller # "auth" /\ authenticated = "no"
       /\ \A k \in FrameId : completions[k] # "hello"
  /\ \A k \in FrameId : completions[k] = "hello" => k = 1 /\ caller # "auth" /\ authenticated = "no"
  /\ \A k \in FrameId : completions[k] = "heartbeat" => k \in SeqId
  /\ caller = "auth" => heartbeats = "off"
  /\ heartbeats = "off" <=> authenticated = "no"

\* The timer is set by Auth, stopped by a handshake response only, and ends the session.
Timed ==
  /\ authTimer = "nil" => caller # "ready"
  /\ authTimer = "stopped" => authenticated = "yes" \/ refused
  /\ authTimer = "fired" => ctx = "done"

IInv == TypeOK /\ Staged /\ Written /\ Beating /\ Handling /\ Handshake /\ MeasuresItsOwn /\ Timed

\* The state that NewSession makes satisfies the invariant.
LEMMA InitIInv == Init => IInv
<1> SUFFICES ASSUME Init PROVE IInv
  OBVIOUS
<1>1. /\ sendCh \in Seq(Frame) /\ Len(sendCh) = 0 /\ DOMAIN sendCh = {}
      /\ readCh \in Seq(FromServer) /\ Len(readCh) = 0 /\ DOMAIN readCh = {}
      /\ heartbeatResponses \in Seq(SeqId) /\ Len(heartbeatResponses) = 0
  BY DEF Init
<1>2. TypeOK
  <2>1. refused \in BOOLEAN
    BY DEF Init
  <2> QED
    BY <1>1, <2>1 DEF Init, TypeOK
<1> QED
  BY <1>1, <1>2 DEF Init, IInv, Staged, Written, Beating, Handling, Handshake, MeasuresItsOwn, Timed

-----------------------------------------------------------------------------
(***************************************************************************)
(* Channels.                                                               *)
(***************************************************************************)

\* A send to a channel, and a receive from it.
LEMMA AppendFacts ==
  ASSUME NEW S, NEW q \in Seq(S), NEW e \in S
  PROVE  /\ Append(q, e) \in Seq(S) /\ Len(q) \in Nat /\ Len(Append(q, e)) = Len(q) + 1
         /\ DOMAIN q = 1 .. Len(q) /\ DOMAIN Append(q, e) = 1 .. (Len(q) + 1)
         /\ \A i \in DOMAIN q : Append(q, e)[i] = q[i]
         /\ Append(q, e)[Len(q) + 1] = e
  OBVIOUS

\* What a receive takes from a channel and leaves in it.
LEMMA TailFacts ==
  ASSUME NEW S, NEW q \in Seq(S), q # <<>>
  PROVE  /\ Head(q) \in S /\ Head(q) = q[1] /\ 1 \in DOMAIN q
         /\ Tail(q) \in Seq(S) /\ Len(q) \in Nat /\ Len(Tail(q)) = Len(q) - 1
         /\ \A i \in DOMAIN Tail(q) : i \in Nat \ {0} /\ i + 1 \in DOMAIN q /\ Tail(q)[i] = q[i + 1]
<1>1. Len(q) \in Nat \ {0}
  OBVIOUS
<1> QED
  BY <1>1

\* What Stage adds to the channel.
LEMMA StageFacts ==
  ASSUME TypeOK, NEW method \in Method, NEW id \in FrameId, Stage(method, id), NEW n, n = Len(sendCh) + 1
  PROVE  /\ sendCh' \in Seq(Frame) /\ Len(sendCh') <= sendChannelSize
         /\ n \notin DOMAIN sendCh /\ DOMAIN sendCh' = DOMAIN sendCh \cup {n}
         /\ \A i \in DOMAIN sendCh : sendCh'[i] = sendCh[i]
         /\ sendCh'[n].method = method /\ sendCh'[n].id = id
<1>1. PICK e \in Frame : e.method = method /\ e.id = id /\ sendCh' = Append(sendCh, e)
  BY DEF Stage, Frame
<1>2. sendCh \in Seq(Frame) /\ Len(sendCh) < sendChannelSize
  BY DEF TypeOK, Stage
<1> QED
  BY <1>1, <1>2, AppendFacts

-----------------------------------------------------------------------------
(***************************************************************************)
(* The IDs of the requests.                                                *)
(***************************************************************************)

Ids == Staged /\ Written /\ Beating

\* A step that stages nothing and sends nothing.
LEMMA QuietIds ==
  ASSUME TypeOK, Ids, UNCHANGED <<sendCh, written, seq, expectedSeqID, tracking>>,
         heartbeats' = "sending" => heartbeats = "sending"
  PROVE  Ids'
  BY DEF Ids, Staged, Written, Beating, Unused

\* A frame is staged: a response, or a request whose ID is unused.
LEMMA StageIds ==
  ASSUME TypeOK, Ids, NEW method \in Method, NEW id \in FrameId, Stage(method, id),
         UNCHANGED <<written, expectedSeqID, tracking>>, seq' \in Nat, seq <= seq',
         IF method = "response" THEN id \in ServerId ELSE id \in 1 .. seq' /\ Unused(id),
         heartbeats' = "sending" => heartbeats = "sending" /\ (method # "response" => id # expectedSeqID)
  PROVE  Ids'
<1> DEFINE n == Len(sendCh) + 1
<1>1. /\ DOMAIN sendCh' = DOMAIN sendCh \cup {n} /\ n \notin DOMAIN sendCh
      /\ \A i \in DOMAIN sendCh : sendCh'[i] = sendCh[i]
  BY StageFacts
<1>2. /\ DOMAIN sendCh' = DOMAIN sendCh \cup {n} /\ n \notin DOMAIN sendCh
      /\ \A i \in DOMAIN sendCh : sendCh'[i] = sendCh[i]
      /\ sendCh'[n].method = method /\ sendCh'[n].id = id
  BY <1>1, StageFacts
<1> HIDE DEF n
<1>3. seq \in Nat /\ expectedSeqID \in Nat
  BY DEF TypeOK
<1>4. Written'
  BY <1>3 DEF Ids, Written
<1>5. Beating'
  BY <1>2, <1>3 DEF Ids, Beating, Unused
<1>6. Staged'
  <2> SUFFICES ASSUME NEW i \in DOMAIN sendCh'
               PROVE  IF sendCh'[i].method = "response" THEN sendCh'[i].id \in ServerId
                      ELSE /\ sendCh'[i].id \in 1 .. seq'
                           /\ \A f \in written : f.id # sendCh'[i].id
                           /\ \A j \in DOMAIN sendCh' :
                                j # i /\ sendCh'[j].method # "response" => sendCh'[j].id # sendCh'[i].id
    BY DEF Staged
  <2>1. CASE i = n
    BY <1>2, <2>1 DEF Unused
  <2>2. CASE i \in DOMAIN sendCh
    BY <1>2, <1>3, <2>2 DEF Ids, Staged, Unused
  <2> QED
    BY <1>2, <2>1, <2>2
<1> QED
  BY <1>4, <1>5, <1>6 DEF Ids

\* The first frame of the channel is taken, and written unless that fails.
LEMMA TakeIds ==
  ASSUME TypeOK, Ids, sendCh # <<>>, sendCh' = Tail(sendCh), UNCHANGED <<seq, heartbeatVars>>,
         \/ written' = written
         \/ Head(sendCh).method # "response" /\ written' = written \cup {Head(sendCh)}
  PROVE  Ids'
<1>1. /\ Head(sendCh) = sendCh[1] /\ 1 \in DOMAIN sendCh
      /\ \A i \in DOMAIN sendCh' : i \in Nat \ {0} /\ i + 1 \in DOMAIN sendCh /\ sendCh'[i] = sendCh[i + 1]
  BY TailFacts DEF TypeOK
<1>2. Head(sendCh).method # "response" => Head(sendCh).id \in 1 .. seq
  BY <1>1 DEF Ids, Staged
<1>3. Written'
  BY <1>2 DEF Ids, Written
<1>4. \A f \in written' : f \in written \/ (f = sendCh[1] /\ f.method # "response")
  BY <1>1
<1>5. Staged'
  <2> SUFFICES ASSUME NEW i \in DOMAIN sendCh'
               PROVE  IF sendCh'[i].method = "response" THEN sendCh'[i].id \in ServerId
                      ELSE /\ sendCh'[i].id \in 1 .. seq
                           /\ \A f \in written' : f.id # sendCh'[i].id
                           /\ \A j \in DOMAIN sendCh' :
                                j # i /\ sendCh'[j].method # "response" => sendCh'[j].id # sendCh'[i].id
    BY DEF Staged
  <2>1. i + 1 \in DOMAIN sendCh /\ sendCh'[i] = sendCh[i + 1] /\ i + 1 # 1
    BY <1>1
  <2>2. CASE sendCh[i + 1].method = "response"
    BY <2>1, <2>2 DEF Ids, Staged
  <2>3. CASE sendCh[i + 1].method # "response"
    <3>1. /\ sendCh[i + 1].id \in 1 .. seq
          /\ \A f \in written : f.id # sendCh[i + 1].id
          /\ \A j \in DOMAIN sendCh :
               j # i + 1 /\ sendCh[j].method # "response" => sendCh[j].id # sendCh[i + 1].id
      BY <2>1, <2>3 DEF Ids, Staged
    <3>2. \A f \in written' : f.id # sendCh[i + 1].id
      BY <1>1, <1>4, <2>1, <3>1
    <3>3. \A j \in DOMAIN sendCh' : j # i => j + 1 \in DOMAIN sendCh /\ sendCh'[j] = sendCh[j + 1] /\ j + 1 # i + 1
      BY <1>1
    <3> QED
      BY <2>1, <2>3, <3>1, <3>2, <3>3
  <2> QED
    BY <2>2, <2>3
<1>6. Beating'
  BY <1>1, <1>4 DEF Ids, Beating, Unused, heartbeatVars
<1> QED
  BY <1>3, <1>5, <1>6 DEF Ids

\* The next ID is unused.
LEMMA NextIdUnused ==
  ASSUME TypeOK, Ids
  PROVE  seq + 1 \in Nat /\ expectedSeqID # seq + 1 /\ Unused(seq + 1)
  BY DEF TypeOK, Ids, Staged, Written, Beating, Unused

\* Every step keeps the IDs of requests apart: none is staged, written or expected twice.
LEMMA NextIds ==
  ASSUME TypeOK, Ids, Handling, [Next]_vars
  PROVE  Ids'
<1> USE DEF authVars, heartbeatVars, handlerVars
<1>1. seq \in Nat /\ Unused(seq + 1) /\ expectedSeqID # seq + 1 /\ expectedSeqID \in Nat
  BY NextIdUnused DEF TypeOK
<1>2. seq < MaxSeq => seq + 1 \in FrameId /\ seq + 1 \in 1 .. (seq + 1)
  BY <1>1 DEF FrameId, SeqId
<1>3. CASE AuthSend
  <2>1. "hello" \in Method
    BY DEF Method
  <2> QED
    BY <1>1, <1>2, <1>3, <2>1, StageIds DEF AuthSend
<1>4. CASE SendMetrics
  <2>1. "metrics" \in Method
    BY DEF Method
  <2> QED
    BY <1>1, <1>2, <1>4, <2>1, StageIds DEF SendMetrics
<1>5. CASE HeartbeatSend
  <2>1. "heartbeat" \in Method
    BY DEF Method
  <2>2. /\ expectedSeqID \in 1 .. seq /\ Unused(expectedSeqID) /\ expectedSeqID \in FrameId
        /\ heartbeats' # "sending" /\ seq' = seq
    BY <1>1, <1>5 DEF HeartbeatSend, Ids, Beating, TypeOK, FrameId, SeqId
  <2> QED
    BY <1>1, <1>5, <2>1, <2>2, StageIds DEF HeartbeatSend
<1>6. ASSUME NEW i \in ServerId, Stage("response", i), UNCHANGED <<seq, written, heartbeatVars>>
      PROVE  Ids'
  <2>1. "response" \in Method /\ i \in FrameId
    BY DEF Method, FrameId
  <2> QED
    BY <1>1, <1>6, <2>1, StageIds
<1>7. CASE Respond
  BY <1>6, <1>7 DEF Respond, Handling
<1>8. ASSUME NEW i \in ServerId, WorkerResponds(i) PROVE Ids'
  BY <1>6, <1>8 DEF WorkerResponds
<1>9. CASE HeartbeatDue
  BY <1>1, <1>9 DEF HeartbeatDue, Ids, Staged, Written, Beating, Unused
<1>10. CASE SendFrame
  BY <1>10, TakeIds DEF SendFrame
<1>11. CASE WriteReturns \/ SendFails
  BY <1>11, QuietIds DEF WriteReturns, SendFails
<1>12. CASE AuthArm \/ AuthTimeout \/ SenderExits \/ SessionEnds
  BY <1>12, QuietIds DEF AuthArm, AuthTimeout, SenderExits, SessionEnds
<1>13. CASE ServerAnswers \/ ServerRefuses \/ ServerRequests
  BY <1>13, QuietIds DEF ServerAnswers, ServerRefuses, ServerRequests, Read
<1>14. CASE HandleResponse
  BY <1>14, QuietIds DEF HandleResponse, HandleHandshake, HandleHeartbeat, HandleOther
<1>15. CASE PostHeartbeat \/ HandleRequest \/ HandleQuery \/ HandlerExits
  BY <1>15, QuietIds DEF PostHeartbeat, HandleRequest, HandleQuery, HandlerExits
<1>16. ASSUME NEW i \in ServerId, WorkerGivesUp(i) PROVE Ids'
  BY <1>16, QuietIds DEF WorkerGivesUp
<1>17. CASE HeartbeatMeasure \/ HeartbeatsExit \/ UNCHANGED vars
  BY <1>17, QuietIds DEF HeartbeatMeasure, HeartbeatsExit, vars
<1> QED
  BY <1>3, <1>4, <1>5, <1>7, <1>8, <1>9, <1>10, <1>11, <1>12, <1>13, <1>14, <1>15, <1>16, <1>17 DEF Next

-----------------------------------------------------------------------------
(***************************************************************************)
(* Types.                                                                  *)
(***************************************************************************)

\* The frame that the handler takes from readCh.
LEMMA ReadFacts ==
  ASSUME TypeOK, readCh # <<>>, readCh' = Tail(readCh)
  PROVE  /\ Head(readCh) \in FromServer /\ Head(readCh).id \in FrameId
         /\ Head(readCh) = readCh[1] /\ 1 \in DOMAIN readCh
         /\ readCh' \in Seq(FromServer) /\ Len(readCh') <= readChannelSize
         /\ \A i \in DOMAIN readCh' : i + 1 \in DOMAIN readCh /\ readCh'[i] = readCh[i + 1]
<1>1. readCh \in Seq(FromServer) /\ Len(readCh) <= readChannelSize
  BY DEF TypeOK
<1>2. Head(readCh) \in FromServer
  BY <1>1, TailFacts
<1> QED
  BY <1>1, <1>2, TailFacts DEF FromServer

\* The frame that the sender takes from sendCh.
LEMMA TakeFacts ==
  ASSUME TypeOK, sendCh # <<>>, sendCh' = Tail(sendCh), addCompletion(Head(sendCh))
  PROVE  /\ Head(sendCh) \in Frame /\ Head(sendCh).id \in FrameId /\ Head(sendCh).method \in Method
         /\ Head(sendCh) = sendCh[1] /\ 1 \in DOMAIN sendCh
         /\ sendCh' \in Seq(Frame) /\ Len(sendCh') <= sendChannelSize
         /\ \A i \in DOMAIN sendCh' : i \in Nat \ {0} /\ i + 1 \in DOMAIN sendCh /\ sendCh'[i] = sendCh[i + 1]
         /\ completions' \in [FrameId -> Method \cup {"none"}]
         /\ completions'[Head(sendCh).id] = Head(sendCh).method
         /\ \A k \in FrameId : k # Head(sendCh).id => completions'[k] = completions[k]
<1>1. sendCh \in Seq(Frame) /\ Len(sendCh) <= sendChannelSize
  BY DEF TypeOK
<1>2. Head(sendCh) \in Frame
  BY <1>1, TailFacts
<1>3. Head(sendCh).id \in FrameId /\ Head(sendCh).method \in Method
  BY <1>2 DEF Frame
<1>4. /\ completions' \in [FrameId -> Method \cup {"none"}]
      /\ completions'[Head(sendCh).id] = Head(sendCh).method
      /\ \A k \in FrameId : k # Head(sendCh).id => completions'[k] = completions[k]
  BY <1>3 DEF TypeOK, addCompletion
<1> QED
  BY <1>1, <1>2, <1>3, <1>4, TailFacts

\* A frame of the server is read.
LEMMA ReadTypes ==
  ASSUME TypeOK, Written, ServerAnswers \/ ServerRefuses \/ ServerRequests
  PROVE  TypeOK'
<1>1. PICK kind \in {"answer", "refusal", "request", "query"}, id \in FrameId : Read(kind, id)
  <2>1. \A f \in written : f.id \in FrameId
    BY DEF TypeOK, Frame
  <2> QED
    BY <2>1 DEF ServerAnswers, ServerRefuses, ServerRequests, FrameId
<1>2. readCh' \in Seq(FromServer) /\ Len(readCh') <= readChannelSize
  <2>1. PICK e \in FromServer : readCh' = Append(readCh, e)
    BY <1>1 DEF Read, FromServer
  <2> QED
    BY <1>1, <2>1, AppendFacts DEF Read, TypeOK
<1> QED
  BY <1>1, <1>2 DEF Read, TypeOK, authVars, heartbeatVars, handlerVars

\* A response is handled: when the handshake is answered the session is not yet
\* authenticated.
LEMMA ResponseTypes ==
  ASSUME TypeOK, Handshake, HandleResponse
  PROVE  TypeOK'
<1> USE DEF authVars, heartbeatVars, handlerVars
<1>1. PICK f \in FromServer :
        /\ f.id \in FrameId /\ getCompletionRequest(f.id)
        /\ HandleHandshake(f) \/ HandleHeartbeat(f) \/ HandleOther(f)
  BY ReadFacts DEF HandleResponse
<1>2. readCh' \in Seq(FromServer) /\ Len(readCh') <= readChannelSize
  BY ReadFacts DEF HandleResponse
<1>3. completions' \in [FrameId -> Method \cup {"none"}]
  BY <1>1 DEF getCompletionRequest, TypeOK
<1>4. UNCHANGED <<ctx, sender, caller, seq, sendCh, written, arrived, workers>>
  BY DEF HandleResponse
<1>5. CASE HandleHandshake(f)
  <2>1. authenticated = "no"
    BY <1>1, <1>5 DEF HandleHandshake, Handshake
  <2>2. authTimer' \in {"nil", "running", "stopped", "fired"}
    BY <1>5 DEF HandleHandshake, stopAuthTimer, TypeOK
  <2>3. authenticated' \in {"no", "yes"} /\ heartbeats' \in {"off", "select", "sending", "done"}
    BY <1>5, <2>1 DEF HandleHandshake, TypeOK
  <2>4. refused' \in BOOLEAN
    BY <1>5 DEF HandleHandshake, TypeOK
  <2>5. UNCHANGED <<handler, handling, expectedSeqID, tracking, heartbeatResponses, measured>>
    BY <1>5 DEF HandleHandshake
  <2>6. UNCHANGED caller
    BY DEF HandleResponse
  <2> QED
    BY <1>2, <1>3, <1>4, <2>2, <2>3, <2>4, <2>5, <2>6 DEF TypeOK
<1>6. CASE HandleHeartbeat(f)
  BY <1>1, <1>2, <1>3, <1>4, <1>6 DEF HandleHeartbeat, TypeOK
<1>7. CASE HandleOther(f)
  BY <1>1, <1>2, <1>3, <1>4, <1>7 DEF HandleOther, TypeOK
<1> QED
  BY <1>1, <1>5, <1>6, <1>7

\* Every step keeps the types.
LEMMA NextTypes ==
  ASSUME IInv, [Next]_vars
  PROVE  TypeOK'
<1> USE DEF authVars, heartbeatVars, handlerVars
<1>1. TypeOK /\ Handling /\ Handshake /\ Beating /\ Written
  BY DEF IInv
<1>2. "hello" \in Method /\ "heartbeat" \in Method /\ "metrics" \in Method /\ "response" \in Method
  BY DEF Method
<1>3. seq < MaxSeq => seq + 1 \in SeqId /\ seq + 1 \in FrameId
  BY <1>1 DEF TypeOK, FrameId, SeqId
<1>4. ASSUME NEW method \in Method, NEW id \in FrameId, Stage(method, id)
      PROVE  sendCh' \in Seq(Frame) /\ Len(sendCh') <= sendChannelSize
  BY <1>1, <1>4, StageFacts
<1>5. CASE AuthSend
  <2>1. sendCh' \in Seq(Frame) /\ Len(sendCh') <= sendChannelSize
    BY <1>2, <1>3, <1>4, <1>5 DEF AuthSend
  <2> QED
    BY <1>1, <1>5, <2>1 DEF AuthSend, TypeOK
<1>6. CASE SendMetrics
  <2>1. sendCh' \in Seq(Frame) /\ Len(sendCh') <= sendChannelSize
    BY <1>2, <1>3, <1>4, <1>6 DEF SendMetrics
  <2> QED
    BY <1>1, <1>6, <2>1 DEF SendMetrics, TypeOK
<1>7. CASE HeartbeatSend
  <2>1. expectedSeqID \in FrameId
    BY <1>1, <1>7 DEF HeartbeatSend, Beating, TypeOK, FrameId, SeqId
  <2>2. sendCh' \in Seq(Frame) /\ Len(sendCh') <= sendChannelSize
    BY <1>2, <1>4, <1>7, <2>1 DEF HeartbeatSend
  <2> QED
    BY <1>1, <1>7, <2>2 DEF HeartbeatSend, TypeOK
<1>8. CASE Respond
  <2>1. handling \in FrameId
    BY <1>1, <1>8 DEF Respond, Handling, FrameId
  <2>2. sendCh' \in Seq(Frame) /\ Len(sendCh') <= sendChannelSize
    BY <1>2, <1>4, <1>8, <2>1 DEF Respond
  <2> QED
    BY <1>1, <1>8, <2>2 DEF Respond, TypeOK
<1>9. ASSUME NEW i \in ServerId, WorkerResponds(i) PROVE TypeOK'
  <2>1. i \in FrameId
    BY DEF FrameId
  <2>2. sendCh' \in Seq(Frame) /\ Len(sendCh') <= sendChannelSize
    BY <1>2, <1>4, <1>9, <2>1 DEF WorkerResponds
  <2> QED
    BY <1>1, <1>9, <2>2 DEF WorkerResponds, TypeOK
<1>10. CASE SendFrame
  <2>1. /\ Head(sendCh) \in Frame /\ sendCh' \in Seq(Frame) /\ Len(sendCh') <= sendChannelSize
        /\ completions' \in [FrameId -> Method \cup {"none"}]
    BY <1>1, <1>10, TakeFacts DEF SendFrame
  <2> QED
    BY <1>1, <1>10, <2>1 DEF SendFrame, TypeOK
<1>11. CASE WriteReturns \/ SendFails
  <2>1. CASE WriteReturns
    BY <1>1, <2>1 DEF WriteReturns, TypeOK
  <2>2. CASE SendFails
    BY <1>1, <2>2 DEF SendFails, TypeOK
  <2> QED
    BY <1>11, <2>1, <2>2
<1>12. CASE AuthArm \/ AuthTimeout \/ SenderExits \/ SessionEnds
  <2>1. CASE AuthArm
    BY <1>1, <2>1 DEF AuthArm, TypeOK
  <2>2. CASE AuthTimeout
    BY <1>1, <2>2 DEF AuthTimeout, TypeOK
  <2>3. CASE SenderExits
    BY <1>1, <2>3 DEF SenderExits, TypeOK
  <2>4. CASE SessionEnds
    BY <1>1, <2>4 DEF SessionEnds, TypeOK
  <2> QED
    BY <1>12, <2>1, <2>2, <2>3, <2>4
<1>13. CASE ServerAnswers \/ ServerRefuses \/ ServerRequests
  BY <1>1, <1>13, ReadTypes
<1>14. CASE HandleResponse
  BY <1>1, <1>14, ResponseTypes
<1>15. CASE HandleRequest
  <2>1. Head(readCh).id \in FrameId /\ readCh' \in Seq(FromServer) /\ Len(readCh') <= readChannelSize
    BY <1>1, <1>15, ReadFacts DEF HandleRequest
  <2> QED
    BY <1>1, <1>15, <2>1 DEF HandleRequest, TypeOK
<1>16. CASE HandleQuery
  <2>1. Head(readCh).id \in ServerId /\ readCh' \in Seq(FromServer) /\ Len(readCh') <= readChannelSize
    BY <1>1, <1>16, ReadFacts DEF HandleQuery, Handling
  <2>2. workers' \subseteq ServerId
    <3>1. workers \subseteq ServerId
      BY <1>1 DEF TypeOK
    <3>2. workers' = workers \cup {Head(readCh).id}
      BY <1>16 DEF HandleQuery
    <3> QED
      BY <2>1, <3>1, <3>2
  <2> QED
    BY <1>1, <1>16, <2>1, <2>2 DEF HandleQuery, TypeOK
<1>17. CASE PostHeartbeat
  <2>1. handling \in SeqId /\ heartbeatResponses \in Seq(SeqId) /\ Len(heartbeatResponses) < 1
    BY <1>1, <1>17 DEF PostHeartbeat, Handling, TypeOK
  <2>2. heartbeatResponses' \in Seq(SeqId) /\ Len(heartbeatResponses') <= 1
    BY <1>17, <2>1, AppendFacts DEF PostHeartbeat
  <2> QED
    BY <1>1, <1>17, <2>2 DEF PostHeartbeat, TypeOK
<1>18. CASE HandlerExits \/ HeartbeatsExit
  <2>1. CASE HandlerExits
    BY <1>1, <2>1 DEF HandlerExits, TypeOK
  <2>2. CASE HeartbeatsExit
    BY <1>1, <2>2 DEF HeartbeatsExit, TypeOK
  <2> QED
    BY <1>18, <2>1, <2>2
<1>19. ASSUME NEW i \in ServerId, WorkerGivesUp(i) PROVE TypeOK'
  BY <1>1, <1>19 DEF WorkerGivesUp, TypeOK
<1>20. CASE HeartbeatDue
  BY <1>1, <1>20 DEF HeartbeatDue, TypeOK
<1>21. CASE HeartbeatMeasure
  <2>1. heartbeatResponses \in Seq(SeqId) /\ heartbeatResponses # <<>> /\ Len(heartbeatResponses) <= 1
    BY <1>1, <1>21 DEF HeartbeatMeasure, TypeOK
  <2>2. Head(heartbeatResponses) \in SeqId /\ heartbeatResponses' \in Seq(SeqId) /\ Len(heartbeatResponses') <= 1
    BY <1>21, <2>1, TailFacts DEF HeartbeatMeasure
  <2>3. measured' \subseteq SeqId \X SeqId
    BY <1>1, <1>21, <2>2 DEF HeartbeatMeasure, updateHeartbeatMeasurement, Beating, TypeOK
  <2> QED
    BY <1>1, <1>21, <2>2, <2>3 DEF HeartbeatMeasure, TypeOK
<1>22. CASE UNCHANGED vars
  BY <1>1, <1>22 DEF vars, TypeOK
<1> QED
  BY <1>5, <1>6, <1>7, <1>8, <1>9, <1>10, <1>11, <1>12, <1>13, <1>14, <1>15, <1>16, <1>17, <1>18, <1>19, <1>20,
     <1>21, <1>22 DEF Next

-----------------------------------------------------------------------------
(***************************************************************************)
(* What the handler works on.                                              *)
(***************************************************************************)

\* The handler answers what the server asked and posts what was a heartbeat, whatever step comes.
LEMMA NextHandling ==
  ASSUME TypeOK, Handling, Handshake, [Next]_vars
  PROVE  Handling'
<1> USE DEF authVars, heartbeatVars, handlerVars
<1>1. ASSUME UNCHANGED <<readCh, handling>>, handler' \in {handler, "select", "done"}
      PROVE  Handling'
  BY <1>1 DEF Handling
<1>2. CASE AuthSend \/ AuthArm \/ AuthTimeout \/ SendMetrics \/ SendFrame \/ WriteReturns \/ SendFails \/ SenderExits \/ SessionEnds
  BY <1>1, <1>2 DEF AuthSend, AuthArm, AuthTimeout, SendMetrics, SendFrame, WriteReturns, SendFails, SenderExits, SessionEnds
<1>3. CASE PostHeartbeat \/ Respond \/ HandlerExits
  BY <1>1, <1>3 DEF PostHeartbeat, Respond, HandlerExits
<1>4. ASSUME NEW i \in ServerId, WorkerResponds(i) \/ WorkerGivesUp(i) PROVE Handling'
  BY <1>1, <1>4 DEF WorkerResponds, WorkerGivesUp
<1>5. CASE HeartbeatDue \/ HeartbeatSend \/ HeartbeatMeasure \/ HeartbeatsExit \/ UNCHANGED vars
  BY <1>1, <1>5 DEF HeartbeatDue, HeartbeatSend, HeartbeatMeasure, HeartbeatsExit, vars
<1>6. CASE ServerAnswers \/ ServerRefuses \/ ServerRequests
  <2>1. PICK kind \in {"answer", "refusal", "request", "query"}, id \in FrameId :
          Read(kind, id) /\ (kind \in {"request", "query"} => id \in ServerId)
    <3>1. \A f \in written : f.id \in FrameId
      BY DEF TypeOK, Frame
    <3> QED
      BY <1>6, <3>1 DEF ServerAnswers, ServerRefuses, ServerRequests, FrameId
  <2>2. PICK e \in FromServer : readCh' = Append(readCh, e) /\ e.kind = kind /\ e.id = id
    BY <2>1 DEF Read, FromServer
  <2>3. /\ \A i \in DOMAIN readCh' : i \in DOMAIN readCh \/ i = Len(readCh) + 1
        /\ \A i \in DOMAIN readCh : readCh'[i] = readCh[i]
        /\ readCh'[Len(readCh) + 1] = e
    BY <2>2, AppendFacts DEF TypeOK
  <2> QED
    BY <2>1, <2>2, <2>3 DEF Handling, Read
<1>7. CASE HandleResponse \/ HandleRequest \/ HandleQuery
  <2>1. /\ Head(readCh).id \in FrameId /\ Head(readCh) = readCh[1] /\ 1 \in DOMAIN readCh
        /\ \A i \in DOMAIN readCh' : i + 1 \in DOMAIN readCh /\ readCh'[i] = readCh[i + 1]
    BY <1>7, ReadFacts DEF HandleResponse, HandleRequest, HandleQuery
  <2>2. \A i \in DOMAIN readCh' : readCh'[i].kind \in {"request", "query"} => readCh'[i].id \in ServerId
    BY <2>1 DEF Handling
  <2>3. CASE HandleRequest
    BY <2>1, <2>2, <2>3 DEF Handling, HandleRequest
  <2>4. CASE HandleQuery
    BY <2>2, <2>4 DEF Handling, HandleQuery
  <2>5. CASE HandleResponse
    BY <2>1, <2>2, <2>5 DEF Handling, Handshake, HandleResponse, HandleHandshake, HandleHeartbeat, HandleOther
  <2> QED
    BY <1>7, <2>3, <2>4, <2>5
<1> QED
  BY <1>2, <1>3, <1>4, <1>5, <1>6, <1>7 DEF Next

-----------------------------------------------------------------------------
(***************************************************************************)
(* The handshake.                                                          *)
(***************************************************************************)

\* A frame is staged: the handshake itself is the first request of all.
LEMMA StageHandshake ==
  ASSUME TypeOK, Handshake, NEW method \in Method, NEW id \in FrameId, Stage(method, id),
         UNCHANGED <<authenticated, completions>>,
         heartbeats' = "off" <=> heartbeats = "off",
         \/ method # "hello" /\ caller' = caller /\ (caller = "auth" => seq' = seq)
         \/ method = "hello" /\ id = seq + 1 /\ caller = "auth" /\ caller' = "arm"
  PROVE  Handshake'
<1> DEFINE n == Len(sendCh) + 1
<1>1. /\ DOMAIN sendCh' = DOMAIN sendCh \cup {n} /\ n \notin DOMAIN sendCh
      /\ \A i \in DOMAIN sendCh : sendCh'[i] = sendCh[i]
  BY StageFacts
<1>2. /\ DOMAIN sendCh' = DOMAIN sendCh \cup {n} /\ n \notin DOMAIN sendCh
      /\ \A i \in DOMAIN sendCh : sendCh'[i] = sendCh[i]
      /\ sendCh'[n].method = method /\ sendCh'[n].id = id
  BY <1>1, StageFacts
<1> HIDE DEF n
<1> QED
  BY <1>2 DEF Handshake

\* The first frame of sendCh is taken: of the handshake there is no second one in it.
LEMMA TakeHandshake ==
  ASSUME TypeOK, Staged, Handshake, sendCh # <<>>, sendCh' = Tail(sendCh), addCompletion(Head(sendCh)),
         UNCHANGED <<caller, authenticated, seq, heartbeats>>
  PROVE  Handshake'
<1> DEFINE f == sendCh[1]
<1>1. /\ f.id \in FrameId /\ f.method \in Method /\ 1 \in DOMAIN sendCh
      /\ \A i \in DOMAIN sendCh' : i \in Nat \ {0} /\ i + 1 \in DOMAIN sendCh /\ sendCh'[i] = sendCh[i + 1]
      /\ completions'[f.id] = f.method
      /\ \A k \in FrameId : k # f.id => completions'[k] = completions[k]
  BY TakeFacts
<1>2. f.method = "heartbeat" => f.id \in SeqId
  BY <1>1 DEF Staged, TypeOK, SeqId
<1>3. ASSUME f.method = "hello", NEW i \in DOMAIN sendCh' PROVE sendCh'[i].method # "hello"
  <2>1. i + 1 \in DOMAIN sendCh /\ i + 1 # 1 /\ sendCh'[i] = sendCh[i + 1]
    BY <1>1
  <2>2. f.id = 1 /\ (sendCh[i + 1].method = "hello" => sendCh[i + 1].id = 1)
    BY <1>1, <1>3, <2>1 DEF Handshake
  <2> QED
    BY <1>1, <1>3, <2>1, <2>2 DEF Staged
<1> HIDE DEF f
<1>4. f.method = "hello" => f.id = 1 /\ caller # "auth" /\ authenticated = "no"
  BY <1>1 DEF f, Handshake
<1> QED
  BY <1>1, <1>2, <1>3, <1>4 DEF Handshake

\* Auth: the handshake is sent once, and known only until the session is authenticated.
LEMMA NextHandshake ==
  ASSUME TypeOK, Staged, Handling, Beating, Handshake, [Next]_vars
  PROVE  Handshake'
<1> USE DEF authVars, heartbeatVars, handlerVars
<1>1. "hello" \in Method /\ "heartbeat" \in Method /\ "metrics" \in Method /\ "response" \in Method
  BY DEF Method
<1>2. seq < MaxSeq => seq + 1 \in FrameId
  BY DEF TypeOK, FrameId, SeqId
<1>3. CASE AuthSend
  BY <1>1, <1>2, <1>3, StageHandshake DEF AuthSend
<1>4. CASE SendMetrics
  BY <1>1, <1>2, <1>4, StageHandshake DEF SendMetrics
<1>5. CASE HeartbeatSend
  <2>1. expectedSeqID \in FrameId
    BY <1>5 DEF HeartbeatSend, Beating, TypeOK, FrameId, SeqId
  <2> QED
    BY <1>1, <1>5, <2>1, StageHandshake DEF HeartbeatSend
<1>6. ASSUME NEW i \in ServerId, Stage("response", i), UNCHANGED <<caller, authenticated, completions, seq, heartbeats>>
      PROVE  Handshake'
  <2>1. i \in FrameId
    BY DEF FrameId
  <2> QED
    BY <1>1, <1>6, <2>1, StageHandshake
<1>7. CASE Respond
  BY <1>6, <1>7 DEF Respond, Handling
<1>8. ASSUME NEW i \in ServerId, WorkerResponds(i) PROVE Handshake'
  BY <1>6, <1>8 DEF WorkerResponds
<1>9. CASE SendFrame
  BY <1>9, TakeHandshake DEF SendFrame
<1>10. ASSUME UNCHANGED <<sendCh, authenticated, completions>>, heartbeats' = "off" <=> heartbeats = "off",
              caller' = "auth" => caller = "auth" /\ seq' = seq
       PROVE  Handshake'
  BY <1>10 DEF Handshake
<1>11. CASE AuthArm \/ AuthTimeout \/ WriteReturns \/ SendFails \/ SenderExits \/ SessionEnds
  BY <1>10, <1>11 DEF AuthArm, AuthTimeout, WriteReturns, SendFails, SenderExits, SessionEnds
<1>12. CASE ServerAnswers \/ ServerRefuses \/ ServerRequests
  BY <1>10, <1>12 DEF ServerAnswers, ServerRefuses, ServerRequests, Read
<1>13. CASE PostHeartbeat \/ HandleRequest \/ HandleQuery \/ HandlerExits
  BY <1>10, <1>13 DEF PostHeartbeat, HandleRequest, HandleQuery, HandlerExits
<1>14. ASSUME NEW i \in ServerId, WorkerGivesUp(i) PROVE Handshake'
  BY <1>10, <1>14 DEF WorkerGivesUp
<1>15. CASE HeartbeatDue
  BY <1>10, <1>15 DEF HeartbeatDue, Handshake
<1>16. CASE HeartbeatMeasure \/ HeartbeatsExit \/ UNCHANGED vars
  BY <1>10, <1>16 DEF HeartbeatMeasure, HeartbeatsExit, vars
<1>17. CASE HandleResponse
  <2>1. PICK f \in FromServer :
          /\ f.id \in FrameId /\ getCompletionRequest(f.id)
          /\ HandleHandshake(f) \/ HandleHeartbeat(f) \/ HandleOther(f)
    BY <1>17, ReadFacts DEF HandleResponse
  <2>2. completions'[f.id] = "none" /\ \A k \in FrameId : k # f.id => completions'[k] = completions[k]
    BY <2>1 DEF getCompletionRequest, TypeOK
  <2>3. UNCHANGED <<caller, seq, sendCh>>
    BY <1>17 DEF HandleResponse
  <2>4. CASE HandleHandshake(f)
    <3>1. f.id = 1 /\ authenticated = "no" /\ heartbeats = "off" /\ caller # "auth"
      BY <2>1, <2>4 DEF HandleHandshake, Handshake
    <3>2. \A i \in DOMAIN sendCh : sendCh[i].method # "hello"
      BY <2>1, <2>4 DEF HandleHandshake, Handshake
    <3>3. \A k \in FrameId : completions'[k] # "hello"
      BY <2>2, <3>1 DEF Handshake
    <3>4. heartbeats' = "off" <=> authenticated' = "no"
      BY <2>4, <3>1 DEF HandleHandshake
    <3> QED
      BY <2>1, <2>2, <2>3, <3>1, <3>2, <3>3, <3>4 DEF Handshake
  <2>5. CASE HandleHeartbeat(f) \/ HandleOther(f)
    BY <2>1, <2>2, <2>3, <2>5 DEF HandleHeartbeat, HandleOther, Handshake
  <2> QED
    BY <2>1, <2>4, <2>5
<1> QED
  BY <1>3, <1>4, <1>5, <1>7, <1>8, <1>9, <1>11, <1>12, <1>13, <1>14, <1>15, <1>16, <1>17 DEF Next

-----------------------------------------------------------------------------
(***************************************************************************)
(* The timer of the handshake, and the measurements.                       *)
(***************************************************************************)

\* Every step keeps the timer: it is stopped with a handshake response only, and
\* neither the end of the session nor the authentication is ever undone.
LEMMA NextTimed ==
  ASSUME TypeOK, Handshake, Timed, [Next]_vars
  PROVE  Timed'
<1> USE DEF authVars, heartbeatVars, handlerVars
<1>1. ASSUME UNCHANGED <<caller, authTimer, authenticated, refused>>, ctx = "done" => ctx' = "done" PROVE Timed'
  BY <1>1 DEF Timed
<1>2. CASE AuthSend \/ AuthArm \/ AuthTimeout
  BY <1>2 DEF AuthSend, AuthArm, AuthTimeout, Timed
<1>3. CASE HandleResponse
  <2>1. PICK f \in FromServer : HandleHandshake(f) \/ HandleHeartbeat(f) \/ HandleOther(f)
    BY <1>3, ReadFacts DEF HandleResponse
  <2>2. UNCHANGED <<ctx, caller>>
    BY <1>3 DEF HandleResponse
  <2>3. CASE HandleHandshake(f)
    <3>1. authenticated \in {"no", "yes"} /\ refused \in BOOLEAN
      BY DEF TypeOK
    <3>2. authenticated' = "yes" \/ refused' = TRUE
      <4>1. PICK k \in FrameId : completions[k] = "hello"
        BY <1>3, <2>3, ReadFacts DEF HandleResponse, HandleHandshake, FromServer
      <4>2. authenticated = "no"
        BY <4>1 DEF Handshake
      <4> QED
        BY <2>3, <4>2 DEF HandleHandshake
    <3> QED
      BY <2>2, <2>3, <3>2 DEF HandleHandshake, stopAuthTimer, Timed
  <2>4. CASE HandleHeartbeat(f) \/ HandleOther(f)
    BY <1>1, <2>2, <2>4 DEF HandleHeartbeat, HandleOther
  <2> QED
    BY <2>1, <2>3, <2>4
<1>4. CASE SendMetrics \/ SendFrame \/ WriteReturns \/ SendFails \/ SenderExits \/ SessionEnds
  BY <1>1, <1>4 DEF SendMetrics, SendFrame, WriteReturns, SendFails, SenderExits, SessionEnds
<1>5. CASE ServerAnswers \/ ServerRefuses \/ ServerRequests
  BY <1>1, <1>5 DEF ServerAnswers, ServerRefuses, ServerRequests, Read
<1>6. CASE PostHeartbeat \/ HandleRequest \/ HandleQuery \/ HandlerExits \/ Respond
  BY <1>1, <1>6 DEF PostHeartbeat, HandleRequest, HandleQuery, HandlerExits, Respond
<1>7. ASSUME NEW i \in ServerId, WorkerResponds(i) \/ WorkerGivesUp(i) PROVE Timed'
  BY <1>1, <1>7 DEF WorkerResponds, WorkerGivesUp
<1>8. CASE HeartbeatDue \/ HeartbeatSend \/ HeartbeatMeasure \/ HeartbeatsExit \/ UNCHANGED vars
  BY <1>1, <1>8 DEF HeartbeatDue, HeartbeatSend, HeartbeatMeasure, HeartbeatsExit, vars
<1> QED
  BY <1>2, <1>3, <1>4, <1>5, <1>6, <1>7, <1>8 DEF Next

\* A measurement is made only of the heartbeat that is expected, which is the one tracked.
LEMMA NextMeasures ==
  ASSUME Beating, MeasuresItsOwn, [Next]_vars
  PROVE  MeasuresItsOwn'
<1> USE DEF authVars, heartbeatVars, handlerVars
<1>1. ASSUME UNCHANGED measured PROVE MeasuresItsOwn'
  BY <1>1 DEF MeasuresItsOwn
<1>2. CASE HeartbeatMeasure
  BY <1>2 DEF HeartbeatMeasure, updateHeartbeatMeasurement, MeasuresItsOwn, Beating
<1>3. CASE AuthSend \/ AuthArm \/ AuthTimeout \/ SendMetrics \/ SendFrame \/ WriteReturns \/ SendFails \/ SenderExits \/ SessionEnds
  BY <1>1, <1>3 DEF AuthSend, AuthArm, AuthTimeout, SendMetrics, SendFrame, WriteReturns, SendFails, SenderExits, SessionEnds
<1>4. CASE ServerAnswers \/ ServerRefuses \/ ServerRequests
  BY <1>1, <1>4 DEF ServerAnswers, ServerRefuses, ServerRequests, Read
<1>5. CASE HandleResponse
  BY <1>1, <1>5 DEF HandleResponse, HandleHandshake, HandleHeartbeat, HandleOther
<1>6. CASE PostHeartbeat \/ HandleRequest \/ HandleQuery \/ HandlerExits \/ Respond
  BY <1>1, <1>6 DEF PostHeartbeat, HandleRequest, HandleQuery, HandlerExits, Respond
<1>7. ASSUME NEW i \in ServerId, WorkerResponds(i) \/ WorkerGivesUp(i) PROVE MeasuresItsOwn'
  BY <1>1, <1>7 DEF WorkerResponds, WorkerGivesUp
<1>8. CASE HeartbeatDue \/ HeartbeatSend \/ HeartbeatsExit \/ UNCHANGED vars
  BY <1>1, <1>8 DEF HeartbeatDue, HeartbeatSend, HeartbeatsExit, vars
<1> QED
  BY <1>2, <1>3, <1>4, <1>5, <1>6, <1>7, <1>8 DEF Next

-----------------------------------------------------------------------------
(***************************************************************************)
(* The theorems.                                                           *)
(***************************************************************************)

\* The invariant is inductive.
THEOREM SessionIOInvariant == Spec => []IInv
<1>1. IInv /\ [Next]_vars => IInv'
  <2> SUFFICES ASSUME IInv, [Next]_vars PROVE IInv'
    OBVIOUS
  <2>1. Ids'
    BY NextIds DEF IInv, Ids
  <2> QED
    BY <2>1, NextTypes, NextHandling, NextHandshake, NextTimed, NextMeasures DEF IInv, Ids
<1> QED
  BY <1>1, InitIInv, PTL DEF Spec

\* Every value has its type and no channel exceeds its capacity; SetAuthenticated closes
\* its channel at most once, whatever the server answers, twice or under IDs of its own.
THEOREM SessionIOTypeOK == Spec => []TypeOK
<1>1. IInv => TypeOK
  BY DEF IInv
<1> QED
  BY <1>1, SessionIOInvariant, PTL

\* A latency is computed from the send time of the heartbeat that the response answers.
THEOREM SessionIOMeasuresItsOwn == Spec => []MeasuresItsOwn
<1>1. IInv => MeasuresItsOwn
  BY DEF IInv
<1> QED
  BY <1>1, SessionIOInvariant, PTL

\* Whatever IDs the server uses, an open session is authenticated, was told an error or has
\* its timer running, once Auth has returned.
THEOREM SessionIOUnauthenticatedIsTimed == Spec => []UnauthenticatedIsTimed
<1>1. IInv => UnauthenticatedIsTimed
  BY DEF IInv, TypeOK, Timed, UnauthenticatedIsTimed
<1> QED
  BY <1>1, SessionIOInvariant, PTL

=============================================================================
