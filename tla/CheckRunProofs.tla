----------------------------- MODULE CheckRunProofs -----------------------------
(***************************************************************************)
(* What CheckRun says about the result and the socket of a check holds     *)
(* whatever metrics a plugin may print.                                    *)
(***************************************************************************)
EXTENDS CheckRun, TLAPS

-----------------------------------------------------------------------------
(***************************************************************************)
(* The inductive invariant, one part per kind of check: what has been      *)
(* measured when Run is in a phase, and where its second go routine is.    *)
(***************************************************************************)

\* A stage that is behind Run has added its metric; before the handshake is over there
\* is none, and after the result is returned the socket is open only in that case.
TCPInv ==
  kind = "tcp" =>
    /\ phase \in {"start", "handshake", "send", "banner", "body", "finish", "done", "crashed"}
    /\ helper \in {"off", "handshaking", "established", "refused"}
    /\ process = "none" /\ ~descendant
    /\ phase = "start" => conn = "none" /\ metrics = {}
    /\ phase = "handshake" => "ssl" \in opt /\ metrics = {}
    /\ phase \in {"send", "banner", "body", "finish"} => "tt_connect" \in metrics
    /\ phase \in {"body", "finish"} /\ "banner" \in opt =>
         "tt_firstbyte" \in metrics /\ (pattern["banner"] # "invalid" => "banner_match" \in metrics)
    /\ phase = "finish" /\ "body" \in opt => "tt_body" \in metrics
    /\ phase = "done" /\ conn = "open" => "ssl" \in opt /\ metrics = {}
    /\ state = "available" => phase = "done" /\ Promised \subseteq metrics

\* tt_connect is measured when the dial has returned, tt_firstbyte with the response, and
\* Run has no response before the transport has met one.
HTTPInv ==
  kind = "http" =>
    /\ phase \in {"start", "requesting", "response", "done", "error", "crashed"}
    /\ helper \in {"off", "dialling", "unused", "dialled", "answered"}
    /\ process = "none" /\ ~descendant /\ conn = "none"
    /\ helper \in {"dialled", "answered"} => "tt_connect" \in metrics
    /\ helper = "answered" => "tt_firstbyte" \in metrics
    /\ phase = "response" => helper = "answered"
    /\ state \in {"available", "unavailable"}
    /\ state = "available" => phase = "done" /\ helper = "answered" /\ Promised \subseteq metrics

\* What was read in a known unit is in the result; the reader ends when no process can print
\* any more and all is read, or at a line that is too long, which is the last that it reads.
PluginInv ==
  kind = "plugin" =>
    /\ phase \in {"start", "draining", "waiting", "done"}
    /\ helper \in {"off", "reading", "ended"} /\ conn = "none"
    /\ process \in {"none", "running", "succeeded", "failed"}
    /\ printed \in Seq(Line) /\ read \in 0 .. Len(printed)
    /\ \A i \in 1 .. read : printed[i] \in PluginMetric \cap KnownUnit => printed[i] \in metrics
    /\ process = "none" => printed = <<>> /\ ~descendant
    /\ helper = "ended" =>
         \/ read > 0 /\ printed[read] = "too long"
         \/ read = Len(printed) /\ process # "running" /\ ~descendant
    /\ phase = "start" => process = "none" /\ helper = "off" /\ state = "unavailable"
    /\ phase \in {"draining", "waiting"} => process # "none"
    /\ phase = "waiting" => helper = "ended"
    /\ phase = "done" => state = "unavailable" \/ process = "succeeded"
    /\ phase = "done" => process = "none" \/ helper = "ended"

IInv == kind \in {"tcp", "http", "plugin"} /\ TCPInv /\ HTTPInv /\ PluginInv

\* A new result set, before Run is called.
LEMMA InitIInv == Init => IInv
<1> SUFFICES ASSUME Init PROVE IInv
  OBVIOUS
<1>1. printed \in Seq(Line) /\ Len(printed) = 0 /\ read = 0
  BY DEF Init
<1> QED
  BY <1>1 DEF Init, IInv, TCPInv, HTTPInv, PluginInv

-----------------------------------------------------------------------------
(***************************************************************************)
(* Each kind of check has steps of its own.                                *)
(***************************************************************************)

TCPStep ==
  \/ Dial \/ DialFails \/ HandshakeEnds \/ TakeHandshake \/ HandshakeTimeout
  \/ Stage \/ StageFails \/ TCPFinish
HTTPStep == PrepareFails \/ Request \/ ConnectDone \/ GotFirstResponseByte \/ TakeResponse \/ RequestFails \/ HTTPFinish
PluginStep ==
  \/ PipeFails \/ Start \/ (\E line \in Line : PluginPrints(line)) \/ PluginForks
  \/ DescendantExits \/ PluginExits \/ Kill \/ ReadLine \/ ReadEnd \/ Drained \/ Wait
Delivery == SendMetrics \/ ConvertToMetricResults

\* The options of a check never change, and only the steps of its own kind move it.
LEMMA StepsOfKinds ==
  ASSUME IInv, Next
  PROVE  /\ UNCHANGED check
         /\ Delivery \/ (kind = "tcp" /\ TCPStep) \/ (kind = "http" /\ HTTPStep) \/ (kind = "plugin" /\ PluginStep)
<1> USE DEF Goto
<1>1. UNCHANGED check
  <2>1. CASE TCPStep
    BY <2>1 DEF TCPStep, Dial, DialFails, HandshakeEnds, TakeHandshake, HandshakeTimeout, Stage, StageFails, TCPFinish
  <2>2. CASE HTTPStep
    BY <2>2 DEF HTTPStep, PrepareFails, Request, ConnectDone, GotFirstResponseByte, TakeResponse, TraceAdds, RequestFails, HTTPFinish
  <2>3. CASE PluginStep
    BY <2>3 DEF PluginStep, PipeFails, Start, PluginPrints, PluginForks, DescendantExits, PluginExits, Kill, ReadLine,
       ReadEnd, Drained, Wait
  <2>4. CASE Delivery
    BY <2>4 DEF Delivery, SendMetrics, ConvertToMetricResults
  <2> QED
    BY <2>1, <2>2, <2>3, <2>4 DEF Next, TCPStep, HTTPStep, PluginStep, Delivery
<1>2. TCPStep => kind = "tcp"
  <2>1. HandshakeEnds => kind = "tcp"
    BY DEF HandshakeEnds, IInv, HTTPInv, PluginInv
  <2> QED
    BY <2>1 DEF TCPStep, Dial, DialFails, TakeHandshake, HandshakeTimeout, Stage, StageFails, TCPFinish
<1>3. HTTPStep => kind = "http"
  <2>1. ConnectDone \/ GotFirstResponseByte => kind = "http"
    BY DEF ConnectDone, GotFirstResponseByte, IInv, TCPInv, PluginInv
  <2> QED
    BY <2>1 DEF HTTPStep, PrepareFails, Request, TakeResponse, RequestFails, HTTPFinish
<1>4. PluginStep => kind = "plugin"
  <2>1. process = "running" \/ descendant \/ helper = "reading" => kind = "plugin"
    BY DEF IInv, TCPInv, HTTPInv
  <2> QED
    BY <2>1 DEF PluginStep, PipeFails, Start, PluginPrints, PluginForks, DescendantExits, PluginExits, Kill, ReadLine,
       ReadEnd, Drained, Wait
<1> QED
  BY <1>1, <1>2, <1>3, <1>4 DEF Next, TCPStep, HTTPStep, PluginStep, Delivery

\* A step that leaves the run and its result alone; to hand the result on is one.
LEMMA SameRun ==
  ASSUME IInv, UNCHANGED <<check, phase, result, conn, helper, plugin>>
  PROVE  IInv'
<1> USE DEF check, result, plugin
<1>1. Promised' = Promised /\ kind' = kind /\ kind \in {"tcp", "http", "plugin"}
  BY DEF IInv, Promised
<1>2. CASE kind = "tcp"
  BY <1>1, <1>2 DEF IInv, TCPInv, HTTPInv, PluginInv
<1>3. CASE kind = "http"
  BY <1>1, <1>3 DEF IInv, TCPInv, HTTPInv, PluginInv
<1>4. CASE kind = "plugin"
  BY <1>1, <1>4 DEF IInv, TCPInv, HTTPInv, PluginInv
<1> QED
  BY <1>1, <1>2, <1>3, <1>4

-----------------------------------------------------------------------------
(***************************************************************************)
(* TCP.                                                                    *)
(***************************************************************************)

\* The first go routine's stages have added what is promised of a TCP check.
LEMMA PromisedTCP ==
  ASSUME kind = "tcp", {"tt_connect", "duration"} \subseteq metrics',
         "banner" \in opt => "tt_firstbyte" \in metrics' /\ (pattern["banner"] # "invalid" => "banner_match" \in metrics'),
         "body" \in opt => "tt_body" \in metrics'
  PROVE  Promised \subseteq metrics'
BY DEF Promised

\* TCPCheck.Run: every step of a TCP check preserves what is known of one.
LEMMA TCPInvStep ==
  ASSUME TCPInv, kind = "tcp", UNCHANGED check, TCPStep, phase # "crashed"
  PROVE  TCPInv'
<1> USE DEF Goto, check, result, plugin
<1>1. UNCHANGED plugin
  BY DEF TCPStep, Dial, DialFails, HandshakeEnds, TakeHandshake, HandshakeTimeout, Stage, StageFails, TCPFinish
<1>2. CASE Dial
  BY <1>1, <1>2 DEF Dial, TCPInv
<1>3. CASE DialFails
  BY <1>1, <1>3 DEF DialFails, TCPInv
<1>4. CASE HandshakeEnds
  <2>1. Promised' = Promised
    BY <1>4 DEF HandshakeEnds, Promised
  <2> QED
    BY <1>1, <1>4, <2>1 DEF HandshakeEnds, TCPInv
<1>5. CASE TakeHandshake
  BY <1>1, <1>5 DEF TakeHandshake, TCPInv
<1>6. CASE HandshakeTimeout
  BY <1>1, <1>6 DEF HandshakeTimeout, TCPInv
<1>7. CASE Stage
  <2>1. /\ phase \in {"send", "banner", "body"}
        /\ phase' = "crashed" \/ phase' = Following[phase]
        /\ metrics' = metrics \cup IF phase \in opt THEN StageMetrics[phase] ELSE {}
        /\ UNCHANGED <<state, conn, helper>>
    BY <1>7 DEF Stage, Following
  <2>2. CASE phase = "send"
    BY <1>1, <2>1, <2>2 DEF Following, StageMetrics, TCPInv
  <2>3. CASE phase = "banner"
    BY <1>1, <2>1, <2>3 DEF Following, StageMetrics, TCPInv
  <2>4. CASE phase = "body"
    BY <1>1, <2>1, <2>4 DEF Following, StageMetrics, TCPInv
  <2> QED
    BY <2>1, <2>2, <2>3, <2>4
<1>8. CASE StageFails
  BY <1>1, <1>8 DEF StageFails, Following, TCPInv
<1>9. CASE TCPFinish
  <2>1. Promised \subseteq metrics'
    BY <1>9, PromisedTCP DEF TCPFinish, TCPInv
  <2>2. Promised' = Promised
    BY <1>1 DEF Promised
  <2> QED
    BY <1>1, <1>9, <2>1, <2>2 DEF TCPFinish, TCPInv
<1> QED
  BY <1>2, <1>3, <1>4, <1>5, <1>6, <1>7, <1>8, <1>9 DEF TCPStep

-----------------------------------------------------------------------------
(***************************************************************************)
(* HTTP.                                                                   *)
(***************************************************************************)

\* HTTPCheck.Run: the same for an HTTP check, whose transport may add to a result that was returned.
LEMMA HTTPInvStep ==
  ASSUME HTTPInv, kind = "http", UNCHANGED check, HTTPStep, phase # "crashed"
  PROVE  HTTPInv'
<1> USE DEF Goto, check, result, plugin
<1>1. /\ Promised = {"tt_connect", "tt_firstbyte", "code", "duration"} \cup IF "body" \in opt THEN {"body_match"} ELSE {}
      /\ Promised' = Promised
  BY DEF Promised
<1>2. CASE PrepareFails
  BY <1>1, <1>2 DEF PrepareFails, HTTPInv
<1>3. CASE Request
  BY <1>1, <1>3 DEF Request, HTTPInv
<1>4. CASE ConnectDone
  <2>1. /\ phase' = phase \/ phase' = "crashed"
        /\ metrics' = metrics \cup {"tt_connect"} /\ helper' \in {"unused", "dialled"}
        /\ helper = "dialling" /\ UNCHANGED <<state, conn, plugin>>
    BY <1>4 DEF ConnectDone, TraceAdds
  <2> QED
    BY <1>1, <2>1 DEF HTTPInv
<1>5. CASE GotFirstResponseByte
  <2>1. /\ phase' = phase \/ phase' = "crashed"
        /\ metrics' = metrics \cup {"tt_firstbyte"} /\ helper' = "answered"
        /\ helper = "dialled" /\ UNCHANGED <<state, conn, plugin>>
    BY <1>5 DEF GotFirstResponseByte, TraceAdds
  <2> QED
    BY <1>1, <2>1 DEF HTTPInv
<1>8. CASE TakeResponse
  BY <1>1, <1>8 DEF TakeResponse, HTTPInv
<1>6. CASE RequestFails
  BY <1>1, <1>6 DEF RequestFails, HTTPInv
<1>7. CASE HTTPFinish
  BY <1>1, <1>7 DEF HTTPFinish, HTTPInv
<1> QED
  BY <1>2, <1>3, <1>4, <1>5, <1>6, <1>7, <1>8 DEF HTTPStep

-----------------------------------------------------------------------------
(***************************************************************************)
(* Plugin.                                                                 *)
(***************************************************************************)

\* PluginCheck.Run: the same for a plugin, its process and the reader of its output.
LEMMA PluginInvStep ==
  ASSUME PluginInv, kind = "plugin", UNCHANGED check, PluginStep, phase # "crashed"
  PROVE  PluginInv'
<1> USE DEF Goto, check, result, plugin
<1>1. CASE PipeFails
  BY <1>1 DEF PipeFails, PluginInv
<1>2. CASE Start
  BY <1>2 DEF Start, PluginInv
<1>3. ASSUME NEW line \in Line, PluginPrints(line)
      PROVE  PluginInv'
  <2>1. /\ process = "running" \/ descendant
        /\ printed' = Append(printed, line)
        /\ UNCHANGED <<phase, state, metrics, conn, helper, process, descendant, read>>
    BY <1>3 DEF PluginPrints
  <2>2. printed \in Seq(Line) /\ read \in 0 .. Len(printed)
    BY DEF PluginInv
  <2>3. /\ printed' \in Seq(Line) /\ Len(printed) \in Nat /\ Len(printed') = Len(printed) + 1
        /\ \A i \in 1 .. Len(printed) : printed'[i] = printed[i]
    BY <2>1, <2>2
  <2>4. read' \in 0 .. Len(printed') /\ \A i \in 1 .. read : printed'[i] = printed[i]
    BY <2>1, <2>2, <2>3
  <2>5. process # "none"
    BY <2>1 DEF PluginInv
  <2>6. helper = "ended" => read > 0 /\ printed'[read] = "too long"
    <3>1. helper = "ended" => read > 0 /\ printed[read] = "too long"
      BY <2>1 DEF PluginInv
    <3>2. read > 0 => read \in 1 .. read
      BY <2>2
    <3> QED
      BY <2>4, <3>1, <3>2
  <2> QED
    BY <2>1, <2>3, <2>4, <2>5, <2>6 DEF PluginInv
<1>4. CASE PluginForks
  BY <1>4 DEF PluginForks, PluginInv
<1>5. CASE DescendantExits
  BY <1>5 DEF DescendantExits, PluginInv
<1>6. CASE PluginExits
  BY <1>6 DEF PluginExits, PluginInv
<1>7. CASE Kill
  BY <1>7 DEF Kill, PluginInv
<1>8. CASE ReadLine
  <2>1. /\ printed \in Seq(Line) /\ read \in 0 .. Len(printed) /\ read < Len(printed)
        /\ helper = "reading" /\ read' = read + 1
    BY <1>8 DEF ReadLine, PluginInv
  <2>2. read' \in 1 .. Len(printed) /\ Len(printed) \in Nat /\ 1 .. read' = (1 .. read) \cup {read'}
    BY <2>1
  <2>3. /\ helper' = IF printed[read'] = "too long" THEN "ended" ELSE "reading"
        /\ metrics' = metrics \cup ({printed[read']} \cap PluginMetric \cap KnownUnit)
        /\ UNCHANGED <<phase, conn, process, descendant, printed>>
    BY <1>8 DEF ReadLine
  <2>4. \A i \in 1 .. read' : printed[i] \in PluginMetric \cap KnownUnit => printed[i] \in metrics'
    <3> SUFFICES ASSUME NEW i \in 1 .. read', printed[i] \in PluginMetric \cap KnownUnit
                 PROVE  printed[i] \in metrics'
      OBVIOUS
    <3>1. CASE i \in 1 .. read
      BY <2>3, <3>1 DEF PluginInv
    <3>2. CASE i = read'
      BY <2>3, <3>2
    <3> QED
      BY <2>2, <3>1, <3>2
  <2>5. process # "none" /\ phase = "draining"
    BY <2>1 DEF PluginInv
  <2>6. helper' = "ended" => read' > 0 /\ printed'[read'] = "too long"
    <3>1. helper' = "ended" => printed[read'] = "too long"
      BY <2>3
    <3>2. read' > 0
      BY <2>2
    <3> QED
      BY <2>3, <3>1, <3>2
  <2>7. printed' \in Seq(Line) /\ read' \in 0 .. Len(printed')
    <3>1. read' \in 0 .. Len(printed)
      BY <2>2
    <3>2. printed' = printed
      BY <2>3
    <3> QED
      BY <2>1, <3>1, <3>2
  <2> QED
    BY <2>1, <2>3, <2>4, <2>5, <2>6, <2>7 DEF PluginInv
<1>9. CASE ReadEnd
  BY <1>9 DEF ReadEnd, PluginInv
<1>10. CASE Drained
  BY <1>10 DEF Drained, PluginInv
<1>11. CASE Wait
  BY <1>11 DEF Wait, PluginInv
<1> QED
  BY <1>1, <1>2, <1>3, <1>4, <1>5, <1>6, <1>7, <1>8, <1>9, <1>10, <1>11 DEF PluginStep

-----------------------------------------------------------------------------
(***************************************************************************)
(* The theorems.                                                           *)
(***************************************************************************)

\* The invariant is inductive.
THEOREM CheckRunInvariant == Spec => []IInv
<1>1. IInv /\ [Next]_vars => IInv'
  <2> SUFFICES ASSUME IInv, [Next]_vars PROVE IInv'
    OBVIOUS
  <2>1. CASE UNCHANGED vars
    BY <2>1, SameRun DEF vars, check, result, plugin
  <2>2. CASE Next
    <3>1. UNCHANGED check /\ phase # "crashed"
      BY <2>2, StepsOfKinds DEF Next
    <3>2. CASE Delivery
      <4>1. UNCHANGED <<check, phase, result, conn, helper, plugin>>
        BY <3>2 DEF Delivery, SendMetrics, ConvertToMetricResults
      <4> QED
        BY <4>1, SameRun
    <3>3. CASE kind = "tcp" /\ TCPStep
      BY <3>1, <3>3, TCPInvStep DEF IInv, HTTPInv, PluginInv, check
    <3>4. CASE kind = "http" /\ HTTPStep
      BY <3>1, <3>4, HTTPInvStep DEF IInv, TCPInv, PluginInv, check
    <3>5. CASE kind = "plugin" /\ PluginStep
      BY <3>1, <3>5, PluginInvStep DEF IInv, TCPInv, HTTPInv, check
    <3> QED
      BY <2>2, <3>2, <3>3, <3>4, <3>5, StepsOfKinds
  <2> QED
    BY <2>1, <2>2
<1> QED
  BY <1>1, InitIInv, PTL DEF Spec

\* A result that says available has every metric that the check promises: a plugin's output
\* is read to its end before the exit status is looked at.
THEOREM CheckRunAvailableIsWhole == Spec => []AvailableIsWhole
<1>1. IInv => AvailableIsWhole
  <2> SUFFICES ASSUME IInv, phase = "done", state = "available"
               PROVE  Promised \subseteq metrics /\ (kind = "plugin" => process = "succeeded")
    BY DEF AvailableIsWhole
  <2>1. CASE kind = "tcp"
    BY <2>1 DEF IInv, TCPInv
  <2>2. CASE kind = "http"
    BY <2>2 DEF IInv, HTTPInv
  <2>3. CASE kind = "plugin"
    <3>1. process = "succeeded" /\ helper = "ended"
      BY <2>3 DEF IInv, PluginInv
    <3>2. printed \in Seq(Line) /\ read \in 0 .. Len(printed)
      BY <2>3 DEF IInv, PluginInv
    <3>3. ASSUME NEW m \in PluginMetric \cap KnownUnit,
                 NEW i \in DOMAIN printed, printed[i] = m, \A j \in 1 .. i : printed[j] # "too long"
          PROVE  m \in metrics
      <4>1. i \in 1 .. Len(printed)
        BY <3>2
      <4>2. i \in 1 .. read
        <5>1. CASE read = Len(printed)
          BY <4>1, <5>1
        <5>2. CASE read > 0 /\ printed[read] = "too long"
          <6>1. ~(read \in 1 .. i)
            BY <3>3, <5>2
          <6>2. i \in Nat /\ i >= 1 /\ read \in Nat
            BY <3>2, <4>1
          <6>3. read > 0
            BY <5>2
          <6> QED
            BY <6>1, <6>2, <6>3
        <5> QED
          BY <2>3, <3>1, <5>1, <5>2 DEF IInv, PluginInv
      <4> QED
        BY <2>3, <3>3, <4>2 DEF IInv, PluginInv
    <3>4. Promised = {m \in PluginMetric \cap KnownUnit :
                        \E i \in DOMAIN printed : printed[i] = m /\ \A j \in 1 .. i : printed[j] # "too long"}
      BY <2>3 DEF Promised
    <3> QED
      BY <3>1, <3>3, <3>4
  <2> QED
    BY <2>1, <2>2, <2>3 DEF IInv
<1> QED
  BY <1>1, CheckRunInvariant, PTL

\* Every way out of a run closes the socket, but for a panic and a deadline that overtakes
\* the TLS handshake.
THEOREM CheckRunSocketIsClosed == Spec => []SocketIsClosed
<1>1. IInv => SocketIsClosed
  BY DEF IInv, TCPInv, HTTPInv, PluginInv, SocketIsClosed, Over
<1> QED
  BY <1>1, CheckRunInvariant, PTL

\* After Run has returned, no go routine of the check changes the result but the transport of
\* a request that was overtaken by the deadline, and it adds only what its callbacks measure.
THEOREM CheckRunResultIsFinal == Spec => ResultIsFinal
<1> DEFINE Late == /\ kind = "http" /\ state = "unavailable" /\ helper \in {"dialling", "dialled"}
                   /\ metrics' \subseteq metrics \cup {"tt_connect", "tt_firstbyte"}
           Final == phase = "done" => state' = state /\ (metrics' = metrics \/ Late)
<1>1. IInv /\ [Next]_vars => [Final]_vars
  <2> SUFFICES ASSUME IInv, Next, phase = "done"
               PROVE  state' = state /\ (metrics' = metrics \/ Late)
    OBVIOUS
  <2> USE DEF Goto, result
  <2>1. CASE Delivery
    BY <2>1 DEF Delivery, SendMetrics, ConvertToMetricResults
  <2>2. CASE TCPStep
    BY <2>2 DEF TCPStep, Dial, DialFails, HandshakeEnds, TakeHandshake, HandshakeTimeout, Stage, StageFails, TCPFinish,
       Following
  <2>3. CASE kind = "http" /\ HTTPStep
    <3>1. CASE ConnectDone \/ GotFirstResponseByte
      <4>1. helper \in {"dialling", "dialled"} /\ state = "unavailable"
        BY <2>3, <3>1 DEF ConnectDone, GotFirstResponseByte, IInv, HTTPInv
      <4> QED
        BY <2>3, <3>1, <4>1 DEF ConnectDone, GotFirstResponseByte, TraceAdds
    <3> QED
      BY <2>3, <3>1 DEF HTTPStep, PrepareFails, Request, TakeResponse, RequestFails, HTTPFinish
  <2>4. CASE kind = "plugin" /\ PluginStep
    <3>1. ~ReadLine
      <4>1. helper = "reading" => printed = <<>> /\ read \in 0 .. Len(printed)
        BY <2>4 DEF IInv, PluginInv
      <4>2. Len(<<>>) = 0
        OBVIOUS
      <4>3. helper = "reading" => ~(read < Len(printed))
        BY <4>1, <4>2
      <4> QED
        BY <4>3, Zenon DEF ReadLine
    <3> QED
      BY <2>4, <3>1 DEF PluginStep, PipeFails, Start, PluginPrints, PluginForks, DescendantExits, PluginExits, Kill,
         ReadEnd, Drained, Wait
  <2> QED
    BY <2>1, <2>2, <2>3, <2>4, StepsOfKinds
<1> QED
  BY <1>1, CheckRunInvariant, PTL DEF Spec, ResultIsFinal

=============================================================================
