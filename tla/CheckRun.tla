-------------------------------- MODULE CheckRun -------------------------------
(***************************************************************************)
(* One run of a TCP, HTTP or plugin check and the delivery of its result   *)
(* (check/check_tcp.go, check_http.go, check_plugin.go, checkresult.go).   *)
(* Each kind has a second go routine: the TLS handshake of a TCP check,    *)
(* the dial of the HTTP transport, the reader of a plugin's output.        *)
(* A metric is its name; status texts and the metrics of certificates are  *)
(* left out.  What a remote host or a plugin does is arbitrary.            *)
(***************************************************************************)
EXTENDS Integers, Sequences

CONSTANTS
  PluginMetric,  \* the metrics that a plugin may print
  KnownUnit      \* those that it prints with a unit the poller knows

Line == PluginMetric \cup {"state available", "state unavailable", "too long"}
Option == [tcp |-> {"timeout", "ssl", "send", "banner", "body"}, http |-> {"body"}, plugin |-> {}]

VARIABLES
  kind,        \* "tcp", "http" or "plugin"
  opt,         \* the options that the check and its details set; without "timeout", a TCP check's is 0
  pattern,     \* what the patterns are: "valid", "invalid", or "noGroup" without a group
  phase,       \* where Run is: "start"; "handshake", "send", "banner", "body", "finish" of a TCP check;
               \* "requesting", "response" of HTTP; "draining", "waiting" of a plugin; and Over
  state,       \* crs.State
  metrics,     \* names of the metrics in crs.Metrics[0]
  conn,        \* socket of a TCP check: "none", "open" or "closed"
  helper,      \* the second go routine: "off"; "handshaking", "established", "refused" of a TCP check;
               \* "dialling", "unused", "dialled", "answered" of HTTP; "reading", "ended" of a plugin
  process,     \* the plugin's process: "none", "running", "succeeded" or "failed"
  descendant,  \* TRUE while a process that the plugin has started has its standard output open
  printed,     \* the lines that were printed, in order
  read,        \* how many of them were read from the pipe
  posting      \* the result on its way through NewMetricsPostRequest

check == <<kind, opt, pattern>>
result == <<state, metrics>>
plugin == <<process, descendant, printed, read>>
vars == <<check, phase, result, conn, helper, plugin, posting>>

Over == phase \in {"done", "error", "crashed"}

\* NewResultSet: unavailable, until Run finds otherwise.
Init ==
  /\ kind \in {"tcp", "http", "plugin"}
  /\ opt \in SUBSET Option[kind]
  /\ pattern \in [{"banner", "body"} -> {"valid", "invalid", "noGroup"}]
  /\ \A s \in {"banner", "body"} \ opt : pattern[s] = "valid"
  /\ phase = "start"
  /\ state = "unavailable" /\ metrics = {}
  /\ conn = "none" /\ helper = "off"
  /\ process = "none" /\ descendant = FALSE /\ printed = <<>> /\ read = 0
  /\ posting = "none"

Goto(k, from, to) == kind = k /\ phase = from /\ phase' = to

-----------------------------------------------------------------------------
(***************************************************************************)
(* TCP.                                                                    *)
(***************************************************************************)

\* tt_connect is added when dialContextWithDialer has returned.
Dial ==
  /\ conn' = "open"
  /\ IF "ssl" \in opt
     THEN Goto("tcp", "start", "handshake") /\ helper' = "handshaking" /\ metrics' = metrics
     ELSE Goto("tcp", "start", "send") /\ helper' = helper /\ metrics' = metrics \cup {"tt_connect"}
  /\ UNCHANGED <<check, state, plugin, posting>>

DialFails ==
  /\ Goto("tcp", "start", "done")
  /\ UNCHANGED <<check, result, conn, helper, plugin, posting>>

\* The go routine of the handshake puts its result into errChannel, which has room.
HandshakeEnds ==
  /\ helper = "handshaking"
  /\ helper' \in {"established", "refused"}
  /\ UNCHANGED <<check, phase, result, conn, plugin, posting>>

TakeHandshake ==
  /\ \/ /\ helper = "established" /\ Goto("tcp", "handshake", "send")
        /\ metrics' = metrics \cup {"tt_connect"} /\ conn' = conn
     \/ /\ helper = "refused" /\ Goto("tcp", "handshake", "done")
        /\ conn' = "closed" /\ metrics' = metrics
  /\ UNCHANGED <<check, state, helper, plugin, posting>>

\* The context ends first: the socket is not closed.  It has an end if there is a timeout.
HandshakeTimeout ==
  /\ "timeout" \in opt
  /\ Goto("tcp", "handshake", "done")
  /\ UNCHANGED <<check, result, conn, helper, plugin, posting>>

Following == [send |-> "banner", banner |-> "body", body |-> "finish"]

\* What a stage adds to the result: banner_match if the pattern can be compiled, and
\* tt_firstbyte in any case; what the pattern for the body finds is added never.
StageMetrics ==
  [send   |-> {},
   banner |-> {"tt_firstbyte"} \cup IF pattern["banner"] = "invalid" THEN {} ELSE {"banner_match"},
   body   |-> {"tt_body"}]

\* The pattern for the body is used only if it cannot be compiled.
Matches == ~(phase = "body" /\ pattern["body"] = "invalid")

\* A timeout of 0 is a deadline that has passed: all that a stage can still read is what
\* TLS has buffered.
InTime == "timeout" \in opt \/ (phase # "send" /\ "ssl" \in opt)

Stage ==
  /\ kind = "tcp" /\ phase \in DOMAIN Following
  /\ phase \in opt => InTime
  /\ phase' = IF Matches THEN Following[phase] ELSE "crashed"
  /\ metrics' = metrics \cup IF phase \in opt THEN StageMetrics[phase] ELSE {}
  /\ UNCHANGED <<check, state, conn, helper, plugin, posting>>

\* Mutant: a failure returns without the deferred close.
StageFailsOpen ==
  /\ kind = "tcp" /\ phase \in DOMAIN Following \cap opt
  /\ phase' = "done"
  /\ UNCHANGED <<check, result, conn, helper, plugin, posting>>

\* An error of a write or a read, or the connection's deadline.
StageFails ==
  /\ kind = "tcp" /\ phase \in DOMAIN Following \cap opt
  /\ phase' = "done" /\ conn' = "closed"
  /\ UNCHANGED <<check, result, helper, plugin, posting>>

TCPFinish ==
  /\ Goto("tcp", "finish", "done")
  /\ metrics' = metrics \cup {"duration"} /\ state' = "available" /\ conn' = "closed"
  /\ UNCHANGED <<check, helper, plugin, posting>>

-----------------------------------------------------------------------------
(***************************************************************************)
(* HTTP.                                                                   *)
(***************************************************************************)

\* A URL or a target that cannot be used gives no result, a method that is not valid an
\* unavailable one.
PrepareFails ==
  /\ Goto("http", "start", "error") \/ Goto("http", "start", "done")
  /\ UNCHANGED <<check, result, conn, helper, plugin, posting>>

Request ==
  /\ Goto("http", "start", "requesting")
  /\ helper' = "dialling"
  /\ UNCHANGED <<check, result, conn, plugin, posting>>

\* A callback of the trace adds to the map of metrics in a go routine of the transport,
\* whether or not Run still waits.  The run time may notice that the map is being read.
TraceAdds(metric) ==
  /\ metrics' = metrics \cup {metric}
  /\ phase' \in IF posting = "converting" THEN {phase, "crashed"} ELSE {phase}
  /\ UNCHANGED <<check, state, conn, plugin, posting>>

\* The dial ends: it fails, or Run's request is written to the connection if Run waits.
ConnectDone ==
  /\ helper = "dialling"
  /\ helper' \in IF phase = "requesting" THEN {"unused", "dialled"} ELSE {"unused"}
  /\ TraceAdds("tt_connect")

\* The transport's read loop meets a response.
GotFirstResponseByte ==
  /\ helper = "dialled"
  /\ helper' = "answered"
  /\ TraceAdds("tt_firstbyte")

\* Do returns the last response, and follows one that redirects.
TakeResponse ==
  /\ helper = "answered"
  /\ \/ Goto("http", "requesting", "response") /\ helper' = helper
     \/ Goto("http", "requesting", "requesting") /\ helper' = "dialling"
  /\ UNCHANGED <<check, result, conn, plugin, posting>>

\* Do fails or the body cannot be read; the context ends at any time, a dial included.
RequestFails ==
  /\ \/ Goto("http", "requesting", "done")
     \/ Goto("http", "response", "done")
  /\ UNCHANGED <<check, result, conn, helper, plugin, posting>>

\* A pattern that cannot be compiled fails the check; of one that matches, the first
\* group is taken whether or not there is one.
HTTPFinish ==
  /\ kind = "http" /\ phase = "response"
  /\ \/ /\ pattern["body"] # "invalid"
        /\ phase' = "done" /\ state' = "available"
        /\ metrics' = metrics \cup {"code", "duration"} \cup IF "body" \in opt THEN {"body_match"} ELSE {}
     \/ /\ pattern["body"] = "invalid"
        /\ phase' = "done" /\ UNCHANGED result
     \/ /\ pattern["body"] = "noGroup"
        /\ phase' = "crashed" /\ UNCHANGED result
  /\ UNCHANGED <<check, conn, helper, plugin, posting>>

-----------------------------------------------------------------------------
(***************************************************************************)
(* Plugin.                                                                 *)
(***************************************************************************)

PipeFails ==
  /\ Goto("plugin", "start", "done")
  /\ UNCHANGED <<check, result, conn, helper, plugin, posting>>

\* The reader is started before the process; it ends with the pipe if there is none.
Start ==
  /\ helper' = "reading"
  /\ \/ Goto("plugin", "start", "draining") /\ process' = "running" /\ state' = "available"
     \/ Goto("plugin", "start", "done") /\ process' = "none" /\ state' = "unavailable"
  /\ UNCHANGED <<check, metrics, conn, descendant, printed, read, posting>>

PluginPrints(line) ==
  /\ process = "running" \/ descendant
  /\ \A i \in DOMAIN printed : printed[i] # line
  /\ printed' = Append(printed, line)
  /\ UNCHANGED <<check, phase, result, conn, helper, process, descendant, read, posting>>

PluginForks ==
  /\ process = "running" /\ ~descendant
  /\ descendant' = TRUE
  /\ UNCHANGED <<check, phase, result, conn, helper, process, printed, read, posting>>

DescendantExits ==
  /\ descendant
  /\ descendant' = FALSE
  /\ UNCHANGED <<check, phase, result, conn, helper, process, printed, read, posting>>

PluginExits ==
  /\ process = "running"
  /\ process' \in {"succeeded", "failed"}
  /\ UNCHANGED <<check, phase, result, conn, helper, descendant, printed, read, posting>>

\* Mutant: the command has no context.
KillNever == FALSE /\ UNCHANGED vars

\* The context of the command, a child of the check's, ends: the process is killed, what
\* it has started is not.
Kill ==
  /\ process = "running"
  /\ process' = "failed"
  /\ UNCHANGED <<check, phase, result, conn, helper, descendant, printed, read, posting>>

\* handleStdout: a line.  A metric of an unknown unit is skipped; a line that is too long
\* for the scanner ends the reading, and its error is not looked at.
ReadLine ==
  /\ helper = "reading" /\ read < Len(printed)
  /\ read' = read + 1
  /\ LET line == printed[read']
     IN  /\ helper' = IF line = "too long" THEN "ended" ELSE "reading"
         /\ metrics' = metrics \cup ({line} \cap PluginMetric \cap KnownUnit)
         /\ state' = CASE line = "state available" -> "available"
                       [] line = "state unavailable" -> "unavailable"
                       [] OTHER -> state
  /\ UNCHANGED <<check, phase, conn, process, descendant, printed, posting>>

\* The end of the output: every process that has it open is gone.
ReadEnd ==
  /\ helper = "reading" /\ read = Len(printed) /\ process # "running" /\ ~descendant
  /\ helper' = "ended"
  /\ UNCHANGED <<check, phase, result, conn, plugin, posting>>

\* Mutant: the process is waited for first.
DrainedAtOnce ==
  /\ Goto("plugin", "draining", "waiting")
  /\ UNCHANGED <<check, result, conn, helper, plugin, posting>>

Drained ==
  /\ helper = "ended"
  /\ Goto("plugin", "draining", "waiting")
  /\ UNCHANGED <<check, result, conn, helper, plugin, posting>>

\* Mutant: the exit status is not looked at.
WaitAny ==
  /\ process # "running" /\ Goto("plugin", "waiting", "done")
  /\ UNCHANGED <<check, result, conn, helper, plugin, posting>>

Wait ==
  /\ process # "running" /\ Goto("plugin", "waiting", "done")
  /\ state' = IF process = "failed" THEN "unavailable" ELSE state
  /\ UNCHANGED <<check, metrics, conn, helper, plugin, posting>>

-----------------------------------------------------------------------------
(***************************************************************************)
(* Execute hands the result on; ConvertToMetricResults iterates over it.   *)
(***************************************************************************)

SendMetrics ==
  /\ phase = "done" /\ posting = "none"
  /\ posting' = "converting"
  /\ UNCHANGED <<check, phase, result, conn, helper, plugin>>

ConvertToMetricResults ==
  /\ phase = "done" /\ posting = "converting"
  /\ posting' = "posted"
  /\ UNCHANGED <<check, phase, result, conn, helper, plugin>>

Next ==
  /\ phase # "crashed"
  /\ \/ Dial \/ DialFails \/ HandshakeEnds \/ TakeHandshake \/ HandshakeTimeout
     \/ Stage \/ StageFails \/ TCPFinish
     \/ PrepareFails \/ Request \/ ConnectDone \/ GotFirstResponseByte \/ TakeResponse \/ RequestFails \/ HTTPFinish
     \/ PipeFails \/ Start \/ (\E line \in Line : PluginPrints(line)) \/ PluginForks
     \/ DescendantExits \/ PluginExits \/ Kill \/ ReadLine \/ ReadEnd \/ Drained \/ Wait
     \/ SendMetrics \/ ConvertToMetricResults

Spec == Init /\ [][Next]_vars

\* Go routines run, and every deadline that was set passes.  Nothing is owed by hosts and
\* plugins: neither an answer to a handshake or a request, nor an exit.
FairSpec ==
  /\ Spec
  /\ WF_vars(Dial \/ DialFails \/ PrepareFails \/ Request \/ PipeFails \/ Start)
  /\ WF_vars(TakeHandshake \/ HandshakeTimeout) /\ WF_vars(Stage \/ StageFails) /\ WF_vars(TCPFinish)
  /\ WF_vars(RequestFails)
  /\ WF_vars(Kill) /\ WF_vars(ReadLine) /\ WF_vars(ReadEnd) /\ WF_vars(Drained) /\ WF_vars(Wait)
  /\ WF_vars(SendMetrics) /\ WF_vars(ConvertToMetricResults)

-----------------------------------------------------------------------------
(***************************************************************************)
(* Properties.                                                             *)
(***************************************************************************)

\* What was measured and matched by the time a check reports its target available: a
\* banner match if the pattern is valid, but no match of a TCP check's body, which the
\* code adds never.  Of a plugin, the metrics of known units up to a line that is too long.
Promised ==
  LET Of(option, names) == IF option \in opt THEN names ELSE {}
  IN  CASE kind = "tcp" ->
             {"tt_connect", "duration"} \cup Of("banner", {"tt_firstbyte"}) \cup Of("body", {"tt_body"})
             \cup IF pattern["banner"] = "invalid" THEN {} ELSE Of("banner", {"banner_match"})
        [] kind = "http" ->
             {"tt_connect", "tt_firstbyte", "code", "duration"} \cup Of("body", {"body_match"})
        [] kind = "plugin" ->
             {m \in PluginMetric \cap KnownUnit :
                \E i \in DOMAIN printed : printed[i] = m /\ \A j \in 1..i : printed[j] # "too long"}

\* A result that says available is whole: no stage was skipped, every metric that the
\* plugin printed in a known unit is in it, those behind a line that is too long excepted,
\* and its process succeeded, in whatever order output, exit and timeout came.
AvailableIsWhole ==
  phase = "done" /\ state = "available" =>
    Promised \subseteq metrics /\ (kind = "plugin" => process = "succeeded")

\* A result that Run has returned is not changed any more while it is handed on.  Only the
\* transport of a request that its deadline has overtaken may still add to it: its two
\* callbacks their own metrics, and to an unavailable result.
ResultIsFinal ==
  [][phase = "done" =>
       /\ state' = state
       /\ \/ metrics' = metrics
          \/ /\ kind = "http" /\ state = "unavailable" /\ helper \in {"dialling", "dialled"}
             /\ metrics' \subseteq metrics \cup {"tt_connect", "tt_firstbyte"}]_vars

\* A run leaves no socket open, unless its deadline overtook the TLS handshake.
SocketIsClosed ==
  Over /\ conn = "open" => phase = "crashed" \/ ("ssl" \in opt /\ metrics = {})

\* A run ends, however a host or a plugin behaves.  Only two things can hold it: a
\* standard output that a plugin has left to another process, and that this process keeps
\* open for good; and the TLS handshake of a check without a timeout, if the host is silent.
Held == descendant \/ (phase = "handshake" /\ helper = "handshaking" /\ "timeout" \notin opt)
RunEnds == <>Over \/ <>[]Held

=============================================================================
