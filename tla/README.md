# A TLA+ model of the Rackspace Monitoring Poller

The poller (`src/`, Go) runs monitoring checks near the monitored hosts. It keeps one connection
to each of several endpoint servers, receives the set of checks to run through a two-phase commit
(`poller.prepare`, `poller.prepare.block`, `poller.prepare.end`, `poller.commit`; the intent is in
`docs/two-phase-commits-of-checks.md`), polls them, and sends results over whichever connection has
the least latency. `src/endpoint` holds a small server that speaks the other side of the protocol.

The modules here are translated from the source. A definition has the name of the function it models
where there is one, and `PROJECT.json` maps every such definition to its lines.

## Inventory

| Component | State | Operations | What makes it hard | What makes it correct |
|---|---|---|---|---|
| Checks preparation (`poller/checks_preparation.go`) | version, check ID -> action, definition | construct from a manifest, add definitions, validate | a value that several frames build up | a validated preparation is complete |
| Session, two-phase commit (`poller/session.go`) | `prepDetails`: active preparation, frame to answer, timer, newest committed version | four frame handlers, timer expiry, exit | any order of frames; the timer races frames; nil pointers | a vote is about a complete preparation; every prepare is answered; with the bundled endpoint what is committed was voted for |
| Session, input and output (`poller/session.go`) | completions, sequence, heartbeat measurement, auth timer, channels | read, handle, send, beat, authenticate | five go routines on bounded channels; late, repeated, colliding answers | a measurement is of one heartbeat and its answer; no session stays open and out of use; no circular wait |
| Scheduler (`poller/scheduler.go`) | map of checks, channels of preparations and resets, one go routine per check | validate, reconcile, reset, run a check | sessions validate while the reconciler changes the map | nothing runs that cannot be cancelled; continued checks are undisturbed |
| Connection stream (`poller/connection_stream.go`) | map of connections, channels of registrations and metrics, GUID | connect by address or SRV query, register, deregister, route metrics, cancel | reconnecting hosts meet one coordinator over a channel of capacity 1 | the map follows the connections; a lost logical session resets the schedulers |
| Connection (`poller/connection.go`) | the socket, its type, the session | connect, deadlines, close | a timer and the host's go routine close what three others read and write | a session ends when its far end is gone; a close releases everyone |
| Process (`poller/entry.go`, `commands/serve.go`) | context, signal channel, timer of the forced exit | start, signal, service stop, return | a shut-down meets go routines that wait for each other | a signal ends the process |
| Endpoint agent (`endpoint/agent.go`) | counters, pending prepares, committed checks | load, prepare, commit, handle responses | loads overlap with answers in flight | both ends agree on what is committed |
| Agent tracker and server (`endpoint/agent_tracker.go`, `basic_server.go`) | agents by source and by address | greet, dispatch, close | maps used from several go routines | an agent that is served is known; a source is never locked out |
| Event registry (`utils/events.go`) | list of consumers | register, deregister, emit | in-place filtering | every registered consumer hears every event |
| SmartConn (`utils/smart_conn.go`) | deadlines, heartbeat timer | read, write, beat | timer racing writes | a silent peer is detected |
| Metrics distributor (`poller/distributor.go`) | channel to statsd | start, distribute, forward | checks start before it does, and it may fail to | what the endpoint gets, statsd gets, but for losses that are known; nothing stalls the checks |
| Prometheus pusher (`poller/metrics.go`), metrics router (`endpoint/metrics_router.go`) | a ticker, a channel | push, forward | - | - |
| Ping check (`check/check_ping.go`, `pinger.go`) | slots of replies, socket | one run | late, repeated and foreign replies | a reply is booked on its own request, unless two pingers share an ID |
| TCP, HTTP, plugin checks (`check/`) | result set, socket or process | one run and the hand-over of its result | a second go routine each: handshake, dial, reader of the output | a result is whole and final, a run ends |
| Configuration (`config/config.go`) | the settings | load a file line by line, validate | defaults, refused values and settings that change how `Run` works | an unusable configuration stops the start |
| Certificates, host info, other commands | - | read files, query the host | - | - |

How they interact. The stream starts one go routine per address, which creates connections; a
connection owns a session; the session's go routines read and write through the connection, which its
own timer and the host's go routine may close; the session calls the stream's `ValidateChecks` and `ReconcileChecks`,
which call the schedulers of the zones; a check's go routine calls `SendMetrics` of the stream, whose
coordinator calls `Send` of the session with the best connection, and then the distributor, which has a
channel to statsd. When the last connection is gone the
coordinator renews the GUID and resets the schedulers. `Run` makes all of it from the configuration,
cancels it on a signal, and returns when the hosts' go routines have; a timer exits if they do not.

## Modules

| Module | Models | State and actions |
|---|---|---|
| `ChecksPreparation` | `checks_preparation.go` | Constant operators on `[version, actions]`; definitions are abstracted to what the code tells apart (`enabled`, `disabled`, `invalid`, `noDetails`). |
| `Session` | `prepDetails` and its handlers | One variable per field of `prepDetails`, the handler's state (`hung` and `crashed` are a receive that never returns and a nil dereference), the staged responses, and two histories, `answered` and `reconciled`. One `Receive*` action per kind of frame, `PrepareToEndExpired`, `TimerFires`, `Transmit`, `HandlerExits`. The server is arbitrary: any frame, any version, any time. |
| `TwoPhaseCommit` | what the exchange promises | Phases idle, preparing, prepared, and a log of commits; only a preparation that is complete and was voted for is committed. |
| `Scheduler` | `scheduler.go` | The reconciler is a go routine with a program counter (`reconciler`, `current`, `todo`, `remainder`): it visits the checks one at a time, in any order (Go's map order), while sessions validate, resets are requested, and one `runCheckTimerLoop` per check instance runs, waits to send or is in `Distribute`. An instance is a pair of check ID and number of the reconciliation that made it. |
| `Agent` | `agent.go` | The coordinator's state. A load and the frames it writes are one action because one go routine does both and nothing of its state is touched in between. The loaded checks are blocked in the order of `checksToStart` and `checksToRestart`, each as loaded; `Classified` describes that sequence instead of computing it, so that it can be proved about. |
| `PrepareProtocol` | agent, session and scheduler together | `Session` with the agent as its server, over an ordered connection; the scheduler is reduced to the set of registered IDs, applied at its own pace. Holds the mapping to `TwoPhaseCommit`. |
| `ConnectionStream` | `connection_stream.go` | Per address: where `runHostConnection` is and the state of its latest connection. The coordinator: select, routing, sending, losing all. Sessions are reduced to what the stream sees: open, authenticated, measured, the number of frames in `sendCh`, and whether the sender is in a write that does not return (`stalled`). The GUID marks the source of frames and decides nothing here; it is left out. |
| `Configuration` | `config.go` | Constant operators: a file is a sequence of `<<name, value>>` lines, a configuration a record; values are tokens, one for each text that some code tells apart. |
| `Poller` | `entry.go`, `serve.go`, `distributor.go`, `metrics.go` with `ConnectionStream` | Extends `ConnectionStream` with `Run`, the service manager, the signal channel and the forced exit, the checks' timer loops as far as they send results, the statsd distributor and the pusher. A step of the stream is a step here that leaves the rest alone; results come from the loops (`StageResult`), a reset cancels them (`ResetLoops`), and `LookupFails` is the SRV query that is not answered. |
| `Connection` | `connection.go` with the loops of `session.go` | Where the reader, the handler, the sender, the timer of `Auth` and the host's go routine are; the two bounded channels; the socket, `conn.conn`, the context; the far end (serving, silent, gone) and the type of the connection, on which deadlines depend. A nil writer and a second close between test and use are panics. |
| `SessionIO` | the rest of `session.go` | Completions, sequence, authentication and its timer, heartbeats and their measurement, the channels, and the place where each go routine is. A channel send is an action of its own wherever it can block, and so is the end of a write. |
| `AgentTracker` | `agent_tracker.go`, `basic_server.go` | Per connection: socket, decoder, channel of frames, where the handler is, its agent (an agent is named by its connection). The tracker's go routine, the two maps and the channels to it. Each use of a map by another go routine is a step of its own; two that overlap, one of them a write, may crash the process. |
| `PingCheck` | `check_ping.go`, `pinger.go` | Where `Run` is, the request it is at, the slots of `responses`, the socket. A reply is whose request it answers and its number; any reply may be read at any time. The IDs of this pinger and of another are drawn at the start and may be equal. |
| `CheckRun` | `check_tcp.go`, `check_http.go`, `check_plugin.go`, `checkresult.go` | The kind and options of a check, where `Run` is, the result's state and metrics, the second go routine (`helper`), the plugin's process, its descendants and its output, and the result's way through `ConvertToMetricResults`. |
| `SessionProofs`, `ProtocolProofs`, `SchedulerProofs`, `SessionIOProofs`, `PollerProofs`, `TrackerProofs`, `PingProofs`, `CheckRunProofs` | - | The theorems; each extends the module it is about. `ProtocolProofs` extends `SessionProofs` too, whose lemmas about the handlers are about any frame; `PollerProofs` holds the theorems about `ConnectionStream` and those about `Poller`. |
| `MC*` | - | Instances for TLC. |

Undefined behaviour and panics are outcomes, not exclusions: a nil dereference in a handler leads to
`handler = "crashed"`, a receive that no one will ever serve to `"hung"`.

## Runs

| Run | Result | What it shows |
|---|---|---|
| `Session` | holds | With an arbitrary server: fields of `prepDetails` stand or fall together (`PrepLinked`); a preparation voted for is complete and stays so (`VotedIsComplete`); a prepare that is not answered has a live timer (`UnansweredIsTimed`); every accepted prepare is answered although the server may fall silent (`PrepareIsAnswered`). |
| `SessionStale` | violated | A version that was committed can be prepared again (`NewerThanCommitted`): `newestCommittedVersion` is read and never assigned. |
| `Scheduler` | holds | Two sessions, definitions of every kind. `NoOrphan`: a loop that is not cancelled is the one in the map. `ContinueNeverInterrupts`, `OnlyNamedRemain`: continued checks are left alone, unnamed ones are gone. `RefusalStrands`: a check is left registered and cancelled only by a start or restart whose definition cannot be used. A cancelled loop stops, however often its select picks the timer, unless it never comes out of the run, the send to the stream or the `Distribute` that it is in (`CancelledStops`); handed-over preparations are reconciled (`HandedIsReconciled`). |
| `Protocol` | holds | With the bundled endpoint: the handler neither panics nor hangs (it can with an arbitrary server); both ends agree once nothing is in flight; commits are applied in order of version; the exchange implements `TwoPhaseCommit` (`ImplementsTwoPhaseCommit`); every preparation is resolved. With another server the last but one need not hold: `handlePollerCommit` compares versions only. |
| `Stream` | holds | A deregistration never removes another connection than its own although `deregisterConnection` does not look; a registered connection is watched (`MapFollowsConnections`). A dead connection is taken out of the map in the end, so that results go to another one, whatever the other host does; only a coordinator that stays in `Send` to a session with a full channel, one that is done or whose far end is silent, leaves it there (`Clogged`, `DeadIsDeregistered`). |
| `Poller` | holds | Of the results that entered `metricsToSend`, each was given to statsd, is on its way to it, or is lost in one of two ways: with a loop that came to a nil channel, or in the channel at the cancellation (`StatsdLosesNoOther`; `config.go:109` promises all). A host is given up only by cancellation or because its name could not be resolved at the start (`HostsPersist`). A signal ends the process, also when hosts block on `registrations` so that `Done` is never closed (`SignalEndsProcess`). A loop gets back from `SendMetrics` unless the coordinator is `Clogged` for good, the context was cancelled, or the statsd channel was nil when the loop came to it (`SendMetricsReturns`). |
| `Connection` | holds | A session ends when its far end closes, and when it falls silent on plain TCP, whatever the channels hold at that moment (`LostEnds`); and when the handshake is not answered, over either transport (`UnansweredEnds`). After `Close` no go routine waits for the network (`CloseReleases`). A panic, which `Close` can cause, counts as an end. |
| `SessionIO` | holds | Authentication closes its channel once (`TypeOK`); a heartbeat is measured against its own answer (`MeasuresItsOwn`); although the poller's response may replace the record of its own handshake, an open session is authenticated, was refused, or has the timer that closes it (`UnauthenticatedIsTimed`); an open session's handler never waits for good, unless a write never returns and `sendCh` is full behind it (`HandlerReturns`). |
| `Tracker` | holds | Three connections of one poller, two at a time. An agent that is served is in `agentsBySource` until its own close, also after others of the source were served and closed (`KnownUnlessDisplaced`), and its responses reach it (`ResponseReachesItsAgent`). The exception is an agent whose own entry the close of a refused duplicate deleted (`displaced`): its responses go nowhere, or to the poller's next agent. The entry of an agent that is gone never locks the source out: the agent that is refused because of it is closed, and with it the entry (`RefusalFreesSource`), unless a handler returned without closing its agent (`Abandoned`). |
| `TrackerRace` | violated | `MapIsConfined`: `agentsBySource` is used by a connection's handler and the tracker's go routine at the same time. |
| `Ping` | holds | With IDs that may coincide: a slot holds an answer with the number of its request, and another pinger's only if it drew the same ID (`SlotIsItsOwn`); every answered request is counted once (`CountsEveryAnswer`); the run ends however many foreign packets arrive (`RunEnds`). |
| `CheckRun` | holds | A result that says available has what all stages of the check measured, of a plugin the metrics of known units up to a line too long for the scanner, and the plugin's process succeeded, in whatever order output, exit and timeout come (`AvailableIsWhole`). A returned result is not changed, except that the two trace callbacks of an HTTP request overtaken by its deadline may add their metrics to an unavailable one (`ResultIsFinal`). No socket stays open, unless the deadline overtook the TLS handshake (`SocketIsClosed`). A run ends, unless a process that a plugin left behind keeps its output open, or the check has no timeout and a TLS host is silent (`RunEnds`). |

The type invariants of the session, the scheduler, the stream and the process (`SessionTypeOK`,
`SchedulerTypeOK`, `StreamTypeOK`, `PollerStaysTyped`), those of the ping check, the tracker and the checks (conjuncts of their `IInv`), and
that an active preparation never gives way to an older version (`SessionVersionNeverRegresses`) are proved
and not runs of their own.

Bounds. Check IDs: two in `Session`, which is the least for a partly populated preparation; one in
`Scheduler`, whose invariants are proved for any number and whose other properties are per check.
Versions: 1 and 2, for older, equal and newer; 0, the initial `newestCommittedVersion`, is only in
`SessionStale`, and the theorems are about all integers. `MaxFrames = 4` in `Session` is a full prepare,
block, end, commit, and any other four frames; in `SessionIO` four frames are an answer to the handshake
and three that overlap in any way, with requests of the server under the IDs of the poller's first two. `MaxPreparations = 2` gives a reconciliation over the result of an
earlier one, with resets anywhere. `Protocol` has up to four loads of up to three checks with blocks of
two, so that a preparation has a full and a partial block and a reload meets the answers of its
predecessors. `Stream` has two hosts, of which one reconnects (`Reconnecting`): a successor
may meet its predecessor's deregistration, and results have another connection to go to, or one that holds
the coordinator. Its channel of registrations has capacity 3, so that both deregistrations may wait in it
at once; the code's capacity is 1, which `Poller` has. `Poller` has one host with one connection, one loop and four results, which
are enough for one in the hands of the coordinator, one in each channel and one in the loop; its files cover addresses and SRV queries, with and
without statsd and a gateway, and each reason to refuse a file. `Connection` has no bound at all: frames
come and go for ever through channels of capacity one. `Tracker` has three connections of one source, the third made when the
second has ended, with a handshake each and a frame from the first: the least for an agent that is
displaced and followed by another. Agents of different sources share no entry. `Ping` has three requests, so that a reply may be late by one or two, sequence numbers 0 and 4
from others, one beyond each end, and two IDs to draw from. `CheckRun` needs no bound but that a plugin prints each of its
lines, two metrics of known units and one of an unknown unit among them, once. Channels have capacity one where that is the code's value
(`registrations` in `Poller`, `resets`, `heartbeatResponses`), and
otherwise the least that can be both full and empty: a larger capacity only lets a sender block later.
The signal channel has capacity 1 instead of 2 for that reason. No run uses symmetry.

`CHECK_DEADLOCK FALSE`: each model ends when its bound of frames, preparations or metrics is used
up, and a session or stream really may stop.

Fairness. Go schedules every runnable go routine and fires a timer that is not stopped; go routines that
wait to send to a channel are served in turn; and a `select` with several ready cases chooses at random.
Weak fairness therefore belongs to a go routine as a whole (`Poller`, `Connection`, the handler and the
sender of `SessionIO`) or to a step that stays enabled, strong fairness to a send to a contended channel
and to a case of a select that competes with others. In `Connection` a read deadline and the timer of
`Auth` expire, and a far end that serves takes what is written. Elsewhere nothing makes a write return
(`ConnectionStream`, `Poller`, `SessionIO`): over TLS it has no deadline. Nothing makes a check's run end, the
stream take a result or `Distribute` return in `Scheduler`. Nothing is assumed of the server, of signals or
results to come, or of a session's end. A step of the environment has no fairness.

## Proofs

TLAPS proves, for every set of check IDs, versions and sessions and every bound:

* `SessionProofs`. The inductive invariant is
  `IInv == TypeOK /\ PrepLinked /\ VotedIsComplete /\ UnansweredIsTimed`. None of the last three is
  inductive alone: that a vote leaves a complete preparation needs the handlers' tests to be about
  the active preparation (`PrepLinked`), and that an answered frame is the one that was timed needs
  the frame and the preparation to be cleared together. From it follow `SessionTypeOK`,
  `SessionPrepLinked`, `SessionVotedIsComplete`, `SessionUnansweredIsTimed` and
  `SessionVersionNeverRegresses`.
* `PingProofs`, for any number of requests and however the IDs are drawn. The inductive invariant is
  `IInv == TypeOK /\ SlotIsItsOwn /\ Booked /\ AcceptedIsOurs /\ Unfinished /\ CountsEveryAnswer`. `Booked` says that
  the occupied slots are those of the requests whose answer was accepted, `AcceptedIsOurs` that
  only replies with this pinger's ID are, and `Unfinished` that there is no
  result before `Run` returns, so that nothing is booked after the count. From it follow
  `PingSlotIsItsOwn` and `PingCountsEveryAnswer`.
* `SchedulerProofs`. The inductive invariant is
  `IInv == TypeOK /\ Bounded /\ Phases /\ Fresh /\ NoOrphan`. `Bounded` counts
  the preparations, `Phases` ties `todo` and `remainder` to what the reconciler is doing, and `Fresh`
  says that no loop, map entry or cancellation has the number of a reconciliation to come; without it
  a new instance might meet an old one. From it follow `SchedulerTypeOK`, `SchedulerNoOrphan`,
  `SchedulerRefusalStrands`, `SchedulerOnlyNamedRemain` and `SchedulerContinueNeverInterrupts`.
* `ProtocolProofs`, for every number of checks, files and loads and every block size. The session's `IInv`
  is kept, because the handler lemmas of `SessionProofs` are about any frame
  (`ProtocolSessionInvariant`). What the endpoint adds is the order of its frames: `PInv` says of the
  connection that IDs grow and that a preparation is written from `poller.prepare` to `poller.prepare.end`
  before the next (`Written`), and of every frame that is not read yet what it may find in `prepDetails`
  (`Read`): a `poller.prepare` an older preparation, a block of the active version a timer that is not
  stopped and a preparation that declares the block's checks. That is what an arbitrary server does not
  guarantee, and from it follows `ProtocolHandlerSurvives`. `Older` (what was reconciled is older than what
  is active or to come) makes `ProtocolCommitsInOrder` inductive. For `ProtocolAgreement`, `Pending` says
  that an entry of `pendingPrepares` knows the checks of its preparation wherever that is, and `Confirmed`
  that the confirmations come in order, that the last is about what was handed over last, and that with
  none in flight `committedChecks` is that. For `ProtocolRefinement`, which maps every step of the exchange to
  a step of `TwoPhaseCommit` or a stutter, `VInv` adds that an entry of `pendingPrepares` has the version of
  its frame (`Numbered`) and that a commit on its way, or a vote that will become one, is about a version
  that is `Settled`: voted for, if it is still active, and never prepared again (`Voted`).
* `PollerProofs`, for every number of hosts, connections, loops, results and files and every capacity. The
  stream's `IInv == TypeOK /\ MapInv` relates how far a host is in `runHostConnection` to
  what it has sent (`Sent`), the entries of `registrations` about one host to each other (`InOrder`) and to
  what is registered (`Taken`); every registration in the channel or in the map has its deregistration
  behind it or a go routine that is still to send it (`StagedIsWatched`, `RegisteredIsWatched`). That is why
  a deregistration that names no connection still meets its own (`StreamMapFollowsConnections`).
  `PollerInv` adds that nothing happens before the
  configuration is loaded, that a host which never connected has no connection, and that finitely many
  loops were started, so that those with a result in hand can be counted: each step that produces, hands
  over or delivers a result changes two of the counts of `StatsdLosesNoOther`. To the stream, a step of the
  process is a step of its own, a cancellation or a failed look-up, and so keeps `IInv`
  (`PollerMapFollowsConnections`). The other results are `StreamTypeOK`, `PollerStaysTyped`,
  `PollerStatsdLosesNoOther`, `PollerHostsPersist`.
* `SessionIOProofs`, for every number of frames and every set of IDs that the server may use. In its `IInv`,
  `Staged`, `Written` and `Beating` say that the poller's own IDs are unique among what is staged, written
  and about to be staged; `Handling` that the handler answers under the server's IDs; `Handshake` that
  the handshake is sent once and its completion is gone when the session is authenticated, so that
  `SetAuthenticated` cannot close its channel twice; `Timed` that the timer is stopped by a handshake
  response only and otherwise runs or has ended the session. From it follow `SessionIOTypeOK`,
  `SessionIOMeasuresItsOwn` and `SessionIOUnauthenticatedIsTimed`.
* `TrackerProofs`, for every number of connections and sources. `Ended`, `Greeted` and `Responses` say that
  a handler which has closed its agent does nothing more, that only agents are greeted, and that only an
  agent which is served gets responses; `Accounted`, that an agent handed to the tracker is known under its
  source or a duplicate; `Keyed`, that an entry is of an agent of that source. With them `KnownUnlessDisplaced` and `ResponseReachesItsAgent` are
  inductive (`TrackerKnownUnlessDisplaced`, `TrackerResponseReachesItsAgent`).
* `CheckRunProofs`, for every set of metrics that a plugin may print. One part of `IInv` per kind of check
  says what is measured when `Run` is in a phase and where its second go routine is; for a plugin, that
  each printed metric is in the result or still in the pipe, and that the reader ends only when nobody
  can print any more, or at a line too long for it. From it follow `CheckRunAvailableIsWhole`,
  `CheckRunSocketIsClosed` and `CheckRunResultIsFinal`.

Each inductive invariant was checked by TLC on the instance of its run before it was proved. The proofs rest
on the `ASSUME`s of the modules only: channel capacities and the size of a block are positive, bounds are
natural numbers, versions are integers, the agent's check IDs and the server's frame IDs are numbers,
every connection has a source, `NoPrep` is no preparation, `NoMsg` no number and `NoAgent` no connection, a
ping check makes at least one request. TLC evaluates all of them.

Every invariant and every action property that a run checks is proved. Only model-checked are the liveness
properties (`PrepareIsAnswered`, `CancelledStops`, `HandedIsReconciled`, `PrepareResolved`,
`DeadIsDeregistered`, `HandlerReturns`, `RefusalFreesSource`, `RunEnds`, `SignalEndsProcess`,
`SendMetricsReturns`, and `LostEnds`, `UnansweredEnds` and `CloseReleases`, which are all that is said of
`Connection`), since the prover handles neither fairness nor `ENABLED`.

## What the code does that is not a run

Seen while modelling, reachable in the modules, and most of it listed under hazards in `PROJECT.json`:

* `handlePollerPrepare` stops the timer of the superseded preparation before it knows whether the new
  one is acceptable (`session.go:340`). If it is refused, the old preparation stays with a stopped
  timer, and a block for it makes `handlePollerPrepareBlock` wait for good on the timer's channel.
* A commit before `poller.prepare.end` is applied to an incomplete preparation that was not voted for
  (`session.go:437`), although what is conveyed is said to be "fully populated and ready to be reconciled"
  (`checks_preparation.go:62`). `Session` reaches it; `ImplementsTwoPhaseCommit` excludes it for the bundled
  endpoint only.
* `Auth` stages the handshake before it sets its timer (`session.go:134`).
* `Send` and `Respond` do not look at the session's context (`session.go:158`); a coordinator that
  sends to a dead session with a full channel never returns (`connection_stream.go:241`), and one that sends
  to an open session waits as long as the far end does not take what is written (`connection.go:144`).
* A reset may overtake a preparation that was handed over before it (`scheduler.go:160`).
* A restarted or continued check may be gone between `ValidateChecks` and the reconciliation
  (`scheduler.go:191`).
* The gauge of scheduled checks is not decremented by a reset (`scheduler.go:138`), is incremented for a
  start that is then refused, and not incremented for a restart of a check that is gone.
* A reload of the check files asks to restart checks that cannot exist: the classification is the wrong
  way round and every load numbers the checks afresh (`agent.go:296`), so `ValidateChecks` refuses it.
* After cancellation the stream's coordinator is gone and a host's go routine can block on
  `registrations` for good, so that `Done` is never closed (`connection_stream.go:376`).
* `runFrameSending` records responses too, under the server's ID, and overwrites a pending request of the
  poller with that ID (`session.go:623`). The answer to that request is then
  not recognised. Both ends count from 1; `UnauthenticatedIsTimed` says what becomes of a handshake that
  this happens to.
* A handler that hands a response to an agent that was closed meanwhile never returns
  (`agent_tracker.go:203`); an undecodable frame or an unsupported method leaves the agent's entry behind
  (`basic_server.go:146`, `:206`).
* The identifier in a ping's payload is decoded and compared with nothing, where the log entry
  speaks of a check of it (`pinger.go:354`, `:394`). Only the 16-bit ID, drawn at random (`:436`), tells pingers
  of one target apart; two that draw the same one book each other's replies.
* The close of an agent that was refused as a duplicate deletes the entry of the agent that is served
  (`agent_tracker.go:109`); with a third connection that is then accepted, the first one's responses are
  given to it.
* A timeout of 0 is neither refused nor replaced by a default: the TLS handshake of such a TCP check
  has no deadline (`check_tcp.go:99`), and a silent host holds the check for good.
* A metric of unknown unit is skipped (`check_plugin.go:107`), and after a line too long for the scanner
  the rest of the output is, without a word: `scanner.Err` is not looked at (`check_plugin.go:68`).
* `NewPinger` does not close its socket when the address cannot be resolved (`pinger.go:482`).
* `ConnectDone` and `GotFirstResponseByte` add to the map of metrics from the transport's go routines, also
  after the deadline has returned the result and while `ConvertToMetricResults` iterates over it
  (`check_http.go:163`, `:168`).
* A `body_match` of a TCP check that cannot be compiled is used, and one that can be is
  not, so that its match is never in the result (`check_tcp.go:238`); the first group of an HTTP check's pattern is taken even if there is none
  (`check_http.go:225`). Both are the outcome `crashed` of `CheckRun`.
* `SetStateUnavailable` says that it "clears all check results" (`checkresult.go:206`) and does not.
* A connection created before the GUID changed registers with the old one
  (`connection_stream.go:331`); results are dropped while no registered connection was measured
  (`connection_stream.go:438`).
* The first `Distribute` may come before `Start` has made the channel, and if statsd's address cannot be
  resolved it is never made: the send to a nil channel holds the check's go routine for good
  (`distributor.go:112`), and what is in the channel at the cancellation stays there (`:121`), while
  `config.go:109` says that "all check's metrics will be distributed". The tag `targetIP` is added only when the address is not known (`:140`).
* A look-up of an SRV name that fails at the start is not repeated (`connection_stream.go:285`); when all
  have failed, `Run` returns, and a service lives on without a connection.
* Deadlines are set on `*net.TCPConn` only (`connection.go:138`). Over TLS, a far end that falls silent
  after the handshake, or a refused handshake (`session.go:181`), leaves a session that nothing ends.
* `Close` sets `conn.conn` to nil (`connection.go:256`) before the session is cancelled: the sender then
  calls `Write` of nil, and a second `Close` that has passed its test does the same with `Close`.
* A session that ends by itself does not close its socket: the host forgets the connection
  (`connection_stream.go:374`), and `conn.Close` is called on cancellation and at the maximum age only.
* Two equal addresses in `monitoring_endpoints` share one entry of `conns`, so that the deregistration of
  one removes the other. The modules have one host per address.
* A Prometheus gateway that is no URI is logged and dereferenced (`metrics.go:75`); the port of an SRV
  answer is converted as a character (`:95`).
* A deregistration filters the list of consumers in place (`utils/events.go:84`), a write waits on the
  channel of a timer that `AfterFunc` made, to which nothing sends (`utils/smart_conn.go:90`); both need
  a caller that the program does not have.

## Not modelled

Close of the scheduler, which `poller.go` reserves for unit tests. The wire encoding and the set-up of
TLS. Back-off: only the length of a sleep. Several zones: one scheduler stands for each, they share
nothing but the calls. The gauge of scheduled checks, on which nothing depends. The text of metrics and
statuses, TLS metrics, the matching of patterns. Two dials of one HTTP request that run in parallel (a
host name with addresses of both families). The event registry, in which only tests register consumers,
and the heartbeat and write allowance of `SmartConn`, which nothing configures. Certificates, the
endpoint's own configuration file, host info and the other commands are pure I/O without state.

## Plan

1. Done: `ChecksPreparation`, `Session`, `TwoPhaseCommit`, `Scheduler`, `Agent`, `PrepareProtocol`,
   `ConnectionStream`, `SessionIO`, `AgentTracker`, `PingCheck`, `CheckRun`, `Configuration`, `Poller`,
   `Connection`; theorems about every invariant and action property of the runs.
2. Theorems to come: the safety part of what is only model-checked, such as which go routines of
   `Connection` can still wait after `Close`, and that an open session in `SessionIO` has a reader of the
   channel its handler waits on.
3. Worth a module if the program comes to use them: `SmartConn` with a heartbeat, the event registry with
   consumers, several zones whose schedulers see the commits of two sessions in different orders.
