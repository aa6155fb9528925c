--------------------------------- MODULE Poller --------------------------------
(***************************************************************************)
(* The process: poller/entry.go (Run), commands/serve.go, the connection   *)
(* stream that Run makes, and what works beside it: the checks' timer      *)
(* loops, which hand every result to the stream and then to statsd         *)
(* (poller/distributor.go), and the pusher of the process's own metrics    *)
(* (poller/metrics.go).                                                    *)
(*                                                                         *)
(* A step of ConnectionStream is a step here that leaves the rest alone,   *)
(* except that results come from the loops, that a reset cancels them and  *)
(* that Run or the service manager cancels the context, `running`.         *)
(***************************************************************************)
EXTENDS ConnectionStream, FiniteSets, Configuration

CONSTANTS
  File,              \* configuration files
  Loop,              \* the timer loops that the schedulers start
  signalChannelSize, \* capacity of signalNotify
  crsChannelSize     \* capacity of the statsd distributor's crsChan

ASSUME PollerSizesAssumption == signalChannelSize \in Nat \ {0} /\ crsChannelSize \in Nat \ {0}

VARIABLES
  file,          \* the configuration file
  config,        \* cfg of Run
  mode,          \* "interactive", or what the service manager is doing
  run,           \* where Run is
  process,       \* "alive" until it exits or panics
  signalNotify,  \* number of signals waiting in the channel
  forced,        \* a timer of gracefulShutdownTimeout is running
  loops,         \* loop -> where its go routine is
  stopped,       \* loops whose check was cancelled
  distributor,   \* the statsd distributor
  crsChan,       \* number of results waiting in its channel
  delivered,     \* history: number of results that sendToStatsd was called with
  pusher         \* the go routine of StartMetricsPusher

runVars == <<file, config, mode, run, process, signalNotify, forced>>
loopVars == <<loops, stopped>>
statsdVars == <<distributor, crsChan, delivered>>
pollerVars == <<runVars, loopVars, statsdVars, pusher>>
allVars == <<vars, pollerVars>>

LoopState == {"none", "waiting", "staging", "distributing", "stuck", "ended"}

\* config.StatsdEndpoint and config.PrometheusUri.
StatsdEndpoint == config.values["statsd_endpoint"]
PrometheusUri == config.values["prometheus_uri"]

PollerInit ==
  /\ Init
  /\ file \in File /\ config = NewConfig
  /\ mode \in {"interactive", "service"}
  /\ run = "loading" /\ process = "alive"
  /\ signalNotify = 0 /\ forced = FALSE
  /\ loops = [l \in Loop |-> "none"] /\ stopped = {}
  /\ distributor = "off" /\ crsChan = 0 /\ delivered = 0
  /\ pusher = "none"

-----------------------------------------------------------------------------
(***************************************************************************)
(* Run.                                                                    *)
(***************************************************************************)

\* The configuration is loaded and validated, or the process dies.  The pusher, the
\* stream and its host go routines are started, and Connect goes on to start the
\* distributors, if there are any.  A pusher without a URI does nothing but sleep.
StartUp ==
  /\ run = "loading"
  /\ LET cfg == LoadFromFile(file)
     IN  \/ /\ ~Validate(cfg)
            /\ process' = "exited"
            /\ UNCHANGED <<config, run, distributor, pusher>>
         \/ /\ Validate(cfg)
            /\ config' = cfg
            /\ run' = "connecting"
            /\ distributor' = IF cfg.values["statsd_endpoint"] = "" THEN "off" ELSE "unstarted"
            /\ pusher' = IF cfg.values["prometheus_uri"] = "" THEN "exited" ELSE "sleeping"
            /\ process' = process
  /\ UNCHANGED <<vars, file, mode, signalNotify, forced, loopVars, crsChan, delivered>>

\* metricsDistributor.Start: the client resolves its address or an error is logged; the
\* channel is made on success only.
StartDistributor ==
  /\ run = "connecting"
  /\ run' = "select"
  /\ distributor' \in IF distributor = "unstarted" THEN {"running", "failed"} ELSE {distributor}
  /\ UNCHANGED <<vars, file, config, mode, process, signalNotify, forced, loopVars, crsChan, delivered, pusher>>

\* os/signal delivers to the channel if it has room; the service manager, if there is
\* one, takes the signal as well.
Signal ==
  /\ run # "loading"
  /\ signalNotify' = IF signalNotify < signalChannelSize THEN signalNotify + 1 ELSE signalNotify
  /\ mode' = IF mode = "service" THEN "stopping" ELSE mode
  /\ UNCHANGED <<vars, file, config, run, process, forced, loopVars, statsdVars, pusher>>

\* The context of Run and with it the stream's and the sessions' are cancelled.
CancelContext ==
  /\ running' = FALSE
  /\ open' = [h \in Host |-> FALSE] /\ stalled' = {}
  /\ UNCHANGED <<host, number, authenticated, measured, sendCh, registrations>>
  /\ UNCHANGED <<coordinatorVars, metricsToSend, produced, resets>>

\* Mutant: no timer is set.
HandleSignalGracefully ==
  /\ run = "select" /\ signalNotify > 0
  /\ signalNotify' = signalNotify - 1
  /\ CancelContext
  /\ UNCHANGED <<file, config, mode, run, process, forced, loopVars, statsdVars, pusher>>

\* case <-signalNotify
HandleSignal ==
  /\ run = "select" /\ signalNotify > 0
  /\ signalNotify' = signalNotify - 1
  /\ CancelContext
  /\ forced' = TRUE
  /\ UNCHANGED <<file, config, mode, run, process, loopVars, statsdVars, pusher>>

\* The timer's os.Exit(0).
ForceExit ==
  /\ forced
  /\ process' = "exited"
  /\ UNCHANGED <<vars, file, config, mode, run, signalNotify, forced, loopVars, statsdVars, pusher>>

\* case <-stream.Done(): the wait group of the host go routines is empty.  The process
\* ends with Run, unless Run is a go routine of the service.
RunReturns ==
  /\ run = "select"
  /\ \A h \in Host : host[h] = "done"
  /\ run' = "returned"
  /\ process' = IF mode = "interactive" THEN "exited" ELSE process
  /\ UNCHANGED <<vars, file, config, mode, signalNotify, forced, loopVars, statsdVars, pusher>>

\* Stop of the service entry, and the return of the service's own Run after it.
ServiceStops ==
  /\ mode = "stopping"
  /\ CancelContext
  /\ mode' = "stopped"
  /\ UNCHANGED <<file, config, run, process, signalNotify, forced, loopVars, statsdVars, pusher>>

ServiceExits ==
  /\ mode = "stopped"
  /\ process' = "exited"
  /\ UNCHANGED <<vars, file, config, mode, run, signalNotify, forced, loopVars, statsdVars, pusher>>

\* connectBySrv gives up for good: the look-up failed or returned no address.
\* Otherwise it goes on to runHostConnection, whose first step is CreateConnection.
LookupFails(h) ==
  /\ run # "loading" /\ config.UseSrv
  /\ host[h] = "starting"
  /\ host' = [host EXCEPT ![h] = "done"]
  /\ UNCHANGED <<number, open, authenticated, registrations, others, pollerVars>>

-----------------------------------------------------------------------------
(***************************************************************************)
(* The checks' timer loops.                                                *)
(***************************************************************************)

LoopStep(l, from, to) == loops[l] = from /\ loops' = [loops EXCEPT ![l] = to]

\* A commit of some session starts the loop.
ScheduleCheck(l) ==
  /\ \E h \in Host : open[h] /\ authenticated[h] # "pending"
  /\ LoopStep(l, "none", "waiting")
  /\ UNCHANGED <<vars, runVars, stopped, statsdVars, pusher>>

\* The results that are on their way to metricsToSend.
Staging == {l \in Loop : loops[l] = "staging"}

\* The check has run and calls SendMetrics.
RunCheck(l) ==
  /\ produced + Cardinality(Staging) < MaxMetrics
  /\ LoopStep(l, "waiting", "staging")
  /\ UNCHANGED <<vars, runVars, stopped, statsdVars, pusher>>

\* cs.metricsToSend <- crs, and then the distributor if there is one.
StageResult(l) ==
  /\ ProduceMetrics
  /\ LoopStep(l, "staging", IF distributor = "off" THEN "waiting" ELSE "distributing")
  /\ UNCHANGED <<runVars, stopped, statsdVars, pusher>>

\* Mutant: a result is dropped when the channel is full.
DistributeUnlessFull(l) ==
  /\ distributor \notin {"unstarted", "failed"}
  /\ crsChan' = IF crsChan < crsChannelSize THEN crsChan + 1 ELSE crsChan
  /\ LoopStep(l, "distributing", "waiting")
  /\ UNCHANGED <<vars, runVars, stopped, distributor, delivered, pusher>>

\* d.crsChan <- crs
Distribute(l) ==
  /\ distributor \notin {"unstarted", "failed"}
  /\ crsChan < crsChannelSize
  /\ crsChan' = crsChan + 1
  /\ LoopStep(l, "distributing", "waiting")
  /\ UNCHANGED <<vars, runVars, stopped, distributor, delivered, pusher>>

\* The same while the channel is nil: the send blocks for good, whatever is assigned later.
DistributeToNil(l) ==
  /\ distributor \in {"unstarted", "failed"}
  /\ LoopStep(l, "distributing", "stuck")
  /\ UNCHANGED <<vars, runVars, stopped, statsdVars, pusher>>

\* case <-ch.Done()
LoopExits(l) ==
  /\ l \in stopped
  /\ LoopStep(l, "waiting", "ended")
  /\ UNCHANGED <<vars, runVars, stopped, statsdVars, pusher>>

\* The scheduler takes a reset and cancels every check.
ResetLoops ==
  /\ SchedulerResets
  /\ stopped' = {l \in Loop : loops[l] # "none"}
  /\ UNCHANGED <<runVars, loops, statsdVars, pusher>>

-----------------------------------------------------------------------------
(***************************************************************************)
(* The go routines of the statsd distributor and of the pusher.            *)
(***************************************************************************)

\* case crs := <-d.crsChan
SendToStatsd ==
  /\ distributor = "running" /\ crsChan > 0
  /\ crsChan' = crsChan - 1
  /\ delivered' = delivered + 1
  /\ UNCHANGED <<vars, runVars, loopVars, distributor, pusher>>

\* Mutant: the select has a default that returns.
DistributorExitsIdle ==
  /\ distributor = "running" /\ (crsChan = 0 \/ ~running)
  /\ distributor' = "stopped"
  /\ UNCHANGED <<vars, runVars, loopVars, crsChan, delivered, pusher>>

\* case <-ctx.Done()
DistributorExits ==
  /\ distributor = "running" /\ ~running
  /\ distributor' = "stopped"
  /\ UNCHANGED <<vars, runVars, loopVars, crsChan, delivered, pusher>>

\* After its sleep, which does not look at the context: an unsupported scheme ends the
\* go routine, an SRV look-up may; a URI that cannot be parsed is logged and then
\* dereferenced.
PusherStarts ==
  /\ pusher = "sleeping"
  /\ pusher' \in IF PrometheusUri = "tcp" THEN {"pushing"}
                 ELSE IF PrometheusUri = "srv" THEN {"pushing", "exited"} ELSE {"exited"}
  /\ process' = IF PrometheusUri = "malformed" THEN "crashed" ELSE process
  /\ UNCHANGED <<vars, file, config, mode, run, signalNotify, forced, loopVars, statsdVars>>

PusherExits ==
  /\ pusher = "pushing" /\ ~running
  /\ pusher' = "exited"
  /\ UNCHANGED <<vars, runVars, loopVars, statsdVars>>

-----------------------------------------------------------------------------

(***************************************************************************)
(* The go routines.                                                        *)
(***************************************************************************)

Stream(A) == run # "loading" /\ A /\ UNCHANGED pollerVars

RunStep == StartUp \/ StartDistributor \/ HandleSignal \/ RunReturns
ServiceStep == ServiceStops \/ ServiceExits
HostNext(h) == LookupFails(h) \/ Stream(HostStep(h))
SessionNext(h) == Stream(SessionStep(h))
CoordinatorNext == Stream(CoordinatorStep)
SendStep(l) == StageResult(l) \/ Distribute(l) \/ DistributeToNil(l)

PollerNext ==
  /\ process = "alive"
  /\ \/ RunStep \/ ServiceStep \/ Signal \/ ForceExit
     \/ \E h \in Host : HostNext(h) \/ SessionNext(h) \/ Stream(SendFrame(h))
     \/ CoordinatorNext
     \/ \E l \in Loop : ScheduleCheck(l) \/ RunCheck(l) \/ SendStep(l) \/ LoopExits(l)
     \/ ResetLoops \/ SendToStatsd \/ DistributorExits \/ PusherStarts \/ PusherExits

PollerSpec == PollerInit /\ [][PollerNext]_allVars

Alive(A) == process = "alive" /\ A

\* A go routine that can go on does, dials and look-ups end, a timer that was set
\* fires, and the service manager goes on with a stop that it began.  A sender goes on
\* while its session is open and its writes return.  Nothing makes a signal arrive, a
\* session end, a Write return or a check run.
PollerFairSpec ==
  /\ PollerSpec
  /\ WF_allVars(Alive(RunStep)) /\ WF_allVars(Alive(ServiceStep)) /\ WF_allVars(Alive(ForceExit))
  /\ \A h \in Host : WF_allVars(Alive(HostNext(h))) /\ WF_allVars(Alive(Stream(open[h] /\ SendFrame(h))))
  /\ WF_allVars(Alive(CoordinatorNext)) /\ WF_allVars(Alive(ResetLoops))
  /\ \A l \in Loop : WF_allVars(Alive(SendStep(l)))
  /\ WF_allVars(Alive(SendToStatsd))

-----------------------------------------------------------------------------
(***************************************************************************)
(* Properties.                                                             *)
(***************************************************************************)

\* Every variable of the process holds a value of its type, and its channels respect
\* their capacities.
PollerTypeOK ==
  /\ TypeOK
  /\ file \in File /\ (config = NewConfig \/ Validate(config))
  /\ mode \in {"interactive", "service", "stopping", "stopped"}
  /\ run \in {"loading", "connecting", "select", "returned"}
  /\ process \in {"alive", "exited", "crashed"}
  /\ signalNotify \in 0 .. signalChannelSize
  /\ forced \in BOOLEAN
  /\ loops \in [Loop -> LoopState] /\ stopped \subseteq Loop
  /\ distributor \in {"off", "unstarted", "running", "failed", "stopped"}
  /\ crsChan \in 0 .. crsChannelSize
  /\ delivered \in 0 .. MaxMetrics
  /\ pusher \in {"none", "sleeping", "pushing", "exited"}

\* Results that statsd will never get: those of the loops that came to Distribute before
\* crsChan was made, and those left in it when the distributor saw the cancellation.
LostToStatsd ==
  Cardinality({l \in Loop : loops[l] = "stuck"}) + IF distributor = "stopped" THEN crsChan ELSE 0

\* Results that statsd can still get.
OnTheWay ==
  Cardinality({l \in Loop : loops[l] = "distributing"}) + IF distributor = "stopped" THEN 0 ELSE crsChan

\* config.go:109 says that "all check's metrics will be distributed to the configured statsd
\* endpoint".  They are not: LostToStatsd is not always 0, and a loop that is stuck never
\* runs its check again.  But nothing else is lost, however often channels are full,
\* checks reset and the context cancelled: a result that the stream took is delivered, on
\* its way, or one of those.
StatsdLosesNoOther ==
  run # "loading" /\ distributor # "off" => produced = delivered + OnTheWay + LostToStatsd

\* A host is given up only by the cancellation, or because its name could not be
\* resolved when the stream connected, which is not tried again.
HostsPersist ==
  \A h \in Host : host[h] = "done" /\ running => config.UseSrv /\ number[h] = 0

\* A signal ends the process, whatever its go routines wait for: that the hosts may
\* block on registrations that nobody reads any more, so that Done is never closed,
\* does not matter.
SignalEndsProcess == signalNotify > 0 ~> process # "alive"

\* A loop that has a result gets back to its timer: neither the stream nor statsd holds
\* it up for good, unless the coordinator is clogged for good, the context was cancelled
\* or the distributor had no channel when the loop came to it.
SendMetricsReturns ==
  \A l \in Loop :
    loops[l] \in {"staging", "distributing"}
      ~> (loops[l] \in {"waiting", "stuck"} \/ []Clogged \/ ~running \/ process # "alive")

=============================================================================
