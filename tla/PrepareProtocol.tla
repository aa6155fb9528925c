---------------------------- MODULE PrepareProtocol ----------------------------
(***************************************************************************)
(* The two-phase commit end to end: the bundled endpoint's agent (Agent),  *)
(* the poller's session (Session), and the scheduler's reconciler, over a  *)
(* TCP connection that delivers frames in order.  The session is the one   *)
(* of module Session; only its environment is no longer arbitrary.  The    *)
(* scheduler is reduced to the set of checks that it has registered, which *)
(* ValidateChecks reads, and which follows the commits at its own pace.    *)
(***************************************************************************)
EXTENDS Session, Agent

VARIABLES
  registered,  \* IDs in the scheduler's map of checks
  applied      \* how many of the preparations in reconciled it has applied

protocolVars == <<vars, agentVars, registered, applied>>

ProtocolInit ==
  /\ Init
  /\ AgentInit
  /\ registered = {} /\ applied = 0

-----------------------------------------------------------------------------

pollerVars == <<vars, registered, applied>>

\* The agent loads n checks; every definition it sends has been parsed by it.
EndpointLoads ==
  /\ \E n \in 0 .. MaxFiles, defs \in [CheckId -> Definition] :
       /\ Loaded(n) \subseteq CheckId
       /\ applyInitialChecks(n, defs) \/ Reload(n, defs)
  /\ UNCHANGED pollerVars

\* The agent reads the next response that the session has staged.
EndpointHandlesResponse ==
  /\ Transmit
  /\ handleResponse(Head(sendCh).id, Head(sendCh).status)
  /\ UNCHANGED <<registered, applied>>

\* ValidateChecks of the connection stream, against what is registered right now.
Valid(manifest) ==
  \A c \in CheckId : manifest[c] \in {"restart", "continue"} => c \in registered

\* handleFrame dispatches on the method.
handleFrame(f) ==
  \/ f.method = "poller.prepare" /\ handlePollerPrepare(f.id, f.version, f.manifest, Valid(f.manifest))
  \/ f.method = "poller.prepare.block" /\ handlePollerPrepareBlock(f.version, f.block)
  \/ f.method = "poller.prepare.end" /\ handlePollerPrepareEnd(f.id, f.version, f.directive)
  \/ f.method = "poller.commit" /\ handlePollerCommit(f.id, f.version)

SessionReceives ==
  /\ handler = "running"
  /\ toPoller # <<>>
  /\ handleFrame(Head(toPoller))
  /\ received' = received + 1
  /\ toPoller' = Tail(toPoller)
  /\ UNCHANGED <<checkId, outMsgId, checksVersion, committedChecks, pendingPrepares, endpoint>>
  /\ UNCHANGED <<registered, applied>>

\* The timer, its expiry and the end of the session, as in Session.
SessionAlone ==
  /\ PrepareToEndExpired \/ TimerFires \/ HandlerExits
  /\ UNCHANGED <<agentVars, registered, applied>>

\* The scheduler reconciles the next committed preparation.
SchedulerReconciles ==
  /\ applied < Len(reconciled)
  /\ applied' = applied + 1
  /\ LET actions == reconciled[applied + 1].actions
         Doing(act) == {c \in CheckId : actions[c].action = act}
     IN  registered' = Doing("start") \cup Doing("restart") \cup (registered \cap Doing("continue"))
  /\ UNCHANGED <<vars, agentVars>>

ProtocolNext ==
  \/ EndpointLoads
  \/ EndpointHandlesResponse
  \/ SessionReceives
  \/ SessionAlone
  \/ SchedulerReconciles

ProtocolSpec == ProtocolInit /\ [][ProtocolNext]_protocolVars

\* The go routines keep reading their connections and channels.
ProtocolFairSpec ==
  /\ ProtocolSpec
  /\ WF_protocolVars(SessionReceives) /\ WF_protocolVars(EndpointHandlesResponse)
  /\ WF_protocolVars(SchedulerReconciles)

-----------------------------------------------------------------------------
(***************************************************************************)
(* Properties.                                                             *)
(***************************************************************************)

\* With the bundled endpoint the frame handling go routine neither panics nor
\* blocks for good, although it can with an arbitrary server: the order in which
\* prepareChecks writes its frames keeps the timer alive until it is no longer used.
HandlerSurvives == handler \in {"running", "done"}

\* Nothing is in flight between the two.
Quiet == toPoller = <<>> /\ sendCh = <<>> /\ handler = "running" /\ endpoint = "running"

\* Once nothing is in flight, the agent's idea of what is committed is what the
\* session handed over last, however loads, expiries and answers interleaved.
Agreement ==
  Quiet => committedChecks = IF reconciled = <<>> THEN NoSet ELSE Declared(reconciled[Len(reconciled)])

\* The versions of the preparations that reach the scheduler only grow, so that an
\* overtaken commit is never applied after its successor.
CommitsInOrder ==
  \A i, j \in DOMAIN reconciled : i < j => reconciled[i].version < reconciled[j].version

\* With the bundled endpoint the exchange is the abstract two-phase commit: the reconciler
\* gets complete preparations only, each after its vote, however answers, reloads and
\* expiries overlap.  handlePollerCommit alone does not see to it, so that with another
\* server it need not hold.  The end of the session abandons what is being prepared.
Gone == activePrep = NoPrep \/ handler \in {"crashed", "done"}

TPC == INSTANCE TwoPhaseCommit WITH
  phase <- IF Gone THEN "idle" ELSE IF prepareToEndTimer = "nil" THEN "prepared" ELSE "preparing",
  prep  <- IF Gone THEN NoPrep ELSE activePrep,
  log   <- reconciled

ImplementsTwoPhaseCommit == TPC!TPCSpec

\* Every preparation that the agent sent is answered in the end, so that no entry of
\* pendingPrepares waits for its "prepared" or failure for good.
PrepareResolved ==
  \A v \in 1 .. MaxLoads :
    (\E m \in DOMAIN pendingPrepares : pendingPrepares[m].version = v /\ ~pendingPrepares[m].committing)
      ~> (\/ \A m \in DOMAIN pendingPrepares : pendingPrepares[m].version = v => pendingPrepares[m].committing
          \/ handler # "running" \/ endpoint = "crashed")

=============================================================================
