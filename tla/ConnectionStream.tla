---------------------------- MODULE ConnectionStream ---------------------------
(***************************************************************************)
(* poller/connection_stream.go: one go routine of runHostConnection per    *)
(* endpoint address, which connects, registers, deregisters and            *)
(* reconnects, and the go routine of runRegistrationMetricsCoordinator,    *)
(* which owns the map of registered connections and routes the results of  *)
(* the checks to one of them.                                              *)
(*                                                                         *)
(* A connection (poller/connection.go with its session) is identified by   *)
(* its address and a number; a host go routine only goes on to the next    *)
(* number when the session of the last one is done.  A session is reduced  *)
(* to what the stream sees of it: open or done, authenticated, measured by *)
(* a heartbeat, the channel that Session.Send writes to, which need not be *)
(* emptied any more once the session is done, and whether its sender is in *)
(* a Write that the far end does not take: over TLS no deadline ends it.   *)
(***************************************************************************)
EXTENDS Integers, Sequences

CONSTANTS
  Host,                      \* the endpoint addresses
  registrationsChannelSize,  \* capacity of the channel registrations
  sendChannelSize,           \* capacity of a session's sendCh
  metricsChannelSize,        \* capacity of the channel metricsToSend
  MaxConnections,            \* bound: connections per host
  Reconnecting,              \* bound: the addresses that get another connection
  MaxMetrics                 \* bound: results that the checks produce

ASSUME SizesAssumption ==
  /\ registrationsChannelSize \in Nat \ {0}
  /\ sendChannelSize \in Nat \ {0}
  /\ metricsChannelSize \in Nat \ {0}
ASSUME BoundsAssumption == MaxConnections \in Nat /\ MaxMetrics \in Nat

VARIABLES
  host,           \* address -> where its runHostConnection is
  number,         \* address -> number of its latest connection, 0 before the first
  open,           \* address -> the session of that connection is not done
  authenticated,  \* address -> state of the channel of that name of the connection
  measured,       \* connections with latency measurements
  sendCh,         \* connection -> number of frames in its session's sendCh
  stalled,        \* addresses whose session is open with its sender in a Write that does not return
  registrations,  \* channel of registrations and deregistrations
  conns,          \* address -> number of the registered connection, 0 if none
  coordinator,    \* what the coordinator is doing
  target,         \* the connection that it sends to, NoConn if none
  metricsToSend,  \* number of results waiting in the channel
  produced,       \* number of results so far
  resets,         \* pending resets of the scheduler
  running         \* FALSE when the stream's context is cancelled

hostVars == <<host, number, open, authenticated>>
sessionVars == <<measured, sendCh, stalled>>
coordinatorVars == <<conns, coordinator, target>>
vars == <<hostVars, sessionVars, registrations, coordinatorVars, metricsToSend, produced, resets, running>>

Conn == Host \X (1 .. MaxConnections)
NoConn == << >>
HostState == {"starting", "dialing", "connected", "registering", "deregistering", "sleeping", "done"}
CoordinatorState == {"select", "sending", "resetting", "done"}
Registration == [register : BOOLEAN, qry : Host, conn : 1 .. MaxConnections]

Registered == {h \in Host : conns[h] # 0}

\* The session of a connection is done: it was closed, or an older one.
Done(h, n) == n < number[h] \/ ~open[h]

Init ==
  /\ host = [h \in Host |-> "starting"]
  /\ number = [h \in Host |-> 0]
  /\ open = [h \in Host |-> FALSE]
  /\ authenticated = [h \in Host |-> "pending"]
  /\ measured = {}
  /\ sendCh = [c \in Conn |-> 0]
  /\ stalled = {}
  /\ registrations = <<>>
  /\ conns = [h \in Host |-> 0]
  /\ coordinator = "select"
  /\ target = NoConn
  /\ metricsToSend = 0 /\ produced = 0
  /\ resets = 0
  /\ running = TRUE

-----------------------------------------------------------------------------
(***************************************************************************)
(* runHostConnection.                                                      *)
(***************************************************************************)

others == <<sessionVars, coordinatorVars, metricsToSend, produced, resets, running>>

\* connectionFactory(addr, cs.config.Guid, cs), at first and then after each sleep.
CreateConnection(h) ==
  /\ host[h] \in {"starting", "sleeping"}
  /\ number[h] < MaxConnections
  /\ number[h] = 0 \/ h \in Reconnecting
  /\ host' = [host EXCEPT ![h] = "dialing"]
  /\ number' = [number EXCEPT ![h] = @ + 1]
  /\ open' = [open EXCEPT ![h] = FALSE]
  /\ authenticated' = [authenticated EXCEPT ![h] = "pending"]
  /\ UNCHANGED <<registrations, others>>

\* conn.Connect: a new session, whose context is a child of the stream's, or an
\* error and the back-off.
DialSucceeds(h) ==
  /\ host[h] = "dialing"
  /\ host' = [host EXCEPT ![h] = "connected"]
  /\ open' = [open EXCEPT ![h] = running]
  /\ UNCHANGED <<number, authenticated, registrations, others>>

\* Mutant: a host that cannot be dialed is given up.
DialFailsForGood(h) ==
  /\ host[h] = "dialing"
  /\ host' = [host EXCEPT ![h] = "done"]
  /\ UNCHANGED <<number, open, authenticated, registrations, others>>

DialFails(h) ==
  /\ host[h] = "dialing"
  /\ host' = [host EXCEPT ![h] = "sleeping"]
  /\ UNCHANGED <<number, open, authenticated, registrations, others>>

\* case <-pendingAuth: the go routine is in the send until it completes.
SeeAuthenticated(h) ==
  /\ host[h] = "connected"
  /\ authenticated[h] = "closed"
  /\ host' = [host EXCEPT ![h] = "registering"]
  /\ UNCHANGED <<number, open, authenticated, registrations, others>>

\* case <-conn.Done()
SeeDone(h) ==
  /\ host[h] = "connected"
  /\ ~open[h]
  /\ host' = [host EXCEPT ![h] = "deregistering"]
  /\ UNCHANGED <<number, open, authenticated, registrations, others>>

\* cs.registrations <- &connectionRegistration{...}, which blocks while the channel
\* is full and does not look at the context.
Send(h, register) ==
  /\ Len(registrations) < registrationsChannelSize
  /\ registrations' = Append(registrations, [register |-> register, qry |-> h, conn |-> number[h]])

Register(h) ==
  /\ host[h] = "registering"
  /\ Send(h, TRUE)
  /\ host' = [host EXCEPT ![h] = "connected"]
  /\ authenticated' = [authenticated EXCEPT ![h] = "consumed"]
  /\ UNCHANGED <<number, open, others>>

\* Mutant: the deregistration is skipped when the channel is full.
DeregisterUnlessFull(h) ==
  /\ host[h] = "deregistering"
  /\ \/ Send(h, FALSE)
     \/ Len(registrations) = registrationsChannelSize /\ UNCHANGED registrations
  /\ host' = [host EXCEPT ![h] = "sleeping"]
  /\ UNCHANGED <<number, open, authenticated, others>>

Deregister(h) ==
  /\ host[h] = "deregistering"
  /\ Send(h, FALSE)
  /\ host' = [host EXCEPT ![h] = "sleeping"]
  /\ UNCHANGED <<number, open, authenticated, others>>

\* case <-cs.ctx.Done(), while connected or asleep.
HostExits(h) ==
  /\ ~running
  /\ host[h] \in {"connected", "sleeping"}
  /\ host' = [host EXCEPT ![h] = "done"]
  /\ open' = [open EXCEPT ![h] = FALSE]
  /\ stalled' = stalled \ {h}
  /\ UNCHANGED <<number, authenticated, measured, sendCh, registrations>>
  /\ UNCHANGED <<coordinatorVars, metricsToSend, produced, resets, running>>

-----------------------------------------------------------------------------
(***************************************************************************)
(* What the sessions do on their own.                                      *)
(***************************************************************************)

\* The handshake response arrives and SetAuthenticated closes the channel.
Authenticate(h) ==
  /\ open[h] /\ authenticated[h] = "pending"
  /\ authenticated' = [authenticated EXCEPT ![h] = "closed"]
  /\ UNCHANGED <<host, number, open, registrations, others>>

\* The first heartbeat response is measured.
Measure(h) ==
  /\ open[h] /\ authenticated[h] # "pending"
  /\ measured' = measured \cup {<<h, number[h]>>}
  /\ UNCHANGED <<hostVars, sendCh, stalled, registrations, coordinatorVars, metricsToSend, produced, resets, running>>

\* runFrameSending takes a frame; its select may do so when the session is done as well.
SendFrame(h) ==
  /\ number[h] > 0 /\ h \notin stalled
  /\ sendCh[<<h, number[h]>>] > 0
  /\ sendCh' = [sendCh EXCEPT ![<<h, number[h]>>] = @ - 1]
  /\ UNCHANGED <<hostVars, measured, stalled, registrations, coordinatorVars, metricsToSend, produced, resets, running>>

\* The far end does not take what runFrameSending has written, and frames wait behind it.
\* Over TLS nothing ends the Write but the far end or the end of the connection:
\* SetWriteDeadline does nothing unless the connection is a *net.TCPConn.
WriteBlocks(h) ==
  /\ open[h] /\ sendCh[<<h, number[h]>>] > 0
  /\ stalled' = stalled \cup {h}
  /\ UNCHANGED <<hostVars, measured, sendCh, registrations, coordinatorVars, metricsToSend, produced, resets, running>>

\* The far end takes it after all, and the loop goes on with the next frame.
WriteReturns(h) ==
  /\ h \in stalled /\ open[h] /\ sendCh[<<h, number[h]>>] > 0
  /\ stalled' = stalled \ {h}
  /\ sendCh' = [sendCh EXCEPT ![<<h, number[h]>>] = @ - 1]
  /\ UNCHANGED <<hostVars, measured, registrations, coordinatorVars, metricsToSend, produced, resets, running>>

\* The connection ends: far end, I/O error, auth timeout, maximum age.
SessionEnds(h) ==
  /\ open[h]
  /\ open' = [open EXCEPT ![h] = FALSE]
  /\ stalled' = stalled \ {h}
  /\ UNCHANGED <<host, number, authenticated, measured, sendCh, registrations>>
  /\ UNCHANGED <<coordinatorVars, metricsToSend, produced, resets, running>>

-----------------------------------------------------------------------------
(***************************************************************************)
(* runRegistrationMetricsCoordinator.                                      *)
(***************************************************************************)

\* ChooseBest: a connection of least latency among the measured ones.  Latencies
\* change with every heartbeat, so any of them may be it.
Best == {c \in measured : conns[c[1]] = c[2]}

\* case crs := <-cs.metricsToSend, when sendMetrics has nowhere to send to.
DropMetrics ==
  /\ coordinator = "select"
  /\ metricsToSend > 0
  /\ Best = {}
  /\ metricsToSend' = metricsToSend - 1
  /\ UNCHANGED <<hostVars, sessionVars, registrations, coordinatorVars, produced, resets, running>>

\* The same case with a connection: Session.Send ...
RouteMetrics ==
  /\ coordinator = "select"
  /\ metricsToSend > 0
  /\ metricsToSend' = metricsToSend - 1
  /\ \E c \in Best : target' = c
  /\ coordinator' = "sending"
  /\ UNCHANGED <<hostVars, sessionVars, registrations, conns, produced, resets, running>>

\* ... returns when the session's channel has room.
StageMetrics ==
  /\ coordinator = "sending"
  /\ sendCh[target] < sendChannelSize
  /\ sendCh' = [sendCh EXCEPT ![target] = @ + 1]
  /\ coordinator' = "select"
  /\ target' = NoConn
  /\ UNCHANGED <<hostVars, measured, stalled, registrations, conns, metricsToSend, produced, resets, running>>

registerConnection(r) ==
  /\ r.register
  /\ conns' = [conns EXCEPT ![r.qry] = r.conn]
  /\ coordinator' = coordinator

\* Mutant: the entry is kept.
deregisterConnectionKeeps(r) ==
  /\ ~r.register
  /\ conns' = conns
  /\ coordinator' = coordinator

\* deregisterConnection: an address that is not registered is left at that.
deregisterConnection(r) ==
  /\ ~r.register
  /\ conns' = [conns EXCEPT ![r.qry] = 0]
  /\ coordinator' = IF Registered = {r.qry} THEN "resetting" ELSE coordinator

\* case reg := <-cs.registrations
TakeRegistration ==
  /\ coordinator = "select"
  /\ registrations # <<>>
  /\ registrations' = Tail(registrations)
  /\ registerConnection(Head(registrations)) \/ deregisterConnection(Head(registrations))
  /\ UNCHANGED <<hostVars, sessionVars, target, metricsToSend, produced, resets, running>>

\* The last connection is gone: Reset of the schedulers, which blocks while a reset
\* is pending.  The new cs.config.Guid is read by the connections that are made after it.
LoseAll ==
  /\ coordinator = "resetting"
  /\ resets < 1
  /\ resets' = resets + 1
  /\ coordinator' = "select"
  /\ UNCHANGED <<hostVars, sessionVars, registrations, conns, target, metricsToSend, produced, running>>

\* case <-cs.ctx.Done()
CoordinatorExits ==
  /\ ~running
  /\ coordinator = "select"
  /\ coordinator' = "done"
  /\ UNCHANGED <<hostVars, sessionVars, registrations, conns, target, metricsToSend, produced, resets, running>>

-----------------------------------------------------------------------------
(***************************************************************************)
(* The schedulers and the process.                                         *)
(***************************************************************************)

\* A check calls SendMetrics.
ProduceMetrics ==
  /\ metricsToSend < metricsChannelSize /\ produced < MaxMetrics
  /\ metricsToSend' = metricsToSend + 1
  /\ produced' = produced + 1
  /\ UNCHANGED <<hostVars, sessionVars, registrations, coordinatorVars, resets, running>>

\* The reconciler takes the reset.
SchedulerResets ==
  /\ resets > 0
  /\ resets' = resets - 1
  /\ UNCHANGED <<hostVars, sessionVars, registrations, coordinatorVars, metricsToSend, produced, running>>

\* The stream's context is cancelled, and with it those of the sessions.
Cancel ==
  /\ running
  /\ running' = FALSE
  /\ open' = [h \in Host |-> FALSE] /\ stalled' = {}
  /\ UNCHANGED <<host, number, authenticated, measured, sendCh, registrations>>
  /\ UNCHANGED <<coordinatorVars, metricsToSend, produced, resets>>

HostStep(h) ==
  \/ CreateConnection(h) \/ DialSucceeds(h) \/ DialFails(h)
  \/ SeeAuthenticated(h) \/ Register(h) \/ SeeDone(h) \/ Deregister(h) \/ HostExits(h)

SessionStep(h) == Authenticate(h) \/ Measure(h) \/ WriteBlocks(h) \/ WriteReturns(h) \/ SessionEnds(h)

CoordinatorStep ==
  \/ DropMetrics \/ RouteMetrics \/ StageMetrics
  \/ TakeRegistration \/ LoseAll \/ CoordinatorExits

Next ==
  \/ \E h \in Host : HostStep(h) \/ SessionStep(h) \/ SendFrame(h)
  \/ CoordinatorStep
  \/ ProduceMetrics \/ SchedulerResets \/ Cancel

Spec == Init /\ [][Next]_vars

\* A go routine that can go on does, dials end, and the scheduler takes a reset.  A sender
\* goes on while its session is open and its writes return; nothing makes them return.
FairSpec ==
  /\ Spec
  /\ \A h \in Host : WF_vars(HostStep(h)) /\ WF_vars(open[h] /\ SendFrame(h))
  /\ WF_vars(CoordinatorStep) /\ WF_vars(SchedulerResets)

-----------------------------------------------------------------------------
(***************************************************************************)
(* Properties.                                                             *)
(***************************************************************************)

\* Every variable holds a value of its type and every channel respects its capacity.
TypeOK ==
  /\ host \in [Host -> HostState]
  /\ number \in [Host -> 0 .. MaxConnections]
  /\ open \in [Host -> BOOLEAN]
  /\ authenticated \in [Host -> {"pending", "closed", "consumed"}]
  /\ measured \subseteq Conn
  /\ sendCh \in [Conn -> 0 .. sendChannelSize]
  /\ stalled \subseteq Host
  /\ registrations \in Seq(Registration) /\ Len(registrations) <= registrationsChannelSize
  /\ conns \in [Host -> 0 .. MaxConnections]
  /\ coordinator \in CoordinatorState
  /\ target \in Conn \cup {NoConn}
  /\ metricsToSend \in 0 .. metricsChannelSize
  /\ produced \in 0 .. MaxMetrics
  /\ resets \in 0 .. 1
  /\ running \in BOOLEAN

\* deregisterConnection does not look at which connection it is about; it is right
\* not to: when a deregistration is taken, its own connection or none is registered,
\* which what is before it in the channel decides, or the map if nothing is.
DeregistersItsOwn ==
  \A i \in DOMAIN registrations :
    LET r == registrations[i]
        before == {j \in 1 .. (i - 1) : registrations[j].qry = r.qry}
    IN  ~r.register =>
          /\ before = {} => conns[r.qry] \in {0, r.conn}
          /\ \A j \in before :
               (\A k \in before : k <= j) /\ registrations[j].register => registrations[j].conn = r.conn

\* A connection is registered only while its go routine still watches it or has
\* already sent the deregistration: no dead connection is forgotten in the map.
RegisteredIsWatched ==
  \A h \in Registered :
    \/ host[h] \in {"connected", "deregistering", "done"} /\ conns[h] = number[h]
    \/ \E i \in DOMAIN registrations :
         ~registrations[i].register /\ registrations[i].qry = h /\ registrations[i].conn = conns[h]

\* The map of connections follows the connections although registrations reach it late
\* and through a bounded channel: it loses no successor and keeps no dead connection.
MapFollowsConnections == DeregistersItsOwn /\ RegisteredIsWatched

\* The coordinator is in Send to a session whose channel is full and whose sender does not
\* empty it: the session is done, or its sender is in a Write to a silent far end.  With it
\* waits everything that it routes or registers, for all connections.
Clogged ==
  /\ coordinator = "sending" /\ sendCh[target] = sendChannelSize
  /\ Done(target[1], target[2]) \/ target[1] \in stalled

\* A connection whose session is done is taken out of the map in the end, so that ChooseBest
\* takes another one, whatever the other connections do: only a coordinator that is
\* clogged for good, or the end of the stream, leaves it there.
DeadIsDeregistered ==
  \A h \in Host, n \in 1 .. MaxConnections :
    (conns[h] = n /\ Done(h, n)) ~> (conns[h] # n \/ []Clogged \/ ~running)

=============================================================================
